--------------------------------- MODULE Svc --------------------------------
(***************************************************************************)
(* The server side of libtirpc: the table of transports and its poll array *)
(* (xprt_register, xprt_unregister), the list of services (svc_reg,        *)
(* svc_unreg, svc_find), and the loop of svc_run, svc_getreq_poll and      *)
(* svc_getreq_common, with the creation and destruction of connections of  *)
(* svc_vc.c.  One thread; the kernel's sockets are the environment.        *)
(***************************************************************************)
EXTENDS Integers, Sequences, FiniteSets

CONSTANTS MaxFd,        \* descriptors are 0 .. MaxFd
          MaxXprt,      \* bound on the transports ever created
          Requests,     \* <<prog, vers>> pairs clients call
          Services,     \* <<prog, vers>> pairs the program registers
          Behaviours,   \* what a dispatch routine may do besides replying
          Batch,        \* bound on the requests waiting in a socket
          ExitAt        \* where svc_run may be when another thread calls svc_exit

Fds  == 0 .. MaxFd
None == 0
Listener == 0                             \* descriptor of the listening socket
Versions == {s[2] : s \in Services}

ASSUME SvcAssumption == MaxFd \in Nat /\ MaxXprt \in Nat \ {0} /\ ExitAt \subseteq {"top", "poll"}

VARIABLES
  sock,        \* kernel: per descriptor [open, in, eof]; in of the listener
               \* counts connections waiting to be accepted
  xprt,        \* every transport created: [fd, freed, died]
  svc_xports,  \* __svc_xports: descriptor -> transport
  svc_pollfd, poll_null,   \* the poll array; NULL after svc_exit
  svc_maxfd,
  svc_head,    \* the services list: <<prog, vers>>, newest first
  pc, my, ret, i, found,   \* svc_run and svc_getreq_poll
  fd, x,       \* svc_getreq_common: descriptor and transport
  buf,         \* requests the stream has read and not yet given out
  answer,      \* what the last request was answered
  used_freed   \* a transport was used after it was freed

tables == <<svc_xports, svc_pollfd, poll_null, svc_maxfd>>
loop   == <<pc, my, ret, i, found, fd, x, buf>>
vars   == <<sock, xprt, tables, svc_head, loop, answer, used_freed>>

Closed == [open |-> FALSE, in |-> <<>>, eof |-> FALSE]
Largest(S) == IF S = {} THEN -1 ELSE CHOOSE n \in S : \A m \in S : m <= n

(* svc_vc_create has made the listening transport.                         *)
Init ==
  /\ sock = [f \in Fds |-> IF f = Listener THEN [Closed EXCEPT !.open = TRUE] ELSE Closed]
  /\ xprt = <<[fd |-> Listener, freed |-> FALSE, died |-> FALSE]>>
  /\ svc_xports = [f \in Fds |-> IF f = Listener THEN 1 ELSE None]
  /\ svc_pollfd = <<Listener>> /\ poll_null = FALSE /\ svc_maxfd = Listener
  /\ svc_head = <<>>
  /\ pc = "top" /\ my = <<>> /\ ret = 0 /\ i = 1 /\ found = 0 /\ fd = 0 /\ x = None /\ buf = <<>>
  /\ answer = <<"none">> /\ used_freed = FALSE

-----------------------------------------------------------------------------
(* Transports.                                                             *)

FreeSlot == {k \in 1 .. Len(svc_pollfd) : svc_pollfd[k] = -1}
xprt_register(f, n) ==
  /\ svc_xports' = [svc_xports EXCEPT ![f] = n]
  /\ svc_maxfd' = Largest({svc_maxfd, f})
  /\ svc_pollfd' = IF FreeSlot /= {}
                   THEN [svc_pollfd EXCEPT ![CHOOSE k \in FreeSlot : \A j \in FreeSlot : k <= j] = f]
                   ELSE Append(svc_pollfd, f)
  /\ poll_null' = FALSE

(* Only the transport the table names is taken out; svc_maxfd goes down to *)
(* the next registered descriptor when the largest one leaves.             *)
xprt_unregister(n) ==
  LET f == xprt[n].fd IN
  \/ svc_xports[f] /= n /\ UNCHANGED tables
  \/ /\ svc_xports[f] = n
     /\ svc_xports' = [svc_xports EXCEPT ![f] = None]
     /\ svc_maxfd' = IF f >= svc_maxfd
                     THEN Largest({g \in Fds : g < svc_maxfd /\ svc_xports[g] /= None})
                     ELSE svc_maxfd
     /\ svc_pollfd' = [k \in 1 .. Len(svc_pollfd) |->
                         IF svc_pollfd[k] = f THEN -1 ELSE svc_pollfd[k]]
     /\ UNCHANGED poll_null

(* SVC_DESTROY: unregistered, closed, freed.                               *)
svc_vc_destroy(n) ==
  /\ xprt_unregister(n)
  /\ sock' = [sock EXCEPT ![xprt[n].fd] = Closed]
  /\ xprt' = [xprt EXCEPT ![n].freed = TRUE]

svc_exit == /\ svc_pollfd' = <<>> /\ poll_null' = TRUE
            /\ UNCHANGED <<svc_xports, svc_maxfd>>

-----------------------------------------------------------------------------
(* Services.  Registering what is registered is accepted, as the same      *)
(* dispatch routine.                                                       *)
svc_find(s) == \E k \in 1 .. Len(svc_head) : svc_head[k] = s

svc_reg(s) ==
  /\ pc = "top" /\ s \in Services
  /\ ~svc_find(s) /\ svc_head' = <<s>> \o svc_head
  /\ UNCHANGED <<sock, xprt, tables, loop, answer, used_freed>>

svc_unreg(s) ==
  /\ pc = "top" /\ svc_find(s)
  /\ svc_head' = SelectSeq(svc_head, LAMBDA t : t /= s)
  /\ UNCHANGED <<sock, xprt, tables, loop, answer, used_freed>>

-----------------------------------------------------------------------------
(* The clients and the kernel.                                             *)
Connect ==
  /\ sock[Listener].open /\ Len(sock[Listener].in) = 0
  /\ sock' = [sock EXCEPT ![Listener].in = <<"connection">>]
  /\ UNCHANGED <<xprt, tables, svc_head, loop, answer, used_freed>>
Request(f, r) ==
  /\ f /= Listener /\ sock[f].open /\ ~sock[f].eof /\ Len(sock[f].in) < Batch
  /\ sock' = [sock EXCEPT ![f].in = Append(@, r)]
  /\ UNCHANGED <<xprt, tables, svc_head, loop, answer, used_freed>>
Hangup(f) ==
  /\ f /= Listener /\ sock[f].open /\ ~sock[f].eof
  /\ sock' = [sock EXCEPT ![f].eof = TRUE]
  /\ UNCHANGED <<xprt, tables, svc_head, loop, answer, used_freed>>

Ready(f) == sock[f].in /= <<>> \/ sock[f].eof

-----------------------------------------------------------------------------
(* svc_run: copy the poll array, poll, serve what is ready.                *)
SvcRunTop ==
  /\ pc = "top"
  /\ IF Len(svc_pollfd) = 0 /\ poll_null
     THEN pc' = "done" /\ UNCHANGED my
     ELSE /\ my' = [k \in 1 .. Len(svc_pollfd) |-> [fd |-> svc_pollfd[k], revents |-> FALSE]]
          /\ pc' = "poll"
  /\ UNCHANGED <<sock, xprt, tables, svc_head, ret, i, found, fd, x, buf, answer, used_freed>>

poll_passes_size ==
  /\ pc = "poll"
  /\ LET ready == {k \in 1 .. Len(my) : my[k].fd /= -1 /\ Ready(my[k].fd)} IN
       /\ ready /= {}
       /\ my' = [k \in 1 .. Len(my) |-> [my[k] EXCEPT !.revents = k \in ready]]
       /\ ret' = Len(my)
  /\ i' = 1 /\ found' = 0 /\ pc' = "scan"
  /\ UNCHANGED <<sock, xprt, tables, svc_head, fd, x, buf, answer, used_freed>>
SvcRunPoll ==
  /\ pc = "poll"
  /\ LET ready == {k \in 1 .. Len(my) : my[k].fd /= -1 /\ Ready(my[k].fd)} IN
       /\ ready /= {}
       /\ my' = [k \in 1 .. Len(my) |-> [my[k] EXCEPT !.revents = k \in ready]]
       /\ ret' = Cardinality(ready)
  /\ i' = 1 /\ found' = 0 /\ pc' = "scan"
  /\ UNCHANGED <<sock, xprt, tables, svc_head, fd, x, buf, answer, used_freed>>

(* svc_getreq_poll: as far as the poll array reaches now, which is not the *)
(* array that was copied, until as many were found as poll reported.       *)
SvcGetreqPoll ==
  /\ pc = "scan"
  /\ IF i > Len(svc_pollfd) \/ found >= ret
     THEN pc' = "top" /\ UNCHANGED <<i, found, fd>>
     ELSE IF my[i].fd /= -1 /\ my[i].revents
     THEN pc' = "common" /\ fd' = my[i].fd /\ found' = found + 1 /\ i' = i + 1
     ELSE i' = i + 1 /\ UNCHANGED <<pc, found, fd>>
  /\ UNCHANGED <<sock, xprt, tables, svc_head, my, ret, x, buf, answer, used_freed>>

-----------------------------------------------------------------------------
(* svc_getreq_common.                                                      *)
SvcGetreqCommon ==
  /\ pc = "common"
  /\ x' = svc_xports[fd]
  /\ pc' = IF svc_xports[fd] = None THEN "scan" ELSE "recv"
  /\ UNCHANGED <<sock, xprt, tables, svc_head, my, ret, i, found, fd, buf, answer, used_freed>>

(* rendezvous_request: accept the connection on the lowest free descriptor *)
(* and make a transport for it.  It never returns a message.               *)
FreeFds == {f \in Fds : ~sock[f].open}
RendezvousRequest ==
  /\ pc = "recv" /\ xprt[x].fd = Listener /\ ~xprt[x].freed
  /\ IF FreeFds = {} \/ Len(xprt) = MaxXprt \/ sock[Listener].in = <<>>
     THEN /\ sock' = [sock EXCEPT ![Listener].in = <<>>]
          /\ UNCHANGED <<xprt, tables>>
     ELSE LET f == CHOOSE g \in FreeFds : \A h \in FreeFds : g <= h IN
          /\ sock' = [sock EXCEPT ![Listener].in = <<>>,
                                  ![f] = [open |-> TRUE, in |-> <<>>, eof |-> FALSE]]
          /\ xprt' = Append(xprt, [fd |-> f, freed |-> FALSE, died |-> FALSE])
          /\ xprt_register(f, Len(xprt) + 1)
  /\ pc' = "check"
  /\ UNCHANGED <<svc_head, my, ret, i, found, fd, x, buf, answer, used_freed>>

(* SVC_RECV on a connection without a message: nothing there, or the end.  *)
RecvNothing ==
  /\ pc = "recv" /\ xprt[x].fd /= Listener
  /\ (buf = <<>> /\ sock[xprt[x].fd].in = <<>>) \/ xprt[x].freed
  /\ xprt' = [xprt EXCEPT ![x].died = @ \/ sock[xprt[x].fd].eof]
  /\ used_freed' = (used_freed \/ xprt[x].freed)
  /\ pc' = "check"
  /\ UNCHANGED <<sock, tables, svc_head, my, ret, i, found, fd, x, buf, answer>>

(* SVC_RECV returns a message: the stream reads what the socket holds when *)
(* it has nothing left.  Authenticate the message, then look it up.        *)
Pending == IF buf = <<>> THEN sock[fd].in ELSE buf
HasMessage == pc = "recv" /\ xprt[x].fd /= Listener /\ ~xprt[x].freed /\ Pending /= <<>>
Take == /\ buf' = Tail(Pending)
        /\ sock' = IF buf = <<>> THEN [sock EXCEPT ![fd].in = <<>>] ELSE sock

RecvRejected ==
  /\ HasMessage /\ Take
  /\ answer' = <<"auth error">> /\ pc' = "stat"
  /\ UNCHANGED <<xprt, tables, svc_head, my, ret, i, found, fd, x, used_freed>>

Offers(p) == {svc_head[k][2] : k \in {j \in 1 .. Len(svc_head) : svc_head[j][1] = p}}
RecvRequest ==
  /\ HasMessage /\ Take
  /\ LET r == Head(Pending) IN
       \/ /\ svc_find(r) /\ answer' = <<"dispatch", r, r>> /\ pc' = "dispatch"
       \/ /\ ~svc_find(r) /\ Offers(r[1]) /= {}
          /\ answer' = <<"progvers", r, CHOOSE v \in Offers(r[1]) : \A w \in Offers(r[1]) : v <= w,
                                        Largest(Offers(r[1]))>>
          /\ pc' = "check"
       \/ /\ ~svc_find(r) /\ Offers(r[1]) = {}
          /\ answer' = <<"noprog", r>> /\ pc' = "check"
  /\ UNCHANGED <<xprt, tables, svc_head, my, ret, i, found, fd, x, used_freed>>

(* The dispatch routine replies, and may destroy a transport, or end       *)
(* svc_run.                                                                *)
Dispatch ==
  /\ pc = "dispatch" /\ pc' = "stat"
  /\ \/ UNCHANGED <<sock, xprt, tables>>
     \/ "destroy self" \in Behaviours /\ svc_vc_destroy(x)
     \/ /\ "destroy other" \in Behaviours
        /\ \E n \in 1 .. Len(xprt) : ~xprt[n].freed /\ n /= x /\ xprt[n].fd /= Listener
                                     /\ svc_vc_destroy(n)
     \/ "exit" \in Behaviours /\ svc_exit /\ UNCHANGED <<sock, xprt>>
  /\ UNCHANGED <<svc_head, my, ret, i, found, fd, x, buf, answer, used_freed>>

(* "Check if the xprt has been disconnected in a recursive call in the     *)
(* service dispatch routine.  If so, then break."  A request that was      *)
(* dispatched or rejected jumps over it.                                   *)
Check ==
  /\ pc = "check"
  /\ pc' = IF x /= svc_xports[fd] THEN "scan" ELSE "stat"
  /\ buf' = IF x /= svc_xports[fd] THEN <<>> ELSE buf
  /\ UNCHANGED <<sock, xprt, tables, svc_head, my, ret, i, found, fd, x, answer, used_freed>>

SvcStat ==
  /\ pc = "stat"
  /\ used_freed' = (used_freed \/ xprt[x].freed)
  /\ \/ /\ xprt[x].died /\ ~xprt[x].freed
        /\ svc_vc_destroy(x) /\ pc' = "scan"
     \/ /\ ~xprt[x].died \/ xprt[x].freed
        /\ pc' = IF buf /= <<>> THEN "recv" ELSE "scan"
        /\ UNCHANGED <<sock, xprt, tables>>
  /\ buf' = IF pc' = "recv" THEN buf ELSE <<>>
  /\ UNCHANGED <<svc_head, my, ret, i, found, fd, x, answer>>

Loop == SvcRunTop \/ SvcRunPoll \/ SvcGetreqPoll \/ SvcGetreqCommon
          \/ RendezvousRequest \/ RecvNothing \/ RecvRequest \/ RecvRejected
          \/ Dispatch \/ Check \/ SvcStat

ExitCalled ==
  /\ pc \in ExitAt /\ ~poll_null /\ svc_exit
  /\ UNCHANGED <<sock, xprt, svc_head, loop, answer, used_freed>>

Next ==
  \/ Loop \/ Connect \/ ExitCalled
  \/ \E f \in Fds : Hangup(f) \/ \E r \in Requests : Request(f, r)
  \/ \E s \in Services : svc_reg(s) \/ svc_unreg(s)

Spec == Init /\ [][Next]_vars
(* The server's thread runs; poll returns when something is ready.         *)
FairSpec == Spec /\ WF_vars(Loop)

-----------------------------------------------------------------------------
(* Types; a transport's descriptor is one the table can hold.              *)
TypeOK ==
  /\ sock = [f \in Fds |-> [open |-> sock[f].open, in |-> sock[f].in, eof |-> sock[f].eof]]
  /\ xprt \in Seq([fd : Fds, freed : BOOLEAN, died : BOOLEAN])
  /\ svc_xports \in [Fds -> 0 .. Len(xprt)]
  /\ svc_pollfd \in Seq(Fds \cup {-1}) /\ poll_null \in BOOLEAN
  /\ svc_maxfd \in Fds \cup {-1}
  /\ my \in Seq([fd : Fds \cup {-1}, revents : BOOLEAN])
  /\ ret \in Nat /\ i \in Nat \ {0} /\ found \in Nat
  /\ fd \in Fds /\ x \in 0 .. Len(xprt)

(* The three views of the transports agree: a registered descriptor is in  *)
(* the poll array exactly once, an unregistered one is not there, the      *)
(* transport of a descriptor is alive and its descriptor open, a transport *)
(* that is alive is the one registered for its descriptor, and svc_maxfd   *)
(* is the largest of them.  Registration after unregistration reuses slots *)
(* and descriptors in any order.                                           *)
InPoll(f) == \E k \in 1 .. Len(svc_pollfd) : svc_pollfd[k] = f
TablesAgree ==
  /\ ~poll_null => \A f \in Fds : svc_xports[f] /= None <=> InPoll(f)
  /\ \A j, k \in 1 .. Len(svc_pollfd) : svc_pollfd[j] = svc_pollfd[k] => j = k \/ svc_pollfd[j] = -1
  /\ \A f \in Fds : svc_xports[f] /= None =>
       sock[f].open /\ ~xprt[svc_xports[f]].freed /\ xprt[svc_xports[f]].fd = f
  /\ \A n \in 1 .. Len(xprt) : ~xprt[n].freed => svc_xports[xprt[n].fd] = n
  /\ svc_maxfd = Largest({f \in Fds : svc_xports[f] /= None})

(* svc_getreq_poll bounds its loop by the current length of the poll       *)
(* array, while pfdp has the length of the copy: it must still never read  *)
(* past the copy, although accepted connections lengthen the array.        *)
ScanInsideCopy ==
  pc = "scan" /\ i <= Len(svc_pollfd) /\ found < ret => i <= Len(my)

(* It does not because what poll counted and was not found yet lies ahead. *)
Busy == pc \in {"recv", "dispatch", "check", "stat"}
Ahead == {k \in 1 .. Len(my) : k >= i /\ my[k].revents}
ScanCounted ==
  /\ \A k \in 1 .. Len(my) : my[k].revents => my[k].fd /= -1
  /\ Busy \/ pc \in {"scan", "common"} => ret = found + Cardinality(Ahead)

(* After svc_exit no connection is accepted, which would bring back a poll *)
(* array without the other transports; only connections have requests.     *)
ExitStays ==
  /\ poll_null => svc_pollfd = <<>> /\ pc /= "common" /\ (Busy => xprt[x].fd /= Listener)
  /\ pc = "dispatch" => xprt[x].fd /= Listener
  /\ buf /= <<>> => Busy /\ xprt[x].fd /= Listener

(* The promise of the comment at svc.c:741, "Check if the xprt has been    *)
(* disconnected in a recursive call in the service dispatch routine.  If   *)
(* so, then break": a freed transport is not used again.  The code keeps   *)
(* it unless a routine destroys the transport it serves.                   *)
NoUseAfterFree ==
  /\ Busy => x /= None /\ (pc = "dispatch" => ~xprt[x].freed)
  /\ "destroy self" \notin Behaviours => ~used_freed /\ (Busy => ~xprt[x].freed)

(* svc_run while connections come, hang up and are destroyed and dispatch  *)
(* routines destroy other transports or leave: descriptor table, poll      *)
(* array and transports agree, the scan stays inside the copy it polled,   *)
(* and no freed transport is used (svc.c, svc_run.c).                      *)
TransportTablesSafe ==
  /\ TypeOK /\ TablesAgree /\ ScanInsideCopy /\ NoUseAfterFree
  /\ ScanCounted /\ ExitStays

(* A request goes to the routine registered for its program and version,   *)
(* and is refused with the range of the versions that are registered.      *)
AnswerMatches ==
  [][ answer' /= answer /\ answer'[1] \in {"dispatch", "progvers", "noprog"} =>
        CASE answer'[1] = "dispatch" -> answer'[2] = answer'[3] /\ svc_find(answer'[2])
          [] answer'[1] = "progvers" ->
               /\ ~svc_find(answer'[2])
               /\ \A s \in Services : svc_find(s) /\ s[1] = answer'[2][1] =>
                    s[2] \in answer'[3] .. answer'[4]
          [] answer'[1] = "noprog" -> Offers(answer'[2][1]) = {} ]_vars

(* Every descriptor with something to read is served: its input is taken   *)
(* or its transport destroyed, unless svc_run was left.                    *)
Noticed(f)  == ~sock[f].open \/ ~sock[f].eof \/ pc = "done"
InputServed == \A f \in Fds : []<>Noticed(f)

(* svc_exit, called by a dispatch routine or by another thread, also while *)
(* svc_run waits in poll: nothing undoes it before svc_run looks, no other *)
(* descriptor is served from then on, and svc_run returns, unless it is in *)
(* poll and nothing arrives, for svc_exit does not wake it.                *)
Waiting == pc = "poll" /\ \A k \in 1 .. Len(my) : my[k].fd = -1 \/ ~Ready(my[k].fd)
ExitReturns ==
  /\ [][poll_null => poll_null' \/ pc = "done"]_vars
  /\ [][poll_null /\ ~Busy => answer' = answer]_vars
  /\ []<>(~poll_null \/ pc = "done" \/ Waiting)
=============================================================================
