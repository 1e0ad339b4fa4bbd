------------------------------- MODULE RawRpc --------------------------------
(***************************************************************************)
(* RPC inside one process (clnt_raw.c, svc_raw.c): the call and its reply  *)
(* go through one buffer, __rpc_rawcombuf, and the client itself calls the *)
(* server's input routine.  There is one client object and one transport,  *)
(* whatever is created; a dispatch routine may itself make a call.  The    *)
(* result of procedure and argument is <<program, argument>>.              *)
(***************************************************************************)
EXTENDS Integers, Sequences

CONSTANTS
  Programs,              \* programs called, registered and unregistered
  Arguments,             \* arguments; 0 is what a struct holds before it is decoded
  FD_SETSIZE, DTableSize,
  Fates,                 \* what a dispatch routine may do: "reply", "silent", "long"
  NestEarly,             \* whether it may make a call before it takes its arguments
  MaxDepth,              \* bound on nested calls
  MaxCalls               \* bound on calls

(* What the constants must satisfy; whoever instantiates them assumes it.  *)
RawAssumption ==
  /\ 0 \notin Arguments /\ NestEarly \in BOOLEAN
  /\ {FD_SETSIZE, DTableSize, MaxDepth, MaxCalls} \subseteq Nat
(* A program that calls only itself, takes its arguments before it calls,  *)
(* and always replies, or never calls; and a descriptor inside the table.  *)
Alone ==
  /\ \A p, q \in Programs : p = q
  /\ ~NestEarly /\ ("silent" \notin Fates \/ MaxDepth <= 1)
  /\ Fates \subseteq {"reply", "silent", "long"} /\ FD_SETSIZE < DTableSize

VARIABLES
  __rpc_rawcombuf,
  clntraw,       \* the program in the marshalled header, 0 before the first create
  callouts,      \* programs registered with svc_reg
  handles,       \* programs that handles were created for
  svc_raw,       \* the transport: created, and x_op of its stream
  frames,        \* calls under way, the innermost last
  last,          \* the call that returned in this step
  calls

vars == <<__rpc_rawcombuf, clntraw, callouts, handles, svc_raw, frames, last, calls>>

Empty == [dir |-> "none", prog |-> 0, arg |-> 0, stat |-> "none"]
NoCall == [want |-> 0, arg |-> 0, live |-> FALSE, fate |-> "none", status |-> "none", res |-> <<0, 0>>]
Init ==
  /\ __rpc_rawcombuf = Empty /\ clntraw = 0 /\ callouts = {} /\ handles = {} /\ svc_raw = [live |-> FALSE, x_op |-> "XDR_DECODE"]
  /\ frames = <<>> /\ last = NoCall /\ calls = 0

top == frames[Len(frames)]
at(p) == frames /= <<>> /\ top.pc = p
set(f) == frames' = [frames EXCEPT ![Len(frames)] = f]
(* The application runs: outside of calls, or in a dispatch routine.       *)
running == IF frames = <<>> THEN TRUE ELSE top.pc = "args" \/ (NestEarly /\ top.pc = "dispatch")

-----------------------------------------------------------------------------
svc_raw_create ==
  /\ running /\ ~svc_raw.live
  /\ svc_raw' = [live |-> TRUE, x_op |-> "XDR_DECODE"] /\ last' = NoCall
  /\ UNCHANGED <<__rpc_rawcombuf, clntraw, callouts, handles, frames, calls>>
(* xprt_register leaves out a descriptor beyond the table; that the table  *)
(* exists, some other transport has seen to.                               *)
registered == svc_raw.live /\ FD_SETSIZE < DTableSize

svc_reg(p) ==
  /\ running /\ callouts' = (callouts \cup {p}) \ (callouts \cap {p}) /\ last' = NoCall
  /\ UNCHANGED <<__rpc_rawcombuf, clntraw, handles, svc_raw, frames, calls>>
clnt_raw_create(p) ==
  /\ running /\ p \notin handles
  /\ clntraw' = p /\ handles' = handles \cup {p} /\ last' = NoCall
  /\ UNCHANGED <<__rpc_rawcombuf, callouts, svc_raw, frames, calls>>

(* clnt_raw_call up to the server's input routine.                         *)
clnt_raw_call(p, arg) ==
  /\ running /\ p \in handles /\ Len(frames) < MaxDepth /\ calls < MaxCalls /\ calls' = calls + 1
  /\ __rpc_rawcombuf' = [dir |-> "call", prog |-> clntraw, arg |-> arg, stat |-> "none"]
  /\ frames' = Append(frames, [pc |-> "serve", want |-> p, arg |-> arg, live |-> svc_raw.live /\ p \in callouts,
                               fate |-> "none", prog |-> 0, got |-> 0])
  /\ last' = NoCall /\ UNCHANGED <<clntraw, callouts, handles, svc_raw>>

-----------------------------------------------------------------------------
(* svc_getreq_common: svc_raw_recv, and the dispatch.                      *)
unserved ==
  /\ at("serve") /\ ~registered /\ set([top EXCEPT !.pc = "decode"])
  /\ UNCHANGED <<__rpc_rawcombuf, clntraw, callouts, handles, svc_raw, last, calls>>
svc_raw_recv_same == svc_raw
svc_raw_recv == [svc_raw EXCEPT !.x_op = "XDR_DECODE"]
serve ==
  /\ at("serve") /\ registered
  /\ \/ /\ __rpc_rawcombuf.prog \in callouts /\ svc_raw' = svc_raw_recv
        /\ set([top EXCEPT !.pc = "dispatch", !.prog = __rpc_rawcombuf.prog])
        /\ UNCHANGED __rpc_rawcombuf
     \/ /\ __rpc_rawcombuf.prog \notin callouts        \* svcerr_noprog
        /\ __rpc_rawcombuf' = [Empty EXCEPT !.dir = "reply", !.stat = "RPC_PROGUNAVAIL"]
        /\ svc_raw' = [svc_raw EXCEPT !.x_op = "XDR_ENCODE"]
        /\ set([top EXCEPT !.pc = "decode"])
  /\ UNCHANGED <<clntraw, callouts, handles, last, calls>>
(* The arguments are what the buffer and x_op make of them by now.         *)
svc_raw_getargs ==
  /\ at("dispatch")
  /\ set([top EXCEPT !.pc = "args",
       !.got = IF svc_raw.x_op = "XDR_FREE" THEN 0 ELSE __rpc_rawcombuf.arg])
  /\ UNCHANGED <<__rpc_rawcombuf, clntraw, callouts, handles, svc_raw, last, calls>>
encoded(prog, arg) == [dir |-> "reply", prog |-> prog, arg |-> arg, stat |-> "RPC_SUCCESS"]
svc_raw_reply ==
  /\ at("args") /\ "reply" \in Fates
  /\ __rpc_rawcombuf' = encoded(top.prog, top.got)
  /\ svc_raw' = [svc_raw EXCEPT !.x_op = "XDR_ENCODE"] /\ set([top EXCEPT !.pc = "free", !.fate = "reply"])
  /\ UNCHANGED <<clntraw, callouts, handles, last, calls>>
reply_fails ==         \* the results do not fit the buffer
  /\ at("args") /\ "long" \in Fates
  /\ __rpc_rawcombuf' = [Empty EXCEPT !.dir = "cut"]
  /\ svc_raw' = [svc_raw EXCEPT !.x_op = "XDR_ENCODE"] /\ set([top EXCEPT !.pc = "free", !.fate = "long"])
  /\ UNCHANGED <<clntraw, callouts, handles, last, calls>>
no_reply ==
  /\ at("args") /\ "silent" \in Fates /\ set([top EXCEPT !.pc = "free", !.fate = "silent"])
  /\ UNCHANGED <<__rpc_rawcombuf, clntraw, callouts, handles, svc_raw, last, calls>>
svc_raw_freeargs ==
  /\ at("free") /\ svc_raw' = [svc_raw EXCEPT !.x_op = "XDR_FREE"] /\ set([top EXCEPT !.pc = "decode"])
  /\ UNCHANGED <<__rpc_rawcombuf, clntraw, callouts, handles, last, calls>>

(* clnt_raw_call: the reply, whatever call it is of, is decoded from the   *)
(* start of the buffer.                                                    *)
status(b) == IF b.dir = "reply" THEN b.stat ELSE "RPC_CANTDECODERES"
get_results ==
  /\ at("decode")
  /\ last' = [want |-> top.want, arg |-> top.arg, live |-> top.live, fate |-> top.fate,
              status |-> status(__rpc_rawcombuf), res |-> <<__rpc_rawcombuf.prog, __rpc_rawcombuf.arg>>]
  /\ frames' = SubSeq(frames, 1, Len(frames) - 1)
  /\ UNCHANGED <<__rpc_rawcombuf, clntraw, callouts, handles, svc_raw, calls>>

Next ==
  \/ svc_raw_create \/ (\E p \in Programs : clnt_raw_create(p) \/ svc_reg(p))
  \/ (\E p \in Programs, a \in Arguments : clnt_raw_call(p, a))
  \/ unserved \/ serve \/ svc_raw_getargs \/ svc_raw_reply \/ reply_fails \/ no_reply
  \/ svc_raw_freeargs \/ get_results
Spec == Init /\ [][Next]_vars

-----------------------------------------------------------------------------
(* A call that succeeds has the result of its own program and argument,    *)
(* however calls nest: "creates an RPC client handle for the remote        *)
(* program prognum" (rpc_clnt_create.3t:336-338).                          *)
AnswersOwn == last.status = "RPC_SUCCESS" => last.res = <<last.want, last.arg>>
(* With the transport created and the program registered, a call whose     *)
(* dispatch replies succeeds: the transport "is really a buffer within the *)
(* process's address space" (rpc_svc_create.3t:214-215).                   *)
Served == last.live /\ last.fate \in {"none", "reply"} => last.status = "RPC_SUCCESS"
=============================================================================
