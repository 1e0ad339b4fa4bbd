---------------------------- MODULE CornflakeRpc ----------------------------
(***************************************************************************)
(* One remote call from start to end: the client and the server program of *)
(* src/cornflakes/examples (cf_client.c, cf_server.c) over a TCP           *)
(* connection, with the library underneath them as it is.                  *)
(*                                                                         *)
(* A process is a record: pc, the step it is at; xdrs, its stream (buf is  *)
(* the malloc'ed buffer); reg, its static registry; msg, its struct        *)
(* rpc_msg; args, the strings and the result its argument structure points *)
(* to; rcvd, what read() returned (-1 before); put, the bytes it had to    *)
(* write; wrote, those write() took; ok, the result of the last            *)
(* (de)serialisation, which both programs ignore.  A process whose pc is   *)
(* "crash" has run into undefined behaviour and nothing is assumed of it   *)
(* but that its socket is closed.                                          *)
(***************************************************************************)
EXTENDS Flexrpc

CONSTANTS BufSize,                  \* 80 in both programs
          NameBlock, TitleBlock,    \* bytes malloc'ed for strings: 36 and 16
          OATSPROGRAM, PRINTMESSAGEVER, PRINTMESSAGE,
          Calls,                    \* calls to make: [xid, name, title]
          Garbage,                  \* bytes that uninitialised memory may hold
          LastBytes,                \* those the last byte of a block may hold
          Faults                    \* TRUE: short reads and writes, failing calls, kills

(* What the constants must satisfy; whoever instantiates them assumes it.  *)
RpcAssumption ==
  /\ BufSize \in PtrSize .. WordMod - 1
  /\ NameBlock \in Nat \ {0} /\ TitleBlock \in Nat \ {0}
  /\ {OATSPROGRAM, PRINTMESSAGEVER, PRINTMESSAGE} \subseteq 1 .. WordMod - 1
  /\ Garbage \subseteq Byte /\ LastBytes \subseteq Byte
  /\ Faults \in BOOLEAN

VARIABLES client, server,
          listening,   \* the server's socket accepts connections
          connected,   \* the client has been connected (queued or accepted)
          c2s, s2c,    \* bytes written and not yet read
          call         \* history: the call the client makes, <<>> before

vars == <<client, server, listening, connected, c2s, s2c, call>>

Terminal == {"exit", "done", "crash"}

Block(n, g, z) == [i \in 1 .. n |-> IF i = n THEN z ELSE g]

(* struct rpc_msg on the stack, never cleared.                             *)
RawMsg(g) == [rm_xid |-> g, rm_direction |-> g, ru |-> [k \in 1 .. 4 |-> g]]

Process(g, z, op) ==
  [pc |-> "start", reg |-> EmptyRegistry,
   xdrs |-> flexxdrmem_create([i \in 0 .. BufSize - 1 |-> g], BufSize, op),
   msg |-> RawMsg(g), rcvd |-> -1, put |-> 0, wrote |-> 0, ok |-> TRUE,
   args |-> [name |-> Block(NameBlock, g, z), title |-> Block(TitleBlock, g, z), result |-> g]]

Init == /\ \E g \in Garbage, z \in LastBytes : client = Process(g, z, FLEXXDR_ENCODE)
        /\ \E g \in Garbage, z \in LastBytes : server = Process(g, z, FLEXXDR_DECODE)
        /\ listening = FALSE /\ connected = FALSE
        /\ c2s = << >> /\ s2c = << >> /\ call = << >>

-----------------------------------------------------------------------------
(* External: what read() on a TCP socket may return.  It blocks until      *)
(* there are bytes or the peer has closed; a peer that closed with bytes   *)
(* unread resets the connection, and what it had written may be lost.      *)
ReadLengths(pending, closed, reset) ==
  LET most == IF Len(pending) < BufSize THEN Len(pending) ELSE BufSize
  IN  IF Faults
      THEN 1 .. most \cup (IF closed /\ (most = 0 \/ reset) THEN {0} ELSE {})
      ELSE {n \in {most} : n > 0 \/ closed}

Received(p, pending, n, pc) ==
  [p EXCEPT !.xdrs.buf = StoreAt(p.xdrs, SubSeq(pending, 1, n)).buf,
            !.rcvd = n, !.pc = pc]

(* External: what write() takes of n bytes: all of them, a part (the half  *)
(* stands for any; ReadLengths cuts everywhere), or nothing, as a failure. *)
WriteLengths(n) == IF Faults THEN {0, n \div 2, n} ELSE {n}
Written(p, n) == [k \in 1 .. n |-> p.xdrs.buf[k - 1]]

Service == Entry(OATSPROGRAM, PRINTMESSAGEVER, PRINTMESSAGE,
                 printmessage_call, printmessage_reply)

(* The process after a (de)serialisation, whose result it ignores.         *)
After(p, f, pc) ==
  [p EXCEPT !.xdrs = f.s, !.ok = f.ret, !.pc = IF f.wild THEN "crash" ELSE pc]
(* After a decoding the strings are printed, up to their zero byte.        *)
Unterminated(b) == \A i \in 1 .. Len(b) : b[i] # 0
AfterDecode(p, f, printed, pc) ==
  [After(p, f, pc) EXCEPT !.msg = f.msg, !.args = f.args,
     !.pc = IF \E b \in printed : Unterminated(b) THEN "crash" ELSE @]

-----------------------------------------------------------------------------
(* The client, cf_client.c.                                                *)

ClientStart ==
  /\ client.pc = "start"
  /\ client' = [client EXCEPT !.pc = "connect", !.reg = cornflake_register(@, Service)]
  /\ UNCHANGED <<server, listening, connected, c2s, s2c, call>>

(* socket and connect; a client that finds no listener exits.              *)
ClientConnect ==
  /\ client.pc = "connect"
  /\ \/ /\ listening /\ server.pc \notin Terminal
        /\ client' = [client EXCEPT !.pc = "prepare"]
        /\ connected' = TRUE
     \/ /\ ~listening \/ server.pc \in Terminal \/ Faults
        /\ client' = [client EXCEPT !.pc = "exit"]
        /\ UNCHANGED connected
  /\ UNCHANGED <<server, listening, c2s, s2c, call>>

CallMsg(c) == [rm_xid |-> ulong(c.xid), rm_direction |-> CALL,
               ru |-> <<FLEXRPC_MSG_VERSION, OATSPROGRAM, PRINTMESSAGEVER, PRINTMESSAGE>>]

prepare_call_swapped(p, c) ==
  cornflake_serialize(p.reg,
    Frame(p.xdrs, CallMsg(c), [p.args EXCEPT !.name = c.title, !.title = c.name]), "call")
prepare_call(p, c) ==
  cornflake_serialize(p.reg,
    Frame(p.xdrs, CallMsg(c), [p.args EXCEPT !.name = c.name, !.title = c.title]), "call")

ClientPrepare ==
  /\ client.pc = "prepare"
  /\ \E c \in Calls : /\ client' = After(client, prepare_call(client, c), "write")
                      /\ call' = c
  /\ UNCHANGED <<server, listening, connected, c2s, s2c>>

(* write, whose result is ignored, then the flip to decoding.              *)
ClientWrite ==
  /\ client.pc = "write"
  /\ \E n \in WriteLengths(client.xdrs.f_private) :
       /\ c2s' = c2s \o Written(client, n)
       /\ client' = [client EXCEPT !.pc = "read", !.put = client.xdrs.f_private, !.wrote = n,
                                   !.xdrs = Flipped(@, BufSize, FLEXXDR_DECODE)]
  /\ UNCHANGED <<server, listening, connected, s2c, call>>

ClientRead ==
  /\ client.pc = "read"
  /\ \E n \in ReadLengths(s2c, server.pc \in Terminal, c2s # << >>) :
       /\ client' = Received(client, s2c, n, "decode")
       /\ s2c' = SubSeq(s2c, n + 1, Len(s2c))
  /\ UNCHANGED <<server, listening, connected, c2s, call>>

(* cf.args is the address of a parameter, not of the argument structure.   *)
read_reply(p) ==
  LET schema == cornflake_get_schema(p.reg, OATSPROGRAM, PRINTMESSAGEVER, PRINTMESSAGE, REPLY)
      rply   == [p.msg EXCEPT !.ru[3] = reply_args, !.ru[4] = schema]
  IN  cornflake_deserialize(p.reg, Frame(p.xdrs, rply, p.args), "other")

ClientDecode ==
  /\ client.pc = "decode"
  /\ \E f \in {read_reply(client)} : client' = AfterDecode(client, f, {f.args.name}, "done")
  /\ UNCHANGED <<server, listening, connected, c2s, s2c, call>>

-----------------------------------------------------------------------------
(* The server, cf_server.c.                                                *)

ServerStart ==
  /\ server.pc = "start"
  /\ server' = [server EXCEPT !.pc = "listen", !.reg = cornflake_register(@, Service)]
  /\ UNCHANGED <<client, listening, connected, c2s, s2c, call>>

(* socket, bind and listen; the first that fails ends the program.         *)
ServerListen ==
  /\ server.pc = "listen"
  /\ \/ server' = [server EXCEPT !.pc = "accept"] /\ listening' = TRUE
     \/ Faults /\ server' = [server EXCEPT !.pc = "exit"] /\ UNCHANGED listening
  /\ UNCHANGED <<client, connected, c2s, s2c, call>>

ServerAccept ==
  /\ server.pc = "accept"
  /\ \/ connected /\ server' = [server EXCEPT !.pc = "read"]
     \/ Faults /\ server' = [server EXCEPT !.pc = "exit"]
  /\ UNCHANGED <<client, listening, connected, c2s, s2c, call>>

ServerRead ==
  /\ server.pc = "read"
  /\ \E n \in ReadLengths(c2s, client.pc \in Terminal, FALSE) :
       /\ server' = Received(server, c2s, n, "get_call")
       /\ c2s' = SubSeq(c2s, n + 1, Len(c2s))
  /\ UNCHANGED <<client, listening, connected, s2c, call>>

get_call(p) == cornflake_deserialize(p.reg, Frame(p.xdrs, p.msg, p.args), "call")

ServerGetCall ==
  /\ server.pc = "get_call"
  /\ \E f \in {get_call(server)} :
       server' = AfterDecode(server, f, {f.args.name, f.args.title}, "reply")
  /\ UNCHANGED <<client, listening, connected, c2s, s2c, call>>

(* The flip to encoding, and the reply built from what the call left.      *)
ReplyTo(p, xid) ==
  LET rply == [rm_xid |-> xid, rm_direction |-> REPLY,
               ru |-> <<MSG_ACCEPTED, SUCCESS, reply_args, Schema(p.reg, p.msg, REPLY)>>]
  IN  cornflake_serialize(p.reg, Frame(Flipped(p.xdrs, BufSize, FLEXXDR_ENCODE), rply,
                                       [p.args EXCEPT !.result = 1]), "reply")
reply_without_xid(p) == ReplyTo(p, 0)
set_reply(p) == ReplyTo(p, p.msg.rm_xid)

ServerReply ==
  /\ server.pc = "reply"
  /\ server' = After(server, set_reply(server), "write")
  /\ UNCHANGED <<client, listening, connected, c2s, s2c, call>>

ServerWrite ==
  /\ server.pc = "write"
  /\ \E n \in WriteLengths(server.xdrs.f_private) :
       /\ s2c' = s2c \o Written(server, n)
       /\ server' = [server EXCEPT !.pc = "done", !.put = server.xdrs.f_private, !.wrote = n]
  /\ UNCHANGED <<client, listening, connected, c2s, call>>

-----------------------------------------------------------------------------
(* External: a signal ends a process at any point; its sockets close.      *)
KillClient == /\ Faults /\ client.pc \notin Terminal
              /\ client' = [client EXCEPT !.pc = "exit"]
              /\ UNCHANGED <<server, listening, connected, c2s, s2c, call>>
KillServer == /\ Faults /\ server.pc \notin Terminal
              /\ server' = [server EXCEPT !.pc = "exit"]
              /\ UNCHANGED <<client, listening, connected, c2s, s2c, call>>

ClientNext == \/ ClientStart \/ ClientConnect \/ ClientPrepare
              \/ ClientWrite \/ ClientRead \/ ClientDecode
ServerNext == \/ ServerStart \/ ServerListen \/ ServerAccept \/ ServerRead
              \/ ServerGetCall \/ ServerReply \/ ServerWrite

Next == ClientNext \/ ServerNext \/ KillClient \/ KillServer

(* Each program runs on until a system call blocks it: weak fairness of    *)
(* ClientNext and of ServerNext.  The steps that only compute are enabled  *)
(* at their pc and nowhere else, so their fairness is that the program     *)
(* does not stay there.                                                    *)
Fairness ==
  /\ WF_vars(ClientStart \/ ClientConnect \/ ClientWrite \/ ClientRead)
  /\ WF_vars(ServerStart \/ ServerListen \/ ServerAccept \/ ServerRead \/ ServerWrite)
  /\ []<>(client.pc \notin {"prepare", "decode"})
  /\ []<>(server.pc \notin {"get_call", "reply"})

Spec == Init /\ [][Next]_vars /\ Fairness

-----------------------------------------------------------------------------
CString(b) == SubSeq(b, 1, strlen(b))
StartsWith(b, s) == Len(b) >= Len(s) /\ SubSeq(b, 1, Len(s)) = s

ProcessOK(p) ==
  /\ p.xdrs \in Stream(BufSize)
  /\ p.msg.rm_xid \in 0 .. LongMod - 1
  /\ p.msg.rm_direction \in - (WordMod \div 2) .. WordMod \div 2 - 1
  /\ \A k \in 1 .. 4 : p.msg.ru[k] \in 0 .. LongMod - 1
  /\ p.args.name \in Seq(Byte) /\ p.args.title \in Seq(Byte)
  /\ p.args.result \in 0 .. WordMod - 1
  /\ p.rcvd \in -1 .. BufSize /\ p.put \in 0 .. BufSize /\ p.wrote \in 0 .. p.put

(* Both streams stay inside their buffers, and every field of the          *)
(* messages and arguments a value of its C type.                           *)
TypeOK == ProcessOK(client) /\ ProcessOK(server)

(* Bytes in a whole call and in a whole reply on the wire.                 *)
Padded(n) == n + rndup(n)
StringSize(b) == 4 + Padded(strlen(b))
CallSize(c) == 24 + StringSize(c.name) + StringSize(c.title)

(* When both programs read whole messages the call succeeds from end to    *)
(* end: the client accepts a reply with its own xid, the result the server *)
(* set, and a name that starts with the name it sent (flexxdr_string does  *)
(* not terminate what it decodes, so bytes of the server's block may       *)
(* follow).                                                                *)
EchoedReply ==
  /\ client.pc \in {"done", "crash"} /\ ~Unterminated(client.args.name)
  /\ server.rcvd = client.put /\ client.rcvd = server.put /\ server.put > 0
  => /\ client.pc = "done" /\ client.ok
     /\ client.msg.rm_xid = call.xid
     /\ client.args.result = 1
     /\ StartsWith(client.args.name, CString(call.name))

(* Undefined behaviour is reached only by a program that did not read the  *)
(* whole message, or whose block holds no zero byte after the string that  *)
(* flexxdr_string does not terminate: every other message is safe to       *)
(* decode and to answer, for all contents of the uninitialised memory.     *)
CrashOnlyOnShortRead ==
  /\ server.pc = "crash" => \/ server.rcvd < client.put \/ client.put = 0
                            \/ Unterminated(server.args.name) \/ Unterminated(server.args.title)
  /\ client.pc = "crash" => \/ client.rcvd < server.put \/ server.put = 0
                            \/ Unterminated(client.args.name)

(* The client ignored that nothing of its call was written: both programs  *)
(* wait in read(), for ever.                                               *)
BothRead == client.pc = "read" /\ server.pc = "read" /\ client.wrote = 0

(* Otherwise a client comes to an end, whatever happens to the server: no  *)
(* other wait of one program on the other lasts for ever.                  *)
ClientTerminates == []<>(client.pc \in Terminal \/ BothRead)

(* So does a server that has accepted a connection.                        *)
ServerTerminates ==
  []<>(server.pc \notin {"read", "get_call", "reply", "write"} \/ BothRead)

-----------------------------------------------------------------------------
(* The comment at the end of cornflake_serialize (cornflake.c:115) wants a *)
(* packet that could not be serialised to be dropped: what the client puts *)
(* on the wire is a whole call.                                            *)
DropsPartialCall == client.wrote > 0 => client.wrote = CallSize(call)

(* The comment in cornflake_deserialize (cornflake.c:131): the branch for  *)
(* calls is the server's.  The client never decodes a call.                *)
OnlyServerDecodesCalls ==
  client.pc \in {"done", "crash"} => client.msg.rm_direction # CALL

-----------------------------------------------------------------------------
(* The exchange as its users see it.                                       *)
Plain(c) == [c EXCEPT !.name = CString(@), !.title = CString(@)]
Executed == server.pc \in {"reply", "write", "done"}
Exchange == INSTANCE RpcExchange WITH
  Calls    <- {Plain(c) : c \in Calls},
  issued   <- IF call = << >> THEN << >> ELSE Plain(call),
  executed <- IF Executed
              THEN << [xid |-> server.msg.rm_xid, name |-> CString(server.args.name),
                       title |-> CString(server.args.title)] >>
              ELSE << >>,
  outcome  <- CASE client.pc = "done"  -> << [xid |-> client.msg.rm_xid, ok |-> client.ok,
                                              name |-> CString(client.args.name),
                                              result |-> client.args.result] >>
                [] client.pc = "exit"  -> << "refused" >>
                [] client.pc = "crash" -> << "crash" >>
                [] OTHER               -> << >>

(* Without faults the two programs implement one remote call: executed at  *)
(* most once and on the arguments that were issued, answered to the client *)
(* that issued it, refused only when it was never issued, never a crash.   *)
ImplementsExchange == Exchange!Spec
=============================================================================
