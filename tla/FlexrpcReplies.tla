--------------------------- MODULE FlexrpcReplies ---------------------------
(***************************************************************************)
(* Replies of every kind (src/flexrpc/flexrpc_prot.c) sent to a client     *)
(* that decodes them one after the other into the same struct rpc_msg, as  *)
(* read_reply of cf_client.c does with one.  ar_results.where and .proc    *)
(* share their memory with the version numbers of a mismatch, so a decode  *)
(* may destroy what the next one needs.                                    *)
(***************************************************************************)
EXTENDS Flexrpc

CONSTANTS BufSize,     \* bytes in each side's buffer
          Replies,     \* replies that servers send: [xid, ru, name, result]
          NameBlock    \* bytes the client allocates for the name

(* What the constants must satisfy; whoever instantiates them assumes it.  *)
RepliesAssumption ==
  BufSize \in PtrSize .. WordMod - 1 /\ NameBlock \in Nat \ {0}

VARIABLES xdrs, msg, args,   \* the client's stream, message and arguments
          wire,              \* bytes on their way to the client
          reply, encoded,    \* history: the reply sent, was it encoded whole
          armed,             \* history: where and proc are what the client set
          last               \* what became of the last decode

vars == <<xdrs, msg, args, wire, reply, encoded, armed, last>>

ReplyMsg(r) == [rm_xid |-> r.xid, rm_direction |-> REPLY, ru |-> r.ru]
Arm(m) == [m EXCEPT !.ru[3] = reply_args, !.ru[4] = printmessage_reply]

Buffer == [i \in 0 .. BufSize - 1 |-> 0]
Schemas == << Entry(1, 1, 1, printmessage_call, printmessage_reply) >>

Init == /\ xdrs = flexxdrmem_create(Buffer, BufSize, FLEXXDR_DECODE)
        /\ msg = Arm([rm_xid |-> 0, rm_direction |-> 0, ru |-> <<0, 0, 0, 0>>])
        /\ args = [name |-> [i \in 1 .. NameBlock |-> 0], result |-> 0]
        /\ wire = << >> /\ reply = << >> /\ encoded = FALSE /\ armed = TRUE /\ last = "none"

(* read_reply sets where and proc before it decodes.                       *)
Rearm == /\ wire = << >> /\ last # "wild"
         /\ msg' = Arm(msg) /\ armed' = TRUE /\ last' = "none"
         /\ UNCHANGED <<xdrs, args, wire, reply, encoded>>

(* The server writes what cornflake_serialize left in its buffer, whole or *)
(* not.                                                                    *)
Serialized(r) ==
  cornflake_serialize(Schemas,
    Frame(flexxdrmem_create(Buffer, BufSize, FLEXXDR_ENCODE), ReplyMsg(r),
          [name |-> r.name, result |-> r.result]), "reply")

Sent(f) == /\ wire' = [k \in 1 .. f.s.f_private |-> f.s.buf[k - 1]]
           /\ encoded' = f.ret

Send(r) == /\ wire = << >> /\ last # "wild"
           /\ Sent(Serialized(r))
           /\ reply' = r /\ last' = "none"
           /\ UNCHANGED <<xdrs, msg, args, armed>>

(* Versions were stored over where and proc.                               *)
Mismatch(m) == \/ int32(m.ru[1]) = MSG_ACCEPTED /\ int32(m.ru[2]) = PROG_MISMATCH
               \/ int32(m.ru[1]) = MSG_DENIED   /\ int32(m.ru[2]) = RPC_MISMATCH

Decoded(f) ==
  /\ xdrs' = f.s /\ msg' = f.msg /\ args' = f.args
  /\ last' = IF f.wild THEN "wild" ELSE IF f.ret THEN "ok" ELSE "failed"
  /\ armed' = (armed /\ ~Mismatch(f.msg))

Receive ==
  /\ wire # << >> /\ wire' = << >>
  /\ Decoded(cornflake_deserialize(Schemas,
       Frame(StoreAt(Flipped(xdrs, BufSize, FLEXXDR_DECODE), wire), msg, args), "other"))
  /\ UNCHANGED <<reply, encoded>>

Next == Rearm \/ (\E r \in Replies : Send(r)) \/ Receive

Spec == Init /\ [][Next]_vars

-----------------------------------------------------------------------------
(* Decoding replies keeps the stream inside its buffer, and every field    *)
(* a value of its C type.                                                  *)
TypeOK == /\ xdrs \in Stream(BufSize)
          /\ msg.rm_xid \in 0 .. LongMod - 1
          /\ \A k \in 1 .. 4 : msg.ru[k] \in 0 .. LongMod - 1
          /\ args.name \in Seq(Byte) /\ args.result \in 0 .. WordMod - 1
          /\ last \in {"none", "ok", "failed", "wild"}

(* The slots of the union that a reply of this kind carries.               *)
Carried(r) ==
  {1, 2} \cup (IF Mismatch(ReplyMsg(r)) THEN {3, 4} ELSE {})

(* A reply that was encoded whole is decoded as it was sent: its xid, its  *)
(* status, the versions of a mismatch or the results of a success, and     *)
(* nothing of the replies decoded before it.                               *)
ReplyAsSent ==
  encoded /\ last \in {"ok", "failed"} =>
    /\ last = "ok"
    /\ msg.rm_xid = reply.xid
    /\ \A k \in Carried(reply) : msg.ru[k] = reply.ru[k]
    /\ reply.ru[1] = MSG_ACCEPTED /\ reply.ru[2] = SUCCESS =>
         /\ args.result = reply.result
         /\ SubSeq(args.name, 1, strlen(reply.name)) = SubSeq(reply.name, 1, strlen(reply.name))

(* Decoding runs through a wild pointer only if where and proc were not    *)
(* set again after a reply that stored versions over them.                 *)
WildOnlyIfUnarmed == last = "wild" => ~armed
=============================================================================
