------------------------------ MODULE Flexrpc ------------------------------
(***************************************************************************)
(* RPC messages on a FLEXXDR stream (src/flexrpc/flexrpc_prot.c and        *)
(* flexrpc_cmsg.c), the argument schemas of the example service            *)
(* (src/cornflakes/examples/templates/oats.c), and the registry and the    *)
(* serialisation of messages of src/cornflakes/cornflake.c, as operators.  *)
(*                                                                         *)
(* Every routine works on a frame: the stream s, the message msg, the      *)
(* argument structure args, the value returned ret, and wild, set when the *)
(* C code does something undefined: a call through a NULL or overwritten   *)
(* function pointer, a schema run on the wrong structure, a string stored  *)
(* past the end of its block.                                              *)
(*                                                                         *)
(* msg.ru is the union of struct rpc_msg as its four 8-byte slots.  On a   *)
(* 64-bit build they are cb_rpcvers / rp_stat, cb_prog / ar_stat or        *)
(* rj_stat, cb_vers / where or low, cb_proc / proc or high; an enum takes  *)
(* the low half of its slot.                                               *)
(***************************************************************************)
EXTENDS Flexxdr

LOCAL INSTANCE SequencesExt

CONSTANTS FLEXRPC_MSG_VERSION,   \* 8 in the program
          MAX_STRING_SIZE        \* 255 in the program

ASSUME FlexrpcAssumption ==
  FLEXRPC_MSG_VERSION \in 1 .. WordMod - 1 /\ MAX_STRING_SIZE \in 0 .. WordMod - 2

CALL  == 0
REPLY == 1
MSG_ACCEPTED == 0
MSG_DENIED   == 1
SUCCESS       == 0
PROG_MISMATCH == 2
RPC_MISMATCH  == 0

(* Addresses do not fit in 32 bits, so no decoded word is ever one.        *)
NULL == 0
printmessage_call  == WordMod + 1
printmessage_reply == WordMod + 2
reply_args         == WordMod + 3   \* a struct printmessage_reply_args

Frame(s, msg, args) == [s |-> s, msg |-> msg, args |-> args, ret |-> TRUE, wild |-> FALSE]
Return(f, b) == [f EXCEPT !.ret = b]
Undefined(f) == [f EXCEPT !.ret = FALSE, !.wild = TRUE]

-----------------------------------------------------------------------------
(* One field of the message or of the arguments through its primitive.     *)

slot == [rpcvers |-> 1, prog |-> 2, vers |-> 3, proc |-> 4, low |-> 3, high |-> 4,
         rp_stat |-> 1, ar_stat |-> 2, rj_stat |-> 2]

StoreInt(x, i) == (x - (x % WordMod)) + uint32(i)

Called(f, r) == [f EXCEPT !.ret = r.ok, !.s = r.s]

XdrField(f, x) ==
  LET Xid(r)       == [Called(f, r) EXCEPT !.msg.rm_xid = r.v]
      Direction(r) == [Called(f, r) EXCEPT !.msg.rm_direction = r.v]
      Number(r)    == [Called(f, r) EXCEPT !.msg.ru[slot[x]] = r.v]
      Status(r)    == [Called(f, r) EXCEPT !.msg.ru[slot[x]] = StoreInt(@, r.v)]
      String(r)    == [Called(f, r) EXCEPT !.args[x] = r.v,
                                           !.wild = @ \/ Len(r.v) > Len(f.args[x])]
      Unsigned(r)  == [Called(f, r) EXCEPT !.args[x] = r.v]
  IN  CASE x = "xid"       -> Xid(flexxdr_u_long(f.s, f.msg.rm_xid))
        [] x = "direction" -> Direction(flexxdr_enum(f.s, f.msg.rm_direction))
        [] x \in {"rpcvers", "prog", "vers", "proc", "low", "high"} ->
             Number(flexxdr_u_long(f.s, f.msg.ru[slot[x]]))
        [] x \in {"rp_stat", "ar_stat", "rj_stat"} ->
             Status(flexxdr_enum(f.s, int32(f.msg.ru[slot[x]])))
        [] x = "is CALL"    -> Return(f, f.msg.rm_direction = CALL)
        [] x = "is version" -> Return(f, f.msg.ru[1] = FLEXRPC_MSG_VERSION)
        [] x \in {"name", "title"} ->
             String(flexxdr_string(f.s, f.args[x], MAX_STRING_SIZE, 0))
        [] x = "result" -> Unsigned(flexxdr_u_int(f.s, f.args[x]))

(* Fields joined by && in the code: the first failure ends the chain.      *)
XdrFields(f, fields) ==
  FoldLeft(LAMBDA g, x : IF g.ret THEN XdrField(g, x) ELSE g, Return(f, TRUE), fields)

-----------------------------------------------------------------------------
(* An indirect call of a schema on a structure of type kind.               *)
invoke(f, proc, kind) ==
  CASE proc = printmessage_call  /\ kind = "call"  -> XdrFields(f, <<"name", "title">>)
    [] proc = printmessage_reply /\ kind = "reply" -> XdrFields(f, <<"name", "result">>)
    [] OTHER -> Undefined(f)

accepted_forgets_high(f) ==
  LET Body(g) == IF g.ret /\ int32(g.msg.ru[2]) = PROG_MISMATCH THEN XdrField(g, "low")
                 ELSE IF g.ret /\ int32(g.msg.ru[2]) = SUCCESS
                 THEN invoke(g, g.msg.ru[4], "reply") ELSE g
  IN  Body(XdrField(f, "ar_stat"))
flexxdr_accepted_reply(f) ==
  LET Arm(g, ar_stat) ==
        CASE ar_stat = SUCCESS ->
               invoke(g, g.msg.ru[4], IF g.msg.ru[3] = reply_args THEN "reply" ELSE "other")
          [] ar_stat = PROG_MISMATCH -> XdrFields(g, <<"low", "high">>)
          [] OTHER -> g
      Body(g) == IF g.ret THEN Arm(g, int32(g.msg.ru[2])) ELSE g
  IN  Body(XdrField(f, "ar_stat"))

flexxdr_rejected_reply(f) ==
  LET Body(g) == IF g.ret /\ int32(g.msg.ru[2]) = RPC_MISMATCH
                 THEN XdrFields(g, <<"low", "high">>) ELSE Return(g, FALSE)
  IN  Body(XdrField(f, "rj_stat"))

reply_dscrm(g, stat) ==
  IF stat = MSG_ACCEPTED THEN flexxdr_accepted_reply(g) ELSE flexxdr_rejected_reply(g)

(* The discriminant, then its arm; a discriminant that no arm has fails,   *)
(* since there is no default.  reply_dscrm holds the arms of the one union *)
(* that the code passes.                                                   *)
flexxdr_union(f, dscmp, values) ==
  LET Arm(g, dscm) ==
        IF g.ret /\ dscm \in values THEN reply_dscrm(g, dscm) ELSE Return(g, FALSE)
      Body(g) == Arm(g, int32(g.msg.ru[slot[dscmp]]))
  IN  Body(XdrField(f, dscmp))

flexxdr_replymsg(f) ==
  IF f.msg.rm_direction = REPLY
  THEN flexxdr_union(f, "rp_stat", {MSG_ACCEPTED, MSG_DENIED})
  ELSE Return(f, FALSE)

flexxdr_callhdr(f) ==
  LET g == [f EXCEPT !.msg.rm_direction = CALL, !.msg.ru[1] = FLEXRPC_MSG_VERSION]
  IN  IF f.s.f_op # FLEXXDR_ENCODE THEN Return(g, FALSE)
      ELSE XdrFields(g, <<"xid", "direction", "rpcvers", "prog", "vers">>)

-----------------------------------------------------------------------------
(* flexxdr_callmsg: xid and direction have been handled by the caller on   *)
(* the inline path; the path without a window handles them once more.      *)

WindowWord(s, k) == uint32(ntohl(LoadAt(Advance(s, 4 * (k - 1)), 4)))
Words(ws) == htonl(ws[1]) \o htonl(ws[2]) \o htonl(ws[3]) \o htonl(ws[4])

flexxdr_callmsg(f) ==
  LET Encode(win) ==
        IF f.msg.ru[1] # FLEXRPC_MSG_VERSION
        THEN [f EXCEPT !.ret = FALSE,
                       !.s = [win.s EXCEPT !.buf = StoreAt(f.s, htonl(f.msg.ru[1])).buf]]
        ELSE [f EXCEPT !.ret = TRUE,
                       !.s = [win.s EXCEPT !.buf = StoreAt(f.s, Words(f.msg.ru)).buf]]
      Decode(win) ==
        IF WindowWord(f.s, 1) # FLEXRPC_MSG_VERSION
        THEN [f EXCEPT !.ret = FALSE, !.s = win.s, !.msg.ru[1] = WindowWord(f.s, 1)]
        ELSE [f EXCEPT !.ret = TRUE, !.s = win.s,
                       !.msg.ru = [k \in 1 .. 4 |-> WindowWord(f.s, k)]]
      Body(win) ==
        CASE win.ok /\ f.s.f_op = FLEXXDR_ENCODE -> Encode(win)
          [] win.ok /\ f.s.f_op = FLEXXDR_DECODE -> Decode(win)
          [] OTHER -> XdrFields(f, <<"xid", "direction", "is CALL", "rpcvers", "is version",
                                     "prog", "vers", "proc">>)
  IN  Body(flexxdrmem_inline(f.s, 4 * BYTES_PER_FLEXXDR_UNIT))

-----------------------------------------------------------------------------
(* cornflake: the service registry and the (de)serialisation of whole RPC  *)
(* messages (src/cornflakes/cornflake.c).  The registry is the list of     *)
(* entries reachable from the static head rpc_registry; the head is all    *)
(* zeroes until the first registration.                                    *)
Entry(prog, vers, proc, call_schema, reply_schema) ==
  [prog |-> prog, vers |-> vers, proc |-> proc,
   cf_call_schema |-> call_schema, cf_reply_schema |-> reply_schema]

EmptyRegistry == << Entry(0, 0, 0, NULL, NULL) >>

register_overwrites(reg, e) == [reg EXCEPT ![1] = e]

(* The entries reachable after the call.  Past the first registration the  *)
(* new entry is allocated and filled in but linked to nothing.             *)
cornflake_register(reg, e) == IF reg[1].vers = 0 THEN [reg EXCEPT ![1] = e] ELSE reg

Matches(e, prog, vers, proc) == e.vers = vers /\ e.prog = prog /\ e.proc = proc

schema_of_calls(reg, prog, vers, proc, direction) ==
  IF Matches(reg[1], prog, vers, proc) THEN reg[1].cf_call_schema ELSE NULL
cornflake_get_schema(reg, prog, vers, proc, direction) ==
  LET hits == {i \in 1 .. Len(reg) : Matches(reg[i], prog, vers, proc)}
      e    == reg[CHOOSE i \in hits : \A j \in hits : i <= j]
  IN  CASE reg[1].vers = 0 \/ hits = {} -> NULL
        [] reg[1].vers # 0 /\ hits # {} /\ direction = CALL  -> e.cf_call_schema
        [] reg[1].vers # 0 /\ hits # {} /\ direction = REPLY -> e.cf_reply_schema
        [] OTHER -> NULL

Schema(reg, msg, direction) ==
  cornflake_get_schema(reg, msg.ru[2], msg.ru[3], msg.ru[4], direction)

cornflake_peek_header(f) == XdrFields(f, <<"xid", "direction">>)

(* cf_args is the type of the structure that cf->args really points to.    *)
cornflake_serialize(reg, f, cf_args) ==
  LET Args(hdr, proc) ==
        IF proc.ok THEN invoke([hdr EXCEPT !.s = proc.s], Schema(reg, hdr.msg, CALL), cf_args)
        ELSE [hdr EXCEPT !.s = proc.s]
      Rest(hdr) ==
        IF hdr.ret THEN Return(Args(hdr, flexxdrmem_putlong(hdr.s, hdr.msg.ru[4])), TRUE)
        ELSE hdr
  IN  CASE f.msg.rm_direction = CALL  -> Rest(flexxdr_callhdr(f))
        [] f.msg.rm_direction = REPLY -> flexxdr_replymsg(cornflake_peek_header(f))
        [] OTHER -> Return(f, FALSE)

cornflake_deserialize(reg, f, cf_args) ==
  LET Args(g)  == invoke(g, Schema(reg, g.msg, g.msg.rm_direction), cf_args)
      Reply(g) == IF g.ret /\ g.msg.rm_direction = REPLY THEN flexxdr_replymsg(g) ELSE g
      Body(peek) ==
        IF ~peek.ret THEN peek
        ELSE Reply(IF peek.msg.rm_direction = CALL THEN Args(flexxdr_callmsg(peek)) ELSE peek)
  IN  Body(cornflake_peek_header(f))
=============================================================================
