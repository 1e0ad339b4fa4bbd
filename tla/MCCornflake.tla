----------------------------- MODULE MCCornflake ----------------------------
(***************************************************************************)
(* The cornflakes programs and the flexxdr library below them: the         *)
(* registry under any registrations (CornflakeRegistry), replies of every  *)
(* kind decoded one after the other (FlexrpcReplies), the example client   *)
(* and server from start to end, with and without faults (CornflakeRpc),   *)
(* and the primitives from an encoder to a decoder that is cut short       *)
(* (FlexxdrCodec). One behaviour moves one of them. Bytes have four        *)
(* values, so a word has 256.                                              *)
(***************************************************************************)
EXTENDS CornflakeRegistry

(* Three programs, one of them registered under version zero, and one      *)
(* triple that can be registered with two different pairs of schemas.      *)
MCServices == { Entry(33, 1, 1, printmessage_call, printmessage_reply),
                Entry(33, 1, 1, printmessage_reply, printmessage_call),
                Entry(33, 0, 1, printmessage_call, printmessage_reply),
                Entry(34, 1, 2, printmessage_call, printmessage_reply) }

(* One reply of each kind: success, mismatch (with versions that are       *)
(* negative as signed words, and one that does not fit a word), an error   *)
(* status without a body, and the two rejections.                          *)
AReply(x, ru) == [xid |-> x, ru |-> ru, name |-> <<1, 0>>, result |-> 1]
MCReplies == { AReply(22, <<MSG_ACCEPTED, SUCCESS, reply_args, printmessage_reply>>),
               [AReply(200, <<MSG_ACCEPTED, SUCCESS, reply_args, printmessage_reply>>)
                  EXCEPT !.name = <<2, 1, 3, 0>>, !.result = 130],
               AReply(22, <<MSG_ACCEPTED, PROG_MISMATCH, 1, 200>>),
               AReply(22, <<MSG_ACCEPTED, PROG_MISMATCH, 2, WordMod>>),
               AReply(200, <<MSG_ACCEPTED, 1, 0, 0>>),
               AReply(22, <<MSG_DENIED, RPC_MISMATCH, 8, 8>>),
               AReply(22, <<MSG_DENIED, 1, 7, 7>>) }

(* Strings of up to four bytes; one xid is negative when read as signed.   *)
(* The buffer holds the longest call with four bytes to spare.             *)
MCCalls == { [xid |-> 22,  name |-> <<1, 2, 0>>,       title |-> <<3, 0>>],
             [xid |-> 200, name |-> <<2, 1, 3, 1, 0>>, title |-> <<1, 1, 0>>],
             [xid |-> 22,  name |-> <<0>>,             title |-> <<1, 2, 3, 0>>] }

(* 200 does not fit a long of 256 values, 256 no u_long, and 200 is        *)
(* negative when read as signed; the last string is longer than MaxSize.   *)
Item(type, val) == [type |-> type, v |-> val]
MCItems == { Item("int", -128), Item("enum", 1), Item("long", -1), Item("long", 200),
             Item("u_long", 200), Item("u_long", 256), Item("u_int", 200), Item("char", -1),
             Item("bytes", NULLPTR), Item("bytes", <<1>>), Item("bytes", <<1, 0, 1>>),
             Item("string", <<0>>), Item("string", <<1, 1, 0>>),
             Item("string", <<1, 1, 1, 1, 0>>) }

VARIABLES part,  \* the component that moves in this behaviour
  xdrs, msg, args, wire, reply, encoded, armed, last,  \* FlexrpcReplies
  client, server, listening, connected, c2s, s2c, call,  \* CornflakeRpc
  co_xdrs, sent, ends, got, delivered, stop  \* FlexxdrCodec

Answers == INSTANCE FlexrpcReplies WITH
  BufSize <- 32, NameBlock <- 4, Replies <- MCReplies
RepliesVars ==
  <<xdrs, msg, args, wire, reply, encoded, armed, last>>

Exact == INSTANCE CornflakeRpc WITH
  BufSize <- 44, NameBlock <- 8, TitleBlock <- 4, OATSPROGRAM <- 33,
  PRINTMESSAGEVER <- 1, PRINTMESSAGE <- 1, Calls <- MCCalls,
  Garbage <- {0, 3}, LastBytes <- {0}, Faults <- FALSE
Faulty == INSTANCE CornflakeRpc WITH
  BufSize <- 44, NameBlock <- 8, TitleBlock <- 4, OATSPROGRAM <- 33,
  PRINTMESSAGEVER <- 1, PRINTMESSAGE <- 1, Calls <- MCCalls,
  Garbage <- {3}, LastBytes <- {0, 3}, Faults <- TRUE
RpcVars ==
  <<client, server, listening, connected, c2s, s2c, call>>

Codec == INSTANCE FlexxdrCodec WITH
  xdrs <- co_xdrs, Size <- 14, Items <- MCItems, MaxItems <- 3,
  MaxSize <- 3, Fills <- {0, 1}
CodecVars ==
  <<co_xdrs, sent, ends, got, delivered, stop>>

allVars == <<part, vars, RepliesVars, RpcVars, CodecVars>>

MCInit ==
  /\ part \in {"registry", "replies", "exchange", "faults", "codec"}
  /\ Init
  /\ Answers!Init
  /\ IF part = "faults" THEN Faulty!Init ELSE Exact!Init
  /\ part \notin {"exchange", "faults"} => client.args.result = 0 /\ server.args.result = 0
  /\ Codec!Init
  /\ part /= "codec" => co_xdrs.buf[0] = 0

(* Each component takes its own steps; the others stay as they start.      *)
RegistryStep ==
  /\ part = "registry" /\ Next
  /\ UNCHANGED <<part, RepliesVars, RpcVars, CodecVars>>
RepliesStep ==
  /\ part = "replies" /\ Answers!Next
  /\ UNCHANGED <<part, vars, RpcVars, CodecVars>>
RpcStep ==
  /\ \/ part = "exchange" /\ Exact!Next
     \/ part = "faults" /\ Faulty!Next
  /\ UNCHANGED <<part, vars, RepliesVars, CodecVars>>
CodecStep ==
  /\ part = "codec" /\ Codec!Next
  /\ UNCHANGED <<part, vars, RepliesVars, RpcVars>>

MCNext == RegistryStep \/ RepliesStep \/ RpcStep \/ CodecStep

(* The fairness of each component, as its module states it.                *)
MCSpec ==
  /\ MCInit /\ [][MCNext]_allVars
  /\ WF_RpcVars(part = "faults" /\ (Faulty!ClientStart \/ Faulty!ClientConnect
                                  \/ Faulty!ClientWrite \/ Faulty!ClientRead))
  /\ WF_RpcVars(part = "faults" /\ (Faulty!ServerStart \/ Faulty!ServerListen \/ Faulty!ServerAccept
                                  \/ Faulty!ServerRead \/ Faulty!ServerWrite))
  /\ []<>(part = "faults" => client.pc \notin {"prepare", "decode"})
  /\ []<>(part = "faults" => server.pc \notin {"get_call", "reply"})

-----------------------------------------------------------------------------
ASSUME /\ Answers!RepliesAssumption /\ Exact!RpcAssumption /\ Faulty!RpcAssumption
       /\ Codec!CodecAssumption

(* A reply that was encoded whole is decoded as it was sent and with       *)
(* nothing of the replies before it; decoding follows a wild pointer only  *)
(* if where and proc were not set again after a mismatch (flexrpc_prot.c,  *)
(* read_reply of cf_client.c).                                             *)
RepliesDecoded == Answers!TypeOK /\ Answers!ReplyAsSent /\ Answers!WildOnlyIfUnarmed

(* With messages read whole a call succeeds from end to end, undefined     *)
(* behaviour is reached only after a read that came up short or in a block *)
(* that happens to hold no zero byte, and both programs come to an end     *)
(* whatever fails, but for a client whose write failed: then both wait in  *)
(* read() (cf_client.c, cf_server.c).                                      *)
CallsEndSafely ==
  /\ [](Faulty!TypeOK /\ Faulty!EchoedReply /\ Faulty!CrashOnlyOnShortRead)
  /\ []<>(part = "faults" => client.pc \in Faulty!Terminal \/ Faulty!BothRead)
  /\ []<>(part = "faults" => server.pc \notin {"read", "get_call", "reply", "write"} \/ Faulty!BothRead)

(* Without faults client and server implement one remote call of           *)
(* RpcExchange: executed at most once and on the arguments issued,         *)
(* answered to the client that issued it, never a crash.                   *)
ExchangeImplemented ==
  /\ Exact!Exchange!Init
  /\ [][part = "exchange" => Exact!Exchange!Next \/ UNCHANGED Exact!Exchange!vars]_RpcVars

(* Whatever the primitives report as decoded is what was encoded, a reader *)
(* that is cut short decodes exactly the items that came whole, both agree *)
(* where each item ends, and decoded values fit their C types (flexxdr.c). *)
CodecSound == Codec!TypeOK /\ Codec!DecodedAsSent /\ Codec!DecodesWhatArrived /\ Codec!InStep

-----------------------------------------------------------------------------
(* The example programs with a buffer too small for their longest call.    *)
Small == INSTANCE CornflakeRpc WITH
  BufSize <- 32, NameBlock <- 8, TitleBlock <- 4, OATSPROGRAM <- 33,
  PRINTMESSAGEVER <- 1, PRINTMESSAGE <- 1, Calls <- MCCalls, Garbage <- {0, 3},
  LastBytes <- {0}, Faults <- FALSE
SmallSpec ==
  /\ part = "exchange" /\ Init /\ Answers!Init /\ Small!Init /\ Codec!Init
  /\ [][Small!Next /\ UNCHANGED <<part, vars, RepliesVars, CodecVars>>]_allVars

(* The comment at the end of cornflake_serialize (cornflake.c:115) wants a *)
(* packet that could not be serialised to be dropped: what the client puts *)
(* on the wire is a whole call.                                            *)
DropsPartialCall == Small!DropsPartialCall
=============================================================================
