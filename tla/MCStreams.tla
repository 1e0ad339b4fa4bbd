------------------------------ MODULE MCStreams -----------------------------
(***************************************************************************)
(* Encoding and streams: any calls on a memory stream of flexxdr           *)
(* (FlexxdrMem); its record stream with a peer that sends in fragments     *)
(* (FlexxdrRec); values of every kind of libtirpc's types encoded, sent    *)
(* whole, cut or altered, decoded and released (XdrCodec); the two halves  *)
(* of a record stream with a connection that cuts the bytes anywhere       *)
(* (XdrRec); a service transport that puts calls together from a           *)
(* connection, blocking or not (SvcVc). One behaviour moves one of them.   *)
(* flexxdr's bytes have two values: a word has 16, longs are -8 .. 7, and  *)
(* the buffer is not a multiple of the unit.                               *)
(***************************************************************************)
EXTENDS FlexxdrMem

MCLongs  == {5, -1}
MCBlocks == {<<1>>, <<1, 0, 1>>}

(* Two records, the first of two fragments, the second of two units.       *)
TwoRecords == << << <<1, 2, 3, 4>>, <<5, 6, 7, 8>> >>, << <<9, 1, 2, 3, 4, 4, 5, 6>> >> >>

VARIABLES part,  \* the component that moves in this behaviour
  mem, out_finger, frag_header, frag_sent, in_finger, in_boundary, fbtbc,
  last_frag, fx_call, fx_ret, fx_wire, rec, frag, writes, lost,  \* FlexxdrRec
  i, room, st, how, size, xc_wire, ok, pos, live, bad, obj,  \* XdrCodec
  rs_out, rs_frag_header, rs_frag_sent, sender, mark, rs_wire, rs_in,
  rs_in_finger, rs_fbtbc, rs_last_frag, rs_call, reader, rmark, records, cur,
  off, rs_got,  \* XdrRec
  vc_wire, vc_sent, shut, have, hdr, vc_last_frag, reclen, received, vc_fbtbc,
  vc_in_finger, in_boundry, vc_size, buf, strm_stat, x_id, pc, handled,
  vc_out, t0, now, sock  \* SvcVc

Fragments == INSTANCE FlexxdrRec WITH
  ret <- fx_ret, call <- fx_call, wire <- fx_wire, Asked <- 100,
  Records <- TwoRecords, PutLens <- {80}, GetLens <- {4, 8},
  ReadSizes <- {4, 0, -1}, Junk <- {7}, MaxWrites <- 1, MaxFragment <- 8
FragmentVars ==
  <<mem, out_finger, frag_header, frag_sent, in_finger, in_boundary, fbtbc,
     last_frag, fx_call, fx_ret, fx_wire, rec, frag, writes, lost>>

MaxData == 20
MCWords == {0, 1, 2, 5, 64, 129, 255}
MCRooms == {0, 4, 8, 12, 31, 72, 100}
Types == INSTANCE XdrCodec WITH
  wire <- xc_wire, B <- 4, U <- 4, RPC_MAXDATASIZE <- MaxData, Samples <- <<>>,
  Rooms <- MCRooms, Words <- MCWords
(* Values of every kind of type.                                           *)
num(n) == Types!num(n)
string(max) == Types!string(max)
struct(of) == Types!struct(of)
Null == Types!Null
uint == num("u_int")
bytes(max) == [k |-> "bytes", max |-> max]
array(of, max, elsize) == [k |-> "array", of |-> of, max |-> max, elsize |-> elsize]
pointer(of) == [k |-> "pointer", of |-> of]
reference(of) == [k |-> "reference", of |-> of]
void == [k |-> "void"]
union(dfault) ==
  [k |-> "union", dfault |-> dfault,
   choices |-> <<[value |-> 0, proc |-> void], [value |-> -1, proc |-> num("short")],
                 [value |-> 2, proc |-> string(9)]>>]
Of(t, v) == [ty |-> t, val |-> v]
Counted(n, v) == [len |-> n, p |-> v]

Numbers ==
  Of(struct(<<num("int"), num("u_int"), num("long"), num("u_long"), num("int32"),
              num("u_int32"), num("short"), num("u_short"), num("int16"), num("u_int16"),
              num("int8"), num("u_int8"), num("char"), num("u_char"), num("bool"),
              num("enum"), [k |-> "hyper"], [k |-> "u_hyper"]>>),
     <<-128, 255, 255, 128, -1, 254, -8, 15, -1, 8, -2, 3, -1, 2, 1, -7, -32768, 65535>>)
MCSamples ==
  <<Numbers,
    Of([k |-> "opaque", cnt |-> 5], <<1, 0, 3, 2, 1>>),
    Of([k |-> "opaque", cnt |-> 4], <<1, 0, 3, 2>>),
    Of(bytes(6), Counted(0, Null)),
    Of(bytes(6), Counted(6, << <<0, 1, 2, 3, 0, 0>> >>)),
    Of(bytes(2), Counted(3, << <<0, 1, 2>> >>)),
    Of(string(255), << <<>> >>), Of(string(255), << <<3, 1, 2>> >>),
    Of(string(255), Null), Of(string(2), << <<1, 1, 1>> >>),
    Of(array(num("int"), 100, 4), Counted(0, Null)),
    Of(array(num("int"), 100, 4), Counted(2, << <<-5, 6>> >>)),
    Of(array(num("int"), 1, 4), Counted(2, << <<-5, 6>> >>)),
    Of(array(string(9), 3, 8), Counted(2, << << << <<1>> >>, << <<2, 3>> >> >> >>)),
    Of(array(union(Null), 3, 12),
       Counted(2, << << [d |-> 2, u |-> << << <<1, 2>> >> >>], [d |-> -1, u |-> <<-3>>] >> >>)),
    Of(struct(<<bytes(4), bytes(4)>>),
       <<Counted(1, << <<2>> >>), Counted(2, << <<0, 3>> >>)>>),
    Of(union(Null), [d |-> 0, u |-> <<0>>]),
    Of(union(<<num("int8")>>), [d |-> 5, u |-> <<-2>>]),
    Of(union(Null), [d |-> 5, u |-> <<0>>]),
    Of(reference(string(5)), << << <<1, 1>> >> >>),
    Of(pointer(union(Null)), <<[d |-> -1, u |-> <<4>>]>>), Of(pointer(uint), Null),
    Of(pointer(struct(<<uint, pointer(string(9)), pointer(uint)>>)),
       << <<7, << << <<1, 2>> >> >>, Null>> >>),
    Of([k |-> "netbuf"], [maxlen |-> 4, len |-> 3, p |-> << <<1, 0, 2>> >>]),
    Of([k |-> "netbuf"], [maxlen |-> MaxData + 1, len |-> 0, p |-> Null])>>
MCLists ==
  <<Of(Types!rpcblist_ptr, <<>>),
    Of(Types!rpcblist_ptr, << <<1, 2, << <<1>> >>, << <<2, 3>> >>, << <<>> >> >>,
                        <<4, 5, << <<>> >>, << <<1, 1, 1>> >>, << <<2>> >> >> >>),
    Of(Types!rpcb_entry_list_ptr,
       << << << <<1>> >>, << <<2>> >>, 3, << <<>> >>, << <<1, 2>> >> >> >>)>>
AllSamples == MCSamples \o MCLists

Filters == INSTANCE XdrCodec WITH
  wire <- xc_wire, B <- 4, U <- 4, RPC_MAXDATASIZE <- MaxData, Samples <- AllSamples,
  Rooms <- MCRooms, Words <- MCWords
FilterVars ==
  <<i, room, st, how, size, xc_wire, ok, pos, live, bad, obj>>

(* A long call, a short one, one longer than the limit.                    *)
OneFragmentCalls == << <<3>>, <<1>>, <<6>> >>

Rec == INSTANCE XdrRec WITH
  out <- rs_out, frag_header <- rs_frag_header, frag_sent <- rs_frag_sent, wire <- rs_wire, in <- rs_in, in_finger <- rs_in_finger,
  fbtbc <- rs_fbtbc, last_frag <- rs_last_frag, call <- rs_call, got <- rs_got, SendSize <- 6,
  RecvSize <- 4, PutLens <- {3}, GetLens <- {1}, MaxItems <- 5,
  KeepAfterFailure <- FALSE, DecodeSetpos <- FALSE
RecordVars ==
  <<rs_out, rs_frag_header, rs_frag_sent, sender, mark, rs_wire, rs_in,
     rs_in_finger, rs_fbtbc, rs_last_frag, rs_call, reader, rmark, records,
     cur, off, rs_got>>

Nonblocking == INSTANCE SvcVc WITH
  wire <- vc_wire, last_frag <- vc_last_frag, fbtbc <- vc_fbtbc,
  in_finger <- vc_in_finger, size <- vc_size, out <- vc_out, sent <- vc_sent,
  Calls <- OneFragmentCalls, Nonblock <- TRUE, RecvSize <- 4, MaxRec <- 4,
  SockBuf <- 4
Blocking == INSTANCE SvcVc WITH
  wire <- vc_wire, last_frag <- vc_last_frag, fbtbc <- vc_fbtbc,
  in_finger <- vc_in_finger, size <- vc_size, out <- vc_out, sent <- vc_sent,
  Calls <- OneFragmentCalls, Nonblock <- FALSE, RecvSize <- 4, MaxRec <- 4,
  SockBuf <- 4
ConnectionVars ==
  <<vc_wire, vc_sent, shut, have, hdr, vc_last_frag, reclen, received,
     vc_fbtbc, vc_in_finger, in_boundry, vc_size, buf, strm_stat, x_id, pc,
     handled, vc_out, t0, now, sock>>

allVars == <<part, vars, FragmentVars, FilterVars, RecordVars, ConnectionVars>>

MCInit ==
  /\ part \in {"memory", "fragments", "filters", "records", "nonblocking", "blocking"}
  /\ Init
  /\ part /= "memory" => xdrs.buf[0] = 0 /\ xdrs.f_op = FLEXXDR_ENCODE
  /\ Fragments!Init
  /\ Filters!Init
  /\ part /= "filters" => i = 1 /\ room = 0
  /\ Rec!Init
  /\ IF part = "blocking" THEN Blocking!Init ELSE Nonblocking!Init

(* Each component takes its own steps; the others stay as they start.      *)
MemoryStep ==
  /\ part = "memory" /\ Next
  /\ UNCHANGED <<part, FragmentVars, FilterVars, RecordVars, ConnectionVars>>
FragmentsStep ==
  /\ part = "fragments" /\ Fragments!Next
  /\ UNCHANGED <<part, vars, FilterVars, RecordVars, ConnectionVars>>
FiltersStep ==
  /\ part = "filters" /\ Filters!Next
  /\ UNCHANGED <<part, vars, FragmentVars, RecordVars, ConnectionVars>>
RecordStep ==
  /\ part = "records" /\ Rec!Next
  /\ UNCHANGED <<part, vars, FragmentVars, FilterVars, ConnectionVars>>
ConnectionStep ==
  /\ \/ part = "nonblocking" /\ Nonblocking!Next
     \/ part = "blocking" /\ Blocking!Next
  /\ UNCHANGED <<part, vars, FragmentVars, FilterVars, RecordVars>>

MCNext == MemoryStep \/ FragmentsStep \/ FiltersStep \/ RecordStep \/ ConnectionStep

(* The fairness of each component, as its module states it.                *)
MCSpec ==
  /\ MCInit /\ [][MCNext]_allVars
  /\ WF_FragmentVars(part = "fragments" /\ Fragments!Step)
  /\ WF_FragmentVars(part = "fragments" /\ Fragments!PeerSend)
  /\ WF_RecordVars(part = "records" /\ Rec!Proceed)
  /\ WF_RecordVars(part = "records" /\ Rec!fill_input_buf)
  /\ WF_ConnectionVars(part = "nonblocking" /\ Nonblocking!Server)
  /\ WF_ConnectionVars(part = "nonblocking" /\ Nonblocking!Clock)
  /\ WF_ConnectionVars(part = "blocking" /\ Blocking!Server)
  /\ WF_ConnectionVars(part = "blocking" /\ Blocking!Clock)

-----------------------------------------------------------------------------
ASSUME /\ Filters!CodecAssumption /\ Fragments!RecAssumption
       /\ Nonblocking!SvcVcAssumption /\ Blocking!SvcVcAssumption
       /\ Rec!XdrRecAssumption

(* The record stream stays in its allocation although its output boundary  *)
(* lies in the input buffer, its count of fragment bytes agrees with the   *)
(* stream the peer sends, what a get collects is payload of one record,    *)
(* and skiprecord ends unless it waits for records: until a get is longer  *)
(* than what the buffer holds, a read is short or empty, or a read fails   *)
(* in the middle of a skip (flexxdr_rec.c).                                *)
RecordStreamSound ==
  /\ [](Fragments!TypeOK /\ Fragments!OutInsideAllocation)
  /\ [](Fragments!InStepWithFragments /\ Fragments!GotPayload)
  /\ []<>(part = "fragments" => fx_call.op /= "skip" \/ Fragments!Closed \/ lost)

(* Filters agree: what arrives whole decodes to what was sent and ends     *)
(* where it ended, what is cut short is refused, xdr_sizeof is the room    *)
(* the encoder needs; whatever arrives, no block is lost, all are released *)
(* and none is written past its end (xdr.c, xdr_array.c, xdr_reference.c,  *)
(* xdr_sizeof.c and the filters of rpcbind's protocol).                    *)
XdrCodecSound ==
  /\ Filters!TypeOK /\ Filters!DecodedAsSent /\ Filters!NothingLost
  /\ Filters!AllReleased /\ Filters!InBounds
  /\ i <= Len(MCSamples) => Filters!ShortFails /\ Filters!SizeofExact

(* The two halves of xdr_rec.c implement RecordStream: what one side gets  *)
(* is what the other put, in order, record by record, wherever buffers and *)
(* reads cut the bytes; between calls fbtbc leads to the next header, and  *)
(* every call ends or waits for bytes.                                     *)
RecordStreamImplemented ==
  /\ Rec!ImplementsRecordStream
  /\ [](Rec!TypeOK /\ Rec!Aligned)
  /\ []<>(part = "records" => rs_call = Rec!Idle \/ (rs_wire = <<>> /\ Rec!Ready = 0))

(* A connection's calls are decoded whole and in order however its reads   *)
(* cut them; a call that came whole is handled or the connection is given  *)
(* up; the loop returns to poll for the others; a client that closes       *)
(* leaves no transport behind (svc_vc.c, __xdrrec_getrec,                  *)
(* svc_getreq_common).                                                     *)
ConnectionsServed ==
  /\ [](Nonblocking!RecordsWhole /\ (part = "nonblocking" => Nonblocking!TypeOK))
  /\ \A n \in 1 .. Len(OneFragmentCalls) :
       []<>(part = "nonblocking" =>
              \/ vc_sent < Len(Nonblocking!Messages[n]) \/ Len(handled) >= n
              \/ pc = "destroyed")
  /\ []<>(part = "nonblocking" => pc \in {"poll", "destroyed"})
  /\ []<>(part \in {"blocking", "nonblocking"} =>
            \/ ~shut \/ pc = "destroyed"
            \/ vc_out > 0 /\ part = "blocking")
=============================================================================
