------------------------------- MODULE XdrRec -------------------------------
(***************************************************************************)
(* The record-marking XDR stream of libtirpc (xdr_rec.c), blocking: the    *)
(* stream of one peer that encodes, the stream of the other that decodes,  *)
(* and the connection between them, which delivers bytes in order and in   *)
(* pieces of any size.                                                     *)
(*                                                                         *)
(* Sizes are scaled: a header (BYTES_PER_XDR_UNIT, four bytes) is HDR      *)
(* cells, and the buffers, at least 100 bytes after fix_buf_size, are      *)
(* SendSize and RecvSize cells.  A call that consumes input proceeds one   *)
(* copy or one read at a time.                                             *)
(***************************************************************************)
EXTENDS Integers, Sequences

CONSTANTS SendSize, RecvSize,  \* buffer sizes in cells
          PutLens, GetLens,    \* lengths passed to putbytes and getbytes
          MaxItems,            \* bound on the items put
          KeepAfterFailure,    \* does the reader go on after a failed read?
          DecodeSetpos         \* does the reader go back with xdrrec_setpos?

HDR == 2
(* What the constants must satisfy; whoever instantiates them assumes it.  *)
XdrRecAssumption ==
  /\ SendSize \in Nat /\ SendSize > HDR /\ RecvSize \in Nat /\ RecvSize > 0
  /\ SendSize % HDR = 0 /\ RecvSize % HDR = 0
  /\ \A n \in PutLens : n \in Nat /\ n < SendSize - HDR
  /\ MaxItems \in Nat /\ {KeepAfterFailure, DecodeSetpos} \subseteq BOOLEAN

(* Cells: an item, or a part of the header of a fragment of n cells.       *)
Item(i)       == <<"item", i>>
Header(n, last) == << <<"header", n, last>>, <<"rest">> >>
Blank         == << <<"blank">>, <<"rest">> >>
IsHeader(c)   == c[1] = "header"

VARIABLES
  out,          \* out_base up to out_finger
  frag_header,  \* offset of the header of the current fragment
  frag_sent, sender,  \* sender: "ok", or "failed" after a short write
  mark,         \* position taken with xdrrec_getpos, -1 if none since a flush
  wire,         \* cells written and not read
  in,           \* the input buffer's cells up to in_boundry
  in_finger, fbtbc, last_frag,
  call,         \* the input call in progress
  reader,       \* "ok", or "failed" after a failed read
  rmark,        \* position of the reader taken with xdrrec_getpos
  records, cur, off, got   \* history: what was put, what was read

sendVars == <<out, frag_header, frag_sent, sender, mark, records>>
readVars == <<in, in_finger, fbtbc, last_frag, call, reader, rmark, cur, off, got>>
vars     == <<sendVars, readVars, wire>>

Idle == [op |-> "none", len |-> 0, phase |-> "loop", cnt |-> 0, chunk |-> 0, hdr |-> <<>>]

(* xdrrec_create, for each side: the input buffer begins as if read to its *)
(* end.                                                                    *)
xdrrec_create ==
  /\ out = Blank /\ frag_header = 0 /\ frag_sent = FALSE
  /\ in = [k \in 1 .. RecvSize |-> <<"blank">>] /\ in_finger = RecvSize
  /\ fbtbc = 0 /\ last_frag = TRUE

Init ==
  /\ xdrrec_create
  /\ sender = "ok" /\ reader = "ok" /\ mark = -1 /\ rmark = -1
  /\ wire = <<>> /\ call = Idle
  /\ records = << <<>> >> /\ cur = 0 /\ off = 0 /\ got = <<>>

-----------------------------------------------------------------------------
(* Output.                                                                 *)

Least(a, b) == IF a < b THEN a ELSE b
Sum(s) == LET F[k \in 0 .. Len(s)] == IF k = 0 THEN 0 ELSE F[k - 1] + Len(s[k]) IN F[Len(s)]
Put(b) == records' = [records EXCEPT ![Len(records)] = @ \o b]
Fresh(n) == [k \in 1 .. n |-> Item(Sum(records) + k)]

SetHeader(o, at, h) == SubSeq(o, 1, at) \o h \o SubSeq(o, at + HDR + 1, Len(o))

(* The header of the current fragment is filled in and the whole buffer is *)
(* written; a short write leaves the cursors where they are.  tail is what *)
(* the caller stores after a successful flush.                             *)
flush_out(o, eor, tail) ==
  LET o1 == SetHeader(o, frag_header, Header(Len(o) - frag_header - HDR, eor))
  IN  \/ /\ wire' = wire \o o1
         /\ out' = Blank \o tail /\ frag_header' = 0 /\ sender' = "ok" /\ mark' = -1
      \/ /\ wire' = wire \o SubSeq(o1, 1, Len(o1) - 1)
         /\ out' = o1 /\ sender' = "failed" /\ mark' = -1
         /\ UNCHANGED frag_header

CanPut(n) == sender = "ok" /\ Sum(records) + n <= MaxItems

(* A long is never split: without room for it the fragment is sent first.  *)
xdrrec_putlong ==
  /\ CanPut(HDR)
  /\ IF Len(out) + HDR > SendSize
     THEN /\ frag_sent' = TRUE
          /\ flush_out(out, FALSE, Fresh(HDR))
          /\ IF sender' = "ok" THEN Put(Fresh(HDR)) ELSE UNCHANGED records
     ELSE /\ out' = out \o Fresh(HDR) /\ Put(Fresh(HDR))
          /\ UNCHANGED <<frag_header, frag_sent, sender, mark, wire>>
  /\ UNCHANGED readVars

(* xdrrec_putbytes copies up to the boundary and sends each time it is     *)
(* reached, at the end of the bytes too; n leaves room for at most one     *)
(* such flush.                                                             *)
xdrrec_putbytes(n) ==
  /\ CanPut(n)
  /\ LET k  == Least(n, SendSize - Len(out))
         o1 == out \o SubSeq(Fresh(n), 1, k)
     IN  IF Len(o1) = SendSize
         THEN /\ frag_sent' = TRUE
              /\ flush_out(o1, FALSE, SubSeq(Fresh(n), k + 1, n))
              /\ Put(IF sender' = "ok" THEN Fresh(n) ELSE SubSeq(Fresh(n), 1, k))
         ELSE /\ out' = o1 /\ Put(Fresh(n))
              /\ UNCHANGED <<frag_header, frag_sent, sender, mark, wire>>
  /\ UNCHANGED readVars

(* Room in the buffer handed to the caller, who fills it.                  *)
xdrrec_inline_encode(n) ==
  /\ CanPut(n) /\ Len(out) + n <= SendSize
  /\ out' = out \o Fresh(n) /\ Put(Fresh(n))
  /\ UNCHANGED <<frag_header, frag_sent, sender, mark, wire, readVars>>

(* xdrrec_getpos on an encoding stream, and xdrrec_setpos back to what it  *)
(* returned.  A position is not used across a flush.                       *)
xdrrec_getpos_encode ==
  /\ sender = "ok" /\ mark /= Len(out) - HDR
  /\ mark' = Len(out) - HDR
  /\ UNCHANGED <<out, frag_header, frag_sent, sender, records, readVars, wire>>

xdrrec_setpos_encode ==
  /\ sender = "ok" /\ mark >= 0
  /\ LET newpos == mark + HDR IN
       /\ newpos > frag_header /\ newpos < SendSize
       /\ newpos >= frag_header + HDR     \* a position inside this record
       /\ out' = SubSeq(out, 1, newpos)
       /\ Len(records[Len(records)]) >= Len(out) - newpos
       /\ records' = [records EXCEPT ![Len(records)] =
                        SubSeq(@, 1, Len(@) - (Len(out) - newpos))]
  /\ UNCHANGED <<frag_header, frag_sent, sender, mark, readVars, wire>>

(* The record stays in the buffer, its header filled in and the next one   *)
(* reserved, unless it must go out now.                                    *)
xdrrec_endofrecord(sendnow) ==
  /\ sender = "ok" /\ records[Len(records)] /= <<>>
  /\ IF sendnow \/ frag_sent \/ Len(out) + HDR >= SendSize
     THEN frag_sent' = FALSE /\ flush_out(out, TRUE, <<>>)
     ELSE /\ out' = SetHeader(out, frag_header, Header(Len(out) - frag_header - HDR, TRUE)) \o Blank
          /\ frag_header' = Len(out)
          /\ UNCHANGED <<frag_sent, sender, mark, wire>>
  /\ records' = Append(records, <<>>)
  /\ UNCHANGED readVars

-----------------------------------------------------------------------------
(* Input.                                                                  *)

Ready     == Len(in) - in_finger
readOnly  == <<sendVars, wire>>

Fail ==
  /\ call' = Idle
  /\ reader' = IF KeepAfterFailure THEN "ok" ELSE "failed"

(* One read into an empty buffer; alignment of in_boundry is kept by       *)
(* leaving in_boundry % BYTES_PER_XDR_UNIT cells unused.                   *)
fill_input_buf ==
  /\ call.phase /= "loop" /\ call.cnt > 0 /\ Ready = 0
  /\ LET i == Len(in) % HDR IN
       \/ \E k \in 1 .. Least(Len(wire), RecvSize - i) :
            /\ in' = [j \in 1 .. i |-> <<"blank">>] \o SubSeq(wire, 1, k)
            /\ in_finger' = i
            /\ wire' = SubSeq(wire, k + 1, Len(wire))
            /\ UNCHANGED <<call, reader>>
       \/ Fail /\ UNCHANGED <<in, in_finger, wire>>
  /\ rmark' = -1
  /\ UNCHANGED <<sendVars, fbtbc, last_frag, cur, off, got>>

(* The loops of xdrrec_getbytes and of xdrrec_skiprecord and xdrrec_eof:   *)
(* what to do next, and the chunk that get_input_bytes or skip_input_bytes *)
(* is asked for.                                                           *)
Enter(phase, n) ==
  call' = [call EXCEPT !.phase = phase, !.cnt = n, !.chunk = n, !.hdr = <<>>]

GetLoop ==
  /\ call.op = "get" /\ call.phase = "loop" /\ call.len > 0
  /\ CASE fbtbc = 0 /\ last_frag  -> call' = Idle
       [] fbtbc = 0 /\ ~last_frag -> Enter("header", HDR)
       [] fbtbc > 0               -> Enter("copy", Least(call.len, fbtbc))
  /\ UNCHANGED <<in, in_finger, fbtbc, last_frag, reader, rmark, cur, off, got, readOnly>>

SkipLoop ==
  /\ call.op \in {"skip", "eof"} /\ call.phase = "loop" /\ (fbtbc > 0 \/ ~last_frag)
  /\ IF fbtbc > 0 THEN Enter("copy", fbtbc) ELSE Enter("header", HDR)
  /\ UNCHANGED <<in, in_finger, fbtbc, last_frag, reader, rmark, cur, off, got, readOnly>>

(* One copy of get_input_bytes, or one step of skip_input_bytes.  fbtbc is *)
(* debited when the whole chunk is there, not before.                      *)
chunk_undebited ==
  /\ call.phase = "copy" /\ call.cnt > 0 /\ Ready > 0
  /\ LET n == Least(call.cnt, Ready) IN
       /\ in_finger' = in_finger + n
       /\ call' = IF n < call.cnt THEN [call EXCEPT !.cnt = @ - n]
                  ELSE [call EXCEPT !.phase = "loop", !.cnt = 0,
                          !.len = IF call.op = "get" THEN @ - call.chunk ELSE 0]
       /\ fbtbc' = fbtbc
       /\ IF call.op = "get"
          THEN got' = SubSeq(in, in_finger + 1, in_finger + n) /\ off' = off + n
          ELSE UNCHANGED <<got, off>>
  /\ UNCHANGED <<in, last_frag, reader, rmark, cur, readOnly>>
Copy ==
  /\ call.phase = "copy" /\ call.cnt > 0 /\ Ready > 0
  /\ LET n == Least(call.cnt, Ready) IN
       /\ in_finger' = in_finger + n
       /\ call' = IF n < call.cnt THEN [call EXCEPT !.cnt = @ - n]
                  ELSE [call EXCEPT !.phase = "loop", !.cnt = 0,
                          !.len = IF call.op = "get" THEN @ - call.chunk ELSE 0]
       /\ fbtbc' = IF n < call.cnt THEN fbtbc ELSE fbtbc - call.chunk
       /\ IF call.op = "get"
          THEN got' = SubSeq(in, in_finger + 1, in_finger + n) /\ off' = off + n
          ELSE UNCHANGED <<got, off>>
  /\ UNCHANGED <<in, last_frag, reader, rmark, cur, readOnly>>

(* set_input_fragment: a header, which may arrive in two reads.  What does *)
(* not start with a header is taken for one all the same.                  *)
set_input_fragment ==
  /\ call.phase = "header" /\ call.cnt > 0 /\ Ready > 0
  /\ LET n == Least(call.cnt, Ready)
         h == call.hdr \o SubSeq(in, in_finger + 1, in_finger + n)
     IN  /\ in_finger' = in_finger + n
         /\ IF n < call.cnt
            THEN /\ call' = [call EXCEPT !.cnt = @ - n, !.hdr = h]
                 /\ UNCHANGED <<fbtbc, last_frag>>
            ELSE /\ \/ /\ IsHeader(h[1])
                       /\ fbtbc' = h[1][2] /\ last_frag' = h[1][3]
                    \/ /\ ~IsHeader(h[1])
                       /\ fbtbc' \in 1 .. 2 /\ last_frag' \in BOOLEAN
                 /\ call' = [call EXCEPT !.phase = "loop", !.cnt = 0]
  /\ UNCHANGED <<in, reader, rmark, cur, off, got, readOnly>>

Start(op, n) ==
  /\ call = Idle /\ reader = "ok"
  /\ call' = [Idle EXCEPT !.op = op, !.len = n]
  /\ UNCHANGED <<in, in_finger, fbtbc, last_frag, reader, rmark, cur, off, got, readOnly>>

xdrrec_getlong     == Start("get", HDR)
xdrrec_getbytes(n) == Start("get", n)
xdrrec_skiprecord  == Start("skip", 0)
xdrrec_eof         == cur > 0 /\ Start("eof", 0)

GetDone ==
  /\ call.op = "get" /\ call.phase = "loop" /\ call.len = 0
  /\ call' = Idle
  /\ UNCHANGED <<in, in_finger, fbtbc, last_frag, reader, rmark, cur, off, got, readOnly>>

SkipDone ==
  /\ call.op = "skip" /\ call.phase = "loop" /\ fbtbc = 0 /\ last_frag
  /\ last_frag' = FALSE /\ call' = Idle
  /\ cur' = cur + 1 /\ off' = 0
  /\ UNCHANGED <<in, in_finger, fbtbc, reader, rmark, got, readOnly>>

(* xdrrec_eof stays in the record whose rest it has consumed.              *)
EofDone ==
  /\ call.op = "eof" /\ call.phase = "loop" /\ fbtbc = 0 /\ last_frag
  /\ call' = Idle /\ off' = Len(records[cur])
  /\ UNCHANGED <<in, in_finger, fbtbc, last_frag, reader, rmark, cur, got, readOnly>>

(* The decoding side of xdrrec_inline: bytes that are all in the buffer.   *)
xdrrec_inline_decode(n) ==
  /\ call = Idle /\ reader = "ok" /\ n <= fbtbc /\ n <= Ready
  /\ fbtbc' = fbtbc - n /\ in_finger' = in_finger + n
  /\ got' = SubSeq(in, in_finger + 1, in_finger + n) /\ off' = off + n
  /\ UNCHANGED <<in, last_frag, call, reader, rmark, cur, readOnly>>

(* On a decoding stream xdrrec_getpos counts what is left in the buffer,   *)
(* and xdrrec_setpos moves in_finger by the difference the wrong way.      *)
xdrrec_getpos_decode ==
  /\ call = Idle /\ reader = "ok" /\ Ready > 0
  /\ rmark' = Ready
  /\ UNCHANGED <<in, in_finger, fbtbc, last_frag, call, reader, cur, off, got, readOnly>>

xdrrec_setpos_decode ==
  /\ call = Idle /\ reader = "ok" /\ rmark >= 0
  /\ DecodeSetpos \/ rmark = Ready
  /\ LET delta == Ready - rmark IN
       /\ delta < fbtbc /\ in_finger - delta \in 0 .. Len(in)
       /\ in_finger' = in_finger - delta /\ fbtbc' = fbtbc - delta
       /\ off' = off + delta
  /\ UNCHANGED <<in, last_frag, call, reader, rmark, cur, got, readOnly>>

-----------------------------------------------------------------------------
Send == \/ xdrrec_putlong \/ xdrrec_getpos_encode \/ xdrrec_setpos_encode
        \/ \E n \in PutLens : xdrrec_putbytes(n) \/ xdrrec_inline_encode(n)
        \/ \E now \in BOOLEAN : xdrrec_endofrecord(now)
Call == \/ xdrrec_getlong \/ xdrrec_skiprecord \/ xdrrec_eof
        \/ \E n \in GetLens : xdrrec_getbytes(n) \/ xdrrec_inline_decode(n)
        \/ xdrrec_getpos_decode \/ xdrrec_setpos_decode
Proceed == GetLoop \/ SkipLoop \/ Copy \/ set_input_fragment
             \/ GetDone \/ SkipDone \/ EofDone
Next == Send \/ Call \/ Proceed \/ fill_input_buf

Spec == Init /\ [][Next]_vars
(* A call in progress is not suspended, and a read returns when there is   *)
(* something to read.                                                      *)
FairSpec == Spec /\ WF_vars(Proceed) /\ WF_vars(fill_input_buf)

-----------------------------------------------------------------------------
(* Types, and the cursors inside their buffers: out_finger never passes    *)
(* out_boundry, in_finger never in_boundry, and a read fits the buffer.    *)
TypeOK ==
  /\ Len(out) \in HDR .. SendSize /\ frag_header \in 0 .. Len(out) - HDR
  /\ Len(in) \in 0 .. RecvSize /\ in_finger \in 0 .. Len(in)
  /\ fbtbc \in Nat /\ frag_sent \in BOOLEAN /\ last_frag \in BOOLEAN
  /\ sender \in {"ok", "failed"} /\ reader \in {"ok", "failed"}
  /\ call.op \in {"none", "get", "skip", "eof"}
  /\ call.phase \in {"loop", "copy", "header"}

(* fbtbc, the "fragment bytes to be consumed" of xdr_rec.c:121, leads from *)
(* the next unread cell to the next header: between two calls the fbtbc    *)
(* cells that follow are items and the one after them begins a header.     *)
(* The comment of xdrrec_skiprecord promises the same: it is called "to    *)
(* guarantee proper record alignment" (xdr_rec.c:440).                     *)
Unread == SubSeq(in, in_finger + 1, Len(in)) \o wire
Aligned ==
  call = Idle /\ reader = "ok" =>
    /\ \A k \in 1 .. Least(fbtbc, Len(Unread)) : Unread[k][1] = "item"
    /\ fbtbc < Len(Unread) => IsHeader(Unread[fbtbc + 1])

(* A skiprecord, getbytes or eof in progress ends, or waits for cells the  *)
(* other side has not written.                                             *)
CallEnds == []<>(call = Idle \/ (wire = <<>> /\ Ready = 0))

(* What the decoding side gets is what the encoding side put, in order,    *)
(* record by record, whatever the buffer sizes and however the connection  *)
(* cuts the bytes.                                                         *)
Promise == INSTANCE RecordStream WITH Items <- {Item(i) : i \in 1 .. MaxItems}
ImplementsRecordStream == Promise!Spec
=============================================================================
