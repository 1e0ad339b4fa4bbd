----------------------------- MODULE FlexxdrRec -----------------------------
(***************************************************************************)
(* The FLEXXDR record stream (src/flexrpc/flexxdr_rec.c): one RECSTREAM,   *)
(* its two buffers in one allocation, and the peer behind readit and       *)
(* writeit.  Addresses are offsets from out_base; bytes are 0 .. 255, so   *)
(* that a fragment header is the number the code computes.                 *)
(*                                                                         *)
(* A call that loops over input (getlong, getbytes, skiprecord) runs one   *)
(* iteration per step, so that what readit delivers may change meanwhile;  *)
(* every other call is one step.  `call` is the call in progress, `ret`    *)
(* the value the last finished call returned.                              *)
(***************************************************************************)
EXTENDS Integers, Sequences

CONSTANTS Asked,      \* the sendsize and recvsize passed to flexxdrrec_create
          Records,    \* what the peer sends: a sequence of records, each a
                      \* sequence of fragments, each a sequence of bytes
          PutLens,    \* lengths the application passes to putbytes
          GetLens,    \* lengths the application passes to getbytes
          ReadSizes,  \* what one call of readit may return (-1: failure)
          Junk,       \* values an uninitialised byte may have
          MaxWrites,  \* bound on the number of calls of writeit
          MaxFragment \* bound on the length of a fragment that is followed

Byte == 0 .. 255
Unit == 4                                       \* BYTES_PER_FLEXXDR_UNIT

(* RNDUP and fix_buf_size: what is left of the size asked for.             *)
RNDUP(x) == ((x - Unit - 1) \div Unit) * Unit
fix_buf_size(s) == RNDUP(IF s < 100 THEN 4000 ELSE s)

BufSize     == fix_buf_size(Asked)              \* sendsize and recvsize
Allocated   == 2 * BufSize + Unit
InBase      == BufSize
OutStart    == 16
OutBoundary == OutStart + BufSize

(* What the constants must satisfy; whoever instantiates them assumes it.  *)
RecAssumption ==
  Asked \in Nat /\ MaxWrites \in Nat /\ MaxFragment \in Nat /\ Junk \subseteq Byte

(* A fragment on the wire: header, then its bytes.                         *)
Header(n, last) == << (IF last THEN 128 ELSE 0), 0, 0, n >>
Fragment(rec, k) == Header(Len(rec[k]), k = Len(rec)) \o rec[k]

VARIABLES mem,          \* the allocation
          out_finger, frag_header, frag_sent,
          in_finger, in_boundary, fbtbc, last_frag,
          call,         \* [op, len, buf, want]: the input call in progress
          ret,          \* what the last finished call returned
          wire,         \* bytes the peer has sent and readit has not delivered
          rec, frag,    \* next record and fragment the peer sends
          writes,       \* what writeit was given, call by call
          lost          \* history: bytes were counted that nobody copied, or
                        \* taken for input that readit did not deliver

outVars == <<out_finger, frag_header, frag_sent, writes>>
inVars  == <<in_finger, in_boundary, fbtbc, last_frag, call, lost>>
peer    == <<wire, rec, frag>>
vars    == <<mem, outVars, inVars, peer, ret>>

Idle == [op |-> "none", len |-> 0, buf |-> <<>>]

(* flexxdrrec_create                                                       *)
Init ==
  /\ \E j \in Junk : mem = [a \in 0 .. Allocated - 1 |-> j]
  /\ out_finger = OutStart /\ frag_header = 0 /\ frag_sent = FALSE
  /\ in_finger = InBase + BufSize /\ in_boundary = InBase + BufSize
  /\ fbtbc = 0 /\ last_frag = TRUE
  /\ call = Idle /\ ret = "none"
  /\ wire = <<>> /\ rec = 1 /\ frag = 1
  /\ writes = <<>> /\ lost = FALSE

Store(m, at, b) == [a \in DOMAIN m |-> IF a \in at .. at + Len(b) - 1
                                       THEN b[a - at + 1] ELSE m[a]]
Load(m, at, n)  == [k \in 1 .. n |-> m[at + k - 1]]

-----------------------------------------------------------------------------
(* Output.                                                                 *)

(* The header bytes are stored in the buffer, never written to the peer:   *)
(* flush_out gives writeit the four bytes at out_finger.  The return FALSE *)
(* is not part of the if that compares what was written.                   *)
FragLen(bytes, last) ==      \* header of length bytes, modulo 2^31
  IF bytes >= 0 THEN << (IF last THEN 128 ELSE 0), 0, bytes \div 256, bytes % 256 >>
  ELSE <<255, 255, 255, 256 + bytes>>

flush_out(m, finger, eor) ==
  LET len == (finger - frag_header) \div 4 - Unit
      m1  == Store(m, frag_header, FragLen(len, eor))
  IN  /\ mem' = m1
      /\ Len(writes) < MaxWrites
      /\ writes' = Append(writes, Load(m1, finger, 4))
      /\ out_finger' = finger
      /\ ret' = "failed"
      /\ UNCHANGED frag_header

(* After the store out_finger goes back to the long it has just stored.    *)
flexxdrrec_putlong(b) ==
  /\ call = Idle
  /\ IF out_finger + Unit > OutBoundary
     THEN /\ frag_sent' = TRUE
          /\ flush_out(mem, out_finger, FALSE)
     ELSE /\ mem' = Store(mem, out_finger, b)
          /\ ret' = "ok"
          /\ UNCHANGED <<out_finger, frag_header, frag_sent, writes>>
  /\ UNCHANGED <<inVars, peer>>

(* The copy stops at out_boundary; with bytes left it flushes, and the     *)
(* flush ends the call.                                                    *)
flexxdrrec_putbytes(b) ==
  /\ call = Idle
  /\ LET room == OutBoundary - out_finger
         n    == IF Len(b) < room THEN Len(b) ELSE room
         m1   == Store(mem, out_finger, SubSeq(b, 1, n))
     IN  IF Len(b) > n
         THEN /\ frag_sent' = TRUE
              /\ flush_out(m1, out_finger + n, FALSE)
         ELSE /\ mem' = m1 /\ out_finger' = out_finger + n
              /\ ret' = "ok"
              /\ UNCHANGED <<frag_header, frag_sent, writes>>
  /\ UNCHANGED <<inVars, peer>>

flexxdrrec_endofrecord(sendnow) ==
  /\ call = Idle
  /\ IF sendnow \/ frag_sent \/ out_finger + Unit >= OutBoundary
     THEN /\ frag_sent' = FALSE
          /\ flush_out(mem, out_finger, TRUE)
     ELSE /\ mem' = Store(mem, frag_header, FragLen(out_finger - frag_header - Unit, TRUE))
          /\ frag_header' = out_finger
          /\ out_finger' = out_finger + Unit
          /\ ret' = "ok"
          /\ UNCHANGED <<frag_sent, writes>>
  /\ UNCHANGED <<inVars, peer>>

-----------------------------------------------------------------------------
(* Input.  One read fills the first unit of the input buffer, however many *)
(* bytes readit delivered; a short read leaves the old bytes behind it.    *)

Delivery(n) == IF n <= Len(wire) THEN n ELSE Len(wire)
fill_input_buf(n) ==
  /\ mem' = Store(mem, InBase, SubSeq(wire, 1, Delivery(n)))
  /\ wire' = SubSeq(wire, Delivery(n) + 1, Len(wire))
  /\ in_finger' = InBase /\ in_boundary' = InBase + 4

fail ==
  /\ ret' = "failed" /\ call' = Idle

(* The peer closes after its last record.                                  *)
Closed == rec > Len(Records) /\ wire = <<>>

(* The first read of a get_input_bytes, set_input_fragment or              *)
(* skip_input_bytes that finds the input buffer empty.  A blocking readit  *)
(* waits for data; -1 is a failure and 0 the end of the stream.            *)
NeedsInput ==
  CASE call.op = "none" -> FALSE
    [] call.op = "get"  -> (Len(call.buf) < call.len /\ (fbtbc = 0 => ~last_frag))
    [] call.op = "skip" -> (call.len > 0 \/ ~last_frag)
Fill ==
  /\ NeedsInput /\ in_finger = in_boundary
  /\ \E n \in ReadSizes :
       \/ /\ n = -1 /\ fail
          /\ lost' = (lost \/ (call.op = "skip" /\ call.len /= fbtbc))
          /\ UNCHANGED <<mem, wire, in_finger, in_boundary, fbtbc, last_frag>>
       \/ /\ n >= 0 /\ IF n > 0 THEN wire /= <<>> ELSE Closed
          /\ fill_input_buf(n)
          /\ lost' = (lost \/ Delivery(n) < Unit)
          /\ UNCHANGED <<fbtbc, last_frag, call, ret>>
  /\ UNCHANGED <<outVars, rec, frag>>

(* get_input_bytes copies once and returns TRUE whatever is left to copy.  *)
Ready     == in_boundary - in_finger
Copied(n) == IF n < Ready THEN n ELSE Ready

(* set_input_fragment, the header being the unit at in_finger.  A shorter  *)
(* rest of the buffer leaves the tail of header uninitialised.  What is no *)
(* header may announce any length, followed up to MaxFragment.             *)
HeaderBytes(j) == Load(mem, in_finger, Copied(Unit))
                    \o [k \in 1 .. Unit - Copied(Unit) |-> j]
set_input_fragment ==
  /\ in_finger < in_boundary
  /\ \E j \in Junk : LET h == HeaderBytes(j) IN
       /\ in_finger' = in_finger + Copied(Unit)
       /\ last_frag' = (h[1] >= 128)
       /\ IF h = <<0, 0, 0, 0>>
          THEN fail /\ UNCHANGED fbtbc
          ELSE /\ fbtbc' = (((h[1] % 128) * 256 + h[2]) * 256 + h[3]) * 256 + h[4]
               /\ fbtbc' <= MaxFragment
               /\ call' = (IF call.op = "skip" THEN [call EXCEPT !.len = fbtbc'] ELSE call)
               /\ UNCHANGED ret
  /\ lost' = (lost \/ Copied(Unit) < Unit)
  /\ UNCHANGED <<mem, in_boundary>>

(* flexxdrrec_getbytes, and flexxdrrec_getlong through it: the inline case *)
(* of getlong is the getbytes of one unit whose bytes are all there.       *)
flexxdrrec_getlong ==
  /\ call = Idle
  /\ call' = [op |-> "get", len |-> Unit, buf |-> <<>>]
  /\ ret' = "none"
  /\ UNCHANGED <<mem, outVars, in_finger, in_boundary, fbtbc, last_frag, lost, peer>>

flexxdrrec_getbytes(n) ==
  /\ call = Idle
  /\ call' = [op |-> "get", len |-> n, buf |-> <<>>]
  /\ ret' = "none"
  /\ UNCHANGED <<mem, outVars, in_finger, in_boundary, fbtbc, last_frag, lost, peer>>

GetDone ==
  /\ call.op = "get" /\ Len(call.buf) = call.len
  /\ ret' = "ok" /\ call' = Idle
  /\ UNCHANGED <<mem, outVars, in_finger, in_boundary, fbtbc, last_frag, lost, peer>>

GetLast ==
  /\ call.op = "get" /\ Len(call.buf) < call.len /\ fbtbc = 0 /\ last_frag
  /\ fail
  /\ UNCHANGED <<mem, outVars, in_finger, in_boundary, fbtbc, last_frag, lost, peer>>

GetFragment ==
  /\ call.op = "get" /\ Len(call.buf) < call.len /\ fbtbc = 0 /\ ~last_frag
  /\ set_input_fragment
  /\ UNCHANGED <<outVars, peer>>

get_without_debit ==
  /\ call.op = "get" /\ Len(call.buf) < call.len /\ fbtbc > 0
  /\ in_finger < in_boundary
  /\ LET left == call.len - Len(call.buf)
         n == Copied(IF left < fbtbc THEN left ELSE fbtbc)
     IN  /\ call' = [call EXCEPT !.buf = @ \o Load(mem, in_finger, n)]
         /\ in_finger' = in_finger + n
  /\ UNCHANGED <<mem, outVars, in_boundary, fbtbc, last_frag, lost, peer, ret>>

GetCopy ==
  /\ call.op = "get" /\ Len(call.buf) < call.len /\ fbtbc > 0
  /\ in_finger < in_boundary
  /\ LET left == call.len - Len(call.buf)
         current == IF left < fbtbc THEN left ELSE fbtbc
         n == Copied(current)
     IN  \E j \in Junk :
           /\ call' = [call EXCEPT !.buf = @ \o Load(mem, in_finger, n)
                                             \o [k \in 1 .. current - n |-> j]]
           /\ in_finger' = in_finger + n
           /\ fbtbc' = fbtbc - current
           /\ lost' = (lost \/ n < current)
  /\ UNCHANGED <<mem, outVars, in_boundary, last_frag, peer, ret>>

(* flexxdrrec_skiprecord: rest of the fragment, then the next header, for  *)
(* as long as headers announce more.  call.len counts what is left to skip *)
(* of the fragment; fbtbc is cleared only when all of it is skipped, so a  *)
(* read that fails on the way leaves it at its old value.                  *)
flexxdrrec_skiprecord ==
  /\ call = Idle
  /\ call' = [op |-> "skip", len |-> fbtbc, buf |-> <<>>] /\ ret' = "none"
  /\ UNCHANGED <<mem, outVars, in_finger, in_boundary, fbtbc, last_frag, lost, peer>>

SkipBytes ==
  /\ call.op = "skip" /\ call.len > 0 /\ in_finger < in_boundary
  /\ in_finger' = in_finger + Copied(call.len)
  /\ call' = [call EXCEPT !.len = @ - Copied(call.len)]
  /\ fbtbc' = (IF call.len = Copied(call.len) THEN 0 ELSE fbtbc)
  /\ UNCHANGED <<mem, outVars, in_boundary, last_frag, lost, peer, ret>>

SkipFragment ==
  /\ call.op = "skip" /\ call.len = 0 /\ ~last_frag
  /\ set_input_fragment
  /\ UNCHANGED <<outVars, peer>>

SkipDone ==
  /\ call.op = "skip" /\ call.len = 0 /\ last_frag
  /\ last_frag' = FALSE /\ call' = Idle /\ ret' = "ok"
  /\ UNCHANGED <<mem, outVars, in_finger, in_boundary, fbtbc, lost, peer>>

-----------------------------------------------------------------------------
(* The peer sends its records, a fragment at a time.                       *)
PeerSend ==
  /\ rec <= Len(Records) /\ wire = <<>>
  /\ wire' = Fragment(Records[rec], frag)
  /\ IF frag < Len(Records[rec]) THEN frag' = frag + 1 /\ UNCHANGED rec
                                 ELSE frag' = 1 /\ rec' = rec + 1
  /\ UNCHANGED <<mem, outVars, inVars, ret>>

Data(n) == [k \in 1 .. n |-> 10 + (k % 5)]

Put == \/ flexxdrrec_putlong(Data(Unit))
       \/ \E n \in PutLens : flexxdrrec_putbytes(Data(n))
       \/ \E now \in BOOLEAN : flexxdrrec_endofrecord(now)
Get == \/ flexxdrrec_getlong
       \/ \E n \in GetLens : flexxdrrec_getbytes(n)
       \/ flexxdrrec_skiprecord
Step == GetDone \/ GetLast \/ GetFragment \/ GetCopy
          \/ SkipBytes \/ SkipFragment \/ SkipDone \/ Fill

Next == Put \/ Get \/ Step \/ PeerSend

Spec == Init /\ [][Next]_vars
(* The application's loop and the peer go on when they can; nobody is      *)
(* obliged to make a new call.                                             *)
FairSpec == Spec /\ WF_vars(Step) /\ WF_vars(PeerSend)

-----------------------------------------------------------------------------
(* Every variable has its type, and a read delivers at most one unit.      *)
TypeOK ==
  /\ mem \in [0 .. Allocated - 1 -> Byte]
  /\ frag_sent \in BOOLEAN /\ last_frag \in BOOLEAN
  /\ fbtbc \in Nat /\ lost \in BOOLEAN /\ ret \in {"none", "ok", "failed"}
  /\ in_boundary - in_finger \in 0 .. Unit
  /\ rec \in 1 .. Len(Records) + 1

(* No put or end of record moves out_finger past out_boundary, the header  *)
(* of the current fragment stays behind it, and the boundary itself lies   *)
(* inside the allocation although it is set sixteen bytes past the send    *)
(* buffer and RNDUP has made both buffers smaller than was asked for.      *)
OutInsideAllocation ==
  /\ out_finger \in OutStart .. OutBoundary
  /\ frag_header + Unit <= out_finger
  /\ OutBoundary + Unit <= Allocated

(* Where the fragments end in the peer's stream, and how far the receiver  *)
(* has come in it.                                                         *)
Ends(r, k, from) ==
  LET E[i \in 0 .. k] == IF i = 0 THEN from ELSE E[i - 1] + Unit + Len(r[i]) IN E
RecordEnd ==
  LET R[i \in 0 .. Len(Records)] ==
        IF i = 0 THEN 0 ELSE Ends(Records[i], Len(Records[i]), R[i - 1])[Len(Records[i])]
  IN  R
Boundaries == {0} \cup UNION { {Ends(Records[i], Len(Records[i]), RecordEnd[i - 1])[k] :
                                   k \in 1 .. Len(Records[i])} : i \in 1 .. Len(Records)}
Sent == IF rec > Len(Records) THEN RecordEnd[Len(Records)]
        ELSE Ends(Records[rec], frag - 1, RecordEnd[rec - 1])[frag - 1]
Consumed == Sent - Len(wire) - Ready

(* fbtbc (flexxdr.h:196, "fragment bytes to be consumed") counts exactly   *)
(* the bytes of the current fragment that the input buffer and the         *)
(* connection still hold, so that the next header is found where the peer  *)
(* put it.  Three things break it, and nothing else does: a get of more    *)
(* than the input buffer still holds, which copies that and counts all; a  *)
(* readit that delivers less than a unit, or nothing at the end of the     *)
(* stream; and a read that fails in the middle of skipping a fragment.     *)
InStepWithFragments ==
  ~lost /\ call.op /= "skip" => Consumed + fbtbc \in Boundaries

(* The comment of in_boundary (flexxdr.h:195): what lies between in_finger *)
(* and in_boundary can be read, so no put may change it.                   *)
UnreadInputKept ==
  [][ \A a \in in_finger .. in_boundary - 1 :
        (in_finger' = in_finger /\ in_boundary' = in_boundary) => mem'[a] = mem[a] ]_vars

(* The bytes a getlong or getbytes has collected are consecutive payload   *)
(* bytes of one record, never a header and never bytes of two records, as  *)
(* long as the count is in step.                                           *)
Flatten(r) == LET F[k \in 0 .. Len(r)] == IF k = 0 THEN <<>> ELSE F[k - 1] \o r[k]
              IN F[Len(r)]
IsRunOf(b, s) == \E i \in 0 .. Len(s) - Len(b) : SubSeq(s, i + 1, i + Len(b)) = b
GotPayload ==
  ~lost /\ call.op = "get" => \E k \in 1 .. Len(Records) : IsRunOf(call.buf, Flatten(Records[k]))
                     \/ call.buf = <<>>

(* A skiprecord ends, or waits for records the peer has not sent, as long  *)
(* as the count is in step.  At the end of the stream, where readit        *)
(* delivers nothing and fill_input_buf succeeds, it takes the stale unit   *)
(* of the input buffer for one header after the other.                     *)
SkipEnds == []<>(call.op /= "skip" \/ Closed \/ lost)

(* The comment of out_finger (flexxdr.h:185), "next output position": a    *)
(* put that returns TRUE leaves out_finger behind the bytes it stored.     *)
NextOutputPosition ==
  [][ flexxdrrec_putlong(Data(Unit)) /\ ret' = "ok"
        => out_finger' = out_finger + Unit ]_vars

(* The comment at flexxdr_rec.c:27, "A recrod is composed of one or more   *)
(* record fragments", each a header and its bytes: the first bytes given   *)
(* to writeit are the header of a fragment.                                *)
SendsHeaderFirst ==
  writes /= <<>> => \E n \in 0 .. BufSize, last \in BOOLEAN : writes[1] = Header(n, last)
=============================================================================
