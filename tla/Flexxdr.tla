------------------------------ MODULE Flexxdr ------------------------------
(***************************************************************************)
(* The FLEXXDR memory stream (src/flexrpc/flexxdr_mem.c) and the           *)
(* primitives written on top of it (src/flexrpc/flexxdr.c), as operators   *)
(* on a stream value.                                                      *)
(*                                                                         *)
(* A stream is a record with the fields of struct FLEXXDR that the code    *)
(* uses: f_op, f_private as an offset from f_base, f_handy, and buf, the   *)
(* bytes of the buffer that f_base points to.  An operation takes the      *)
(* stream and the variable the C code passes by address, and returns a     *)
(* record: ok, the value returned; s, the stream after the call; v, the    *)
(* variable after the call (unchanged when the C code does not assign it). *)
(*                                                                         *)
(* Widths are scaled, never dropped: a byte is 0 .. Base-1, a 32-bit word  *)
(* is four bytes and a 64-bit long is two words (256, 2^32 and 2^64 in the *)
(* program).                                                               *)
(***************************************************************************)
EXTENDS Integers, Sequences

CONSTANT Base   \* number of values of one byte: 256 in the program

ASSUME BaseAssumption == Base \in Nat /\ Base >= 2 /\ Base % 2 = 0

Byte    == 0 .. Base - 1
WordMod == Base * Base * Base * Base
LongMod == WordMod * WordMod

BYTES_PER_FLEXXDR_UNIT == 4

FLEXXDR_ENCODE == "encode"
FLEXXDR_DECODE == "decode"
FLEXXDR_FREE   == "free"
FlexxdrOps     == {FLEXXDR_ENCODE, FLEXXDR_DECODE, FLEXXDR_FREE}

Stream(size) == [f_op: FlexxdrOps, f_private: 0 .. size, f_handy: 0 .. size,
                 buf: [0 .. size - 1 -> Byte]]

-----------------------------------------------------------------------------
(* C conversions between the widths.                                       *)

Signed(x, mod) == LET u == x % mod IN IF u >= mod \div 2 THEN u - mod ELSE u
int32(x)  == Signed(x, WordMod)
uint32(x) == x % WordMod
ulong(x)  == x % LongMod
char(x)   == Signed(x, Base)

(* The four bytes of a word in network order, and the word they stand for. *)
htonl(x) == << (x \div (Base * Base * Base)) % Base, (x \div (Base * Base)) % Base,
               (x \div Base) % Base, x % Base >>
ntohl(b) == ((b[1] * Base + b[2]) * Base + b[3]) * Base + b[4]

-----------------------------------------------------------------------------
(* The memory stream.                                                      *)

Result(ok, s, v) == [ok |-> ok, s |-> s, v |-> v]
Advance(s, n)    == [s EXCEPT !.f_private = @ + n, !.f_handy = @ - n]
LoadAt(s, n)     == [k \in 1 .. n |-> s.buf[s.f_private + k - 1]]
StoreAt(s, b)    ==
  [s EXCEPT !.buf = [i \in DOMAIN @ |->
      IF i \in s.f_private .. s.f_private + Len(b) - 1
      THEN b[i - s.f_private + 1] ELSE @[i]]]

flexxdrmem_create(buf, size, op) ==
  [f_op |-> op, f_private |-> 0, f_handy |-> size, buf |-> buf]

flexxdrmem_getlong(s, l) ==
  IF s.f_handy < 4 THEN Result(FALSE, s, l)
  ELSE Result(TRUE, Advance(s, 4), int32(ntohl(LoadAt(s, 4))))

putlong_unchecked(s, l) == Result(TRUE, Advance(StoreAt(s, htonl(l)), 4), l)
flexxdrmem_putlong(s, l) ==
  IF s.f_handy < 4 THEN Result(FALSE, s, l)
  ELSE Result(TRUE, Advance(StoreAt(s, htonl(l)), 4), l)

(* memcpy of len bytes into the block addr: what lies past them stays.     *)
Overlay(addr, b) == b \o SubSeq(addr, Len(b) + 1, Len(addr))

flexxdrmem_getbytes(s, addr, len) ==
  IF s.f_handy < len THEN Result(FALSE, s, addr)
  ELSE Result(TRUE, Advance(s, len), Overlay(addr, LoadAt(s, len)))

flexxdrmem_putbytes(s, addr, len) ==
  IF s.f_handy < len THEN Result(FALSE, s, addr)
  ELSE Result(TRUE, Advance(StoreAt(s, SubSeq(addr, 1, len)), len), addr)

flexxdrmem_getpos(s) == s.f_private

setpos_keeps_handy(s, pos) ==
  IF pos > s.f_private + s.f_handy THEN Result(FALSE, s, pos)
  ELSE Result(TRUE, [s EXCEPT !.f_private = pos], pos)

(* lastaddr is f_private - f_handy in the code, not the end of the buffer. *)
flexxdrmem_setpos(s, pos) ==
  LET lastaddr == s.f_private - s.f_handy
      handy    == lastaddr - pos
  IN  IF pos > lastaddr \/ pos < 0 \/ handy # uint32(handy)
      THEN Result(FALSE, s, pos)
      ELSE Result(TRUE, [s EXCEPT !.f_private = pos, !.f_handy = handy], pos)

inline_without_debit(s, len) ==
  IF s.f_handy >= len THEN Result(TRUE, [s EXCEPT !.f_private = @ + len], s.f_private)
  ELSE Result(FALSE, s, -1)

(* v is the offset of the window handed to the caller, -1 for NULL.        *)
flexxdrmem_inline(s, len) ==
  IF s.f_handy >= len THEN Result(TRUE, Advance(s, len), s.f_private)
  ELSE Result(FALSE, s, -1)

(* How the example programs reuse a handle: f_private = f_base, f_handy =  *)
(* the buffer size, f_op set anew, and the first bytes cleared: bzero of   *)
(* sizeof(buf), which is the size of a pointer and not of the buffer.      *)
PtrSize == 2 * BYTES_PER_FLEXXDR_UNIT
Flipped(s, size, op) ==
  [f_op |-> op, f_private |-> 0, f_handy |-> size,
   buf |-> [i \in DOMAIN s.buf |-> IF i < PtrSize THEN 0 ELSE s.buf[i]]]

-----------------------------------------------------------------------------
(* Primitives.                                                             *)

(* What a variable of a narrower type holds after a successful decode.     *)
AsUnsigned(r) == IF r.ok THEN [r EXCEPT !.v = uint32(@)] ELSE r
AsChar(r)     == IF r.ok THEN [r EXCEPT !.v = char(@)] ELSE r

flexxdr_int(s, ip) ==
  CASE s.f_op = FLEXXDR_ENCODE -> flexxdrmem_putlong(s, ip)
    [] s.f_op = FLEXXDR_DECODE -> flexxdrmem_getlong(s, ip)
    [] s.f_op = FLEXXDR_FREE   -> Result(TRUE, s, ip)

flexxdr_enum(s, ep) ==
  CASE s.f_op = FLEXXDR_ENCODE -> flexxdrmem_putlong(s, ep)
    [] s.f_op = FLEXXDR_DECODE -> flexxdrmem_getlong(s, ep)
    [] s.f_op = FLEXXDR_FREE   -> Result(TRUE, s, ep)

flexxdr_long(s, lp) ==
  CASE s.f_op = FLEXXDR_ENCODE /\ int32(lp) = lp -> flexxdrmem_putlong(s, lp)
    [] s.f_op = FLEXXDR_DECODE -> flexxdrmem_getlong(s, lp)
    [] OTHER -> Result(FALSE, s, lp)

flexxdr_u_long(s, ulp) ==
  CASE s.f_op = FLEXXDR_DECODE -> AsUnsigned(flexxdrmem_getlong(s, ulp))
    [] s.f_op = FLEXXDR_ENCODE ->
         IF uint32(ulp) # ulp THEN Result(FALSE, s, ulp) ELSE flexxdrmem_putlong(s, ulp)
    [] s.f_op = FLEXXDR_FREE -> Result(TRUE, s, ulp)

flexxdr_u_int(s, up) ==
  CASE s.f_op = FLEXXDR_ENCODE -> flexxdrmem_putlong(s, up)
    [] s.f_op = FLEXXDR_DECODE -> AsUnsigned(flexxdrmem_getlong(s, up))
    [] s.f_op = FLEXXDR_FREE -> Result(TRUE, s, up)

flexxdr_char(s, cp) == AsChar(flexxdr_int(s, cp))

-----------------------------------------------------------------------------
(* Byte strings.  A block of memory is the sequence of its bytes; blocks   *)
(* have at least one byte, so the empty sequence stands for NULL.          *)

NULLPTR == << >>

rndup(cnt) == (- cnt) % BYTES_PER_FLEXXDR_UNIT

(* The pad bytes read on decode go to the scratch array crud.              *)
crud == << 0, 0, 0, 0 >>
flexxdr_zero == << 0, 0, 0, 0 >>

opaque_unpadded(s, cp, cnt) ==
  IF s.f_op = FLEXXDR_DECODE THEN flexxdrmem_getbytes(s, cp, cnt)
  ELSE flexxdrmem_putbytes(s, cp, cnt)
flexxdr_opaque(s, cp, cnt) ==
  LET Done(r) == ~r.ok \/ rndup(cnt) = 0
      SkipPad(r) == IF Done(r) THEN r
                    ELSE [flexxdrmem_getbytes(r.s, crud, rndup(cnt)) EXCEPT !.v = r.v]
      PutPad(r)  == IF Done(r) THEN r
                    ELSE [flexxdrmem_putbytes(r.s, flexxdr_zero, rndup(cnt)) EXCEPT !.v = r.v]
  IN  CASE cnt = 0 \/ s.f_op = FLEXXDR_FREE -> Result(TRUE, s, cp)
        [] cnt # 0 /\ s.f_op = FLEXXDR_DECODE -> SkipPad(flexxdrmem_getbytes(s, cp, cnt))
        [] cnt # 0 /\ s.f_op = FLEXXDR_ENCODE -> PutPad(flexxdrmem_putbytes(s, cp, cnt))

(* External: mem_alloc is malloc.  The block it returns is uninitialised;  *)
(* fill is the value its bytes happen to hold, -1 when malloc fails.       *)
mem_alloc(n, fill) == IF fill = -1 THEN NULLPTR ELSE [i \in 1 .. n |-> fill]

(* v is <<*cpp, *sizep>>.                                                  *)
flexxdr_bytes(s, cpp, sizep, maxsize, fill) ==
  LET Sized(r, len) == [r EXCEPT !.v = <<@, len.v>>]
      Into(sp, len) ==
        IF sp = NULLPTR /\ s.f_op = FLEXXDR_DECODE THEN Result(FALSE, len.s, <<sp, len.v>>)
        ELSE Sized(flexxdr_opaque(len.s, sp, len.v), len)
      Data(len) ==
        IF ~len.ok THEN Result(FALSE, len.s, <<cpp, sizep>>)
        ELSE IF len.v > maxsize /\ s.f_op # FLEXXDR_FREE THEN Result(FALSE, len.s, <<cpp, len.v>>)
        ELSE IF s.f_op = FLEXXDR_FREE \/ (s.f_op = FLEXXDR_DECODE /\ len.v = 0)
        THEN Result(TRUE, len.s, <<cpp, len.v>>)
        ELSE Into(IF s.f_op = FLEXXDR_DECODE /\ cpp = NULLPTR
                  THEN mem_alloc(len.v, fill) ELSE cpp, len)
  IN  Data(flexxdr_u_int(s, sizep))

(* External: the C library's strlen.  Of a block without a zero byte it    *)
(* reads past the end; a stream here sees such a block counted in full,    *)
(* and CornflakeRpc ends in undefined behaviour before it comes to that.   *)
strlen(sp) ==
  LET Zeros == {i \in 1 .. Len(sp) : sp[i] = 0}
  IN  IF Zeros = {} THEN Len(sp) ELSE (CHOOSE i \in Zeros : \A j \in Zeros : i <= j) - 1

flexxdr_string(s, cpp, maxsize, fill) ==
  LET Into(sp, size) ==
        IF sp = NULLPTR THEN Result(FALSE, size.s, sp) ELSE flexxdr_opaque(size.s, sp, size.v)
      Data(size) ==
        IF ~size.ok \/ size.v > maxsize \/ uint32(size.v + 1) = 0
        THEN Result(FALSE, size.s, cpp)
        ELSE IF s.f_op = FLEXXDR_FREE THEN Result(TRUE, size.s, cpp)
        ELSE Into(IF s.f_op = FLEXXDR_DECODE /\ cpp = NULLPTR
                  THEN mem_alloc(size.v + 1, fill) ELSE cpp, size)
  IN  IF s.f_op # FLEXXDR_DECODE /\ cpp = NULLPTR
      THEN Result(s.f_op = FLEXXDR_FREE, s, cpp)
      ELSE Data(flexxdr_u_int(s, IF s.f_op = FLEXXDR_DECODE THEN 0 ELSE strlen(cpp)))
=============================================================================
