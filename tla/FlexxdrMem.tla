---------------------------- MODULE FlexxdrMem ----------------------------
(***************************************************************************)
(* One FLEXXDR memory stream under every order of the calls its users make *)
(* (src/flexrpc/flexxdr_mem.c): puts, gets, inline windows, repositioning, *)
(* and the flip between encoding and decoding that the example programs do *)
(* by assigning the fields of the handle.                                  *)
(***************************************************************************)
EXTENDS Flexxdr, TLAPS

CONSTANTS Size,     \* bytes in the buffer handed to flexxdrmem_create
          Longs,    \* longs the users put
          Blocks    \* byte blocks the users put

ASSUME MemAssumption ==
  /\ Size \in Nat
  /\ Size < WordMod
  /\ Longs \subseteq Int
  /\ Blocks \subseteq Seq(Byte)

VARIABLES xdrs,   \* the stream
          ret     \* what the last call returned

vars == <<xdrs, ret>>

(* The cursor and f_handy stay between 0 and the size of the buffer: no    *)
(* decrement of the unsigned f_handy ever wraps.                           *)
TypeOK == xdrs \in Stream(Size) /\ ret \in BOOLEAN

(* malloc leaves the buffer uninitialised.                                 *)
Init == /\ \E g \in Byte, op \in FlexxdrOps :
             xdrs = flexxdrmem_create([i \in 0 .. Size - 1 |-> g], Size, op)
        /\ ret = TRUE

Call(r) == xdrs' = r.s /\ ret' = r.ok

PutLong  == \E l \in Longs : Call(flexxdrmem_putlong(xdrs, l))
GetLong  == Call(flexxdrmem_getlong(xdrs, 0))
PutBytes == \E b \in Blocks : Call(flexxdrmem_putbytes(xdrs, b, Len(b)))
GetBytes == \E len \in 0 .. Size + 1 : Call(flexxdrmem_getbytes(xdrs, NULLPTR, len))
SetPos   == \E pos \in 0 .. Size + 1 : Call(flexxdrmem_setpos(xdrs, pos))

(* The caller stores n longs through the window, as IFLEXXDR_PUT_LONG does,*)
(* or only reads it: then the window is n longs that stay as they are.     *)
Inline ==
  \E n \in 1 .. Size \div 4 + 1, l \in Longs :
    LET r == flexxdrmem_inline(xdrs, 4 * n)
        b == [k \in 1 .. 4 * n |-> htonl(l)[((k - 1) % 4) + 1]]
    IN  /\ ret' = r.ok
        /\ \/ xdrs' = r.s
           \/ r.ok /\ xdrs' = Advance(StoreAt(xdrs, b), 4 * n)

Flip == \E op \in {FLEXXDR_ENCODE, FLEXXDR_DECODE} :
          xdrs' = Flipped(xdrs, Size, op) /\ ret' = TRUE

Next == \/ PutLong \/ GetLong \/ PutBytes \/ GetBytes
        \/ SetPos \/ Inline \/ Flip

Spec == Init /\ [][Next]_vars

-----------------------------------------------------------------------------
End(s) == s.f_private + s.f_handy

(* No sequence of calls lets the stream reach past its buffer: the cursor  *)
(* and what is left after it fit in the Size bytes of flexxdrmem_create,   *)
(* even though flexxdrmem_setpos computes its limit as f_private - f_handy.*)
WithinBuffer == End(xdrs) <= Size

(* A call only changes bytes of the window between the cursor and its end: *)
(* puts never touch what was encoded before them nor what lies beyond the  *)
(* room that is left (a flip clears the first PtrSize bytes as well).      *)
WritesInsideWindow ==
  [][\A i \in 0 .. Size - 1 :
       xdrs'.buf[i] # xdrs.buf[i] =>
         \/ i \in xdrs.f_private .. End(xdrs) - 1
         \/ Flip /\ i < PtrSize]_vars

(* Short of a flip the end of the window never moves out again: room given *)
(* up by a repositioning (flexxdrmem_setpos) is lost to every later call.  *)
WindowOnlyShrinks == [][End(xdrs') <= End(xdrs) \/ Flip]_vars


-----------------------------------------------------------------------------
(* Proofs, for every buffer size, every byte base and all longs and        *)
(* blocks.  Inv, the conjunction of TypeOK and WithinBuffer, is inductive; *)
(* neither half is on its own: a put stays inside the buffer only because  *)
(* what is left after the cursor fits in it.                               *)
Inv == TypeOK /\ WithinBuffer

-----------------------------------------------------------------------------
(* Remainders by a positive number are what C's unsigned narrowing needs.  *)
LEMMA ModRange ==
  ASSUME NEW a \in Int, NEW b \in Nat, b > 0
  PROVE  a % b \in 0 .. b - 1
  OBVIOUS

(* Quotients by a positive number are integers.                            *)
LEMMA DivInt ==
  ASSUME NEW a \in Int, NEW b \in Nat, b > 0
  PROVE  a \div b \in Int
  OBVIOUS

(* Bytes of a block are bytes.                                             *)
LEMMA BlockByte ==
  ASSUME NEW q \in Seq(Byte), NEW j \in 1 .. Len(q)
  PROVE  q[j] \in Byte
  OBVIOUS

(* htonl yields four bytes whatever long it is given.                      *)
LEMMA HtonlBytes ==
  ASSUME NEW x \in Int
  PROVE  htonl(x) \in Seq(Byte) /\ Len(htonl(x)) = 4
<1> DEFINE B2 == Base * Base
           B3 == Base * Base * Base
<1>1. Base \in Nat /\ Base > 0
  BY BaseAssumption
<1>2. B2 \in Nat /\ B2 > 0
  BY <1>1
<1>3. B3 \in Nat /\ B3 > 0
  <2> HIDE DEF B2
  <2>1. B2 * Base \in Nat /\ B2 * Base > 0
    BY <1>1, <1>2
  <2> QED
    BY <2>1 DEF B2
<1>4. x \div B3 \in Int /\ x \div B2 \in Int /\ x \div Base \in Int
  <2> HIDE DEF B2, B3
  <2> QED
    BY <1>1, <1>2, <1>3, DivInt
<1>5. /\ (x \div B3) % Base \in Byte
      /\ (x \div B2) % Base \in Byte
      /\ (x \div Base) % Base \in Byte
      /\ x % Base \in Byte
  <2> HIDE DEF B2, B3
  <2> QED
    BY <1>1, <1>4, ModRange DEF Byte
<1>6. htonl(x) = << (x \div B3) % Base, (x \div B2) % Base, (x \div Base) % Base, x % Base >>
  BY DEF htonl
<1> HIDE DEF B2, B3
<1> QED
  BY <1>5, <1>6

(* Moving the cursor over n of the bytes that are left keeps the stream    *)
(* well formed and leaves the end of its window where it was.              *)
LEMMA AdvanceInside ==
  ASSUME NEW s \in Stream(Size), End(s) <= Size, NEW n \in 0 .. s.f_handy
  PROVE  /\ Advance(s, n) \in Stream(Size)
         /\ End(Advance(s, n)) = End(s)
         /\ Advance(s, n).buf = s.buf
<1>1. Size \in Nat
  BY MemAssumption
<1>2. /\ s.f_op \in FlexxdrOps /\ s.f_private \in 0 .. Size
      /\ s.f_handy \in 0 .. Size /\ s.buf \in [0 .. Size - 1 -> Byte]
  BY DEF Stream
<1>3. /\ Advance(s, n).f_private = s.f_private + n
      /\ Advance(s, n).f_handy = s.f_handy - n
      /\ Advance(s, n).buf = s.buf
  BY DEF Advance, Stream
<1>4. s.f_private + n \in 0 .. Size /\ s.f_handy - n \in 0 .. Size
  BY <1>1, <1>2 DEF End
<1>5. Advance(s, n) \in Stream(Size)
  BY <1>4 DEF Stream, Advance
<1>6. End(Advance(s, n)) = End(s)
  BY <1>1, <1>2, <1>3 DEF End
<1> QED
  BY <1>3, <1>5, <1>6

(* Storing a block at the cursor keeps the stream well formed, moves no    *)
(* field but the buffer, and only changes the bytes the block covers.      *)
LEMMA StoreAtCursor ==
  ASSUME NEW s \in Stream(Size), NEW b \in Seq(Byte)
  PROVE  /\ StoreAt(s, b) \in Stream(Size)
         /\ StoreAt(s, b).f_private = s.f_private
         /\ StoreAt(s, b).f_handy = s.f_handy
         /\ \A i \in 0 .. Size - 1 :
              StoreAt(s, b).buf[i] # s.buf[i]
                => i \in s.f_private .. s.f_private + Len(b) - 1
<1> DEFINE nb == [i \in 0 .. Size - 1 |->
                    IF i \in s.f_private .. s.f_private + Len(b) - 1
                    THEN b[i - s.f_private + 1] ELSE s.buf[i]]
<1>1. /\ s.f_private \in 0 .. Size
      /\ s.buf \in [0 .. Size - 1 -> Byte]
      /\ DOMAIN s.buf = 0 .. Size - 1
  BY DEF Stream
<1>2. nb \in [0 .. Size - 1 -> Byte]
  <2>1. ASSUME NEW i \in 0 .. Size - 1,
               i \in s.f_private .. s.f_private + Len(b) - 1
        PROVE  b[i - s.f_private + 1] \in Byte
    <3>1. i - s.f_private + 1 \in 1 .. Len(b)
      BY <1>1, <2>1, MemAssumption
    <3> QED
      BY <3>1
  <2> QED
    BY <1>1, <2>1
<1>3. StoreAt(s, b) = [s EXCEPT !.buf = nb]
  BY <1>1 DEF StoreAt
<1> HIDE DEF nb
<1>4. /\ StoreAt(s, b) \in Stream(Size)
      /\ StoreAt(s, b).f_private = s.f_private
      /\ StoreAt(s, b).f_handy = s.f_handy
      /\ StoreAt(s, b).buf = nb
  BY <1>2, <1>3 DEF Stream
<1> QED
  BY <1>4 DEF nb

(* The two together: a block of n bytes put at the cursor.                 *)
LEMMA PutInside ==
  ASSUME NEW s \in Stream(Size), End(s) <= Size,
         NEW b \in Seq(Byte), Len(b) <= s.f_handy,
         NEW t, t = Advance(StoreAt(s, b), Len(b))
  PROVE  /\ t \in Stream(Size)
         /\ End(t) = End(s)
         /\ \A i \in 0 .. Size - 1 :
              t.buf[i] # s.buf[i] => i \in s.f_private .. End(s) - 1
<1> DEFINE u == StoreAt(s, b)
<1>1. /\ u \in Stream(Size)
      /\ u.f_private = s.f_private
      /\ u.f_handy = s.f_handy
      /\ \A i \in 0 .. Size - 1 :
           u.buf[i] # s.buf[i] => i \in s.f_private .. s.f_private + Len(b) - 1
  BY StoreAtCursor
<1>2. /\ s.f_private \in Nat /\ s.f_handy \in Nat /\ Len(b) \in 0 .. s.f_handy
  BY MemAssumption DEF Stream
<1> HIDE DEF u
<1>3. End(u) = End(s)
  BY <1>1 DEF End
<1>4. /\ Advance(u, Len(b)) \in Stream(Size)
      /\ End(Advance(u, Len(b))) = End(u)
      /\ Advance(u, Len(b)).buf = u.buf
  BY <1>1, <1>2, <1>3, AdvanceInside
<1>5. \A i \in 0 .. Size - 1 :
        u.buf[i] # s.buf[i] => i \in s.f_private .. End(s) - 1
  BY <1>1, <1>2, MemAssumption DEF End
<1> QED
  BY <1>3, <1>4, <1>5 DEF u

-----------------------------------------------------------------------------
(* What one step other than a flip does to the stream, in one place: the   *)
(* three properties of the module all follow from it.                      *)
LEMMA StepInside ==
  ASSUME Inv, PutLong \/ GetLong \/ PutBytes \/ GetBytes \/ SetPos \/ Inline
  PROVE  /\ xdrs' \in Stream(Size) /\ ret' \in BOOLEAN
         /\ End(xdrs') <= End(xdrs)
         /\ \A i \in 0 .. Size - 1 :
              xdrs'.buf[i] # xdrs.buf[i] => i \in xdrs.f_private .. End(xdrs) - 1
<1>0. Size \in Nat
  BY MemAssumption
<1>1. /\ xdrs \in Stream(Size) /\ End(xdrs) <= Size
      /\ xdrs.f_private \in 0 .. Size /\ xdrs.f_handy \in 0 .. Size
      /\ End(xdrs) \in Nat
  BY <1>0 DEF Inv, TypeOK, WithinBuffer, Stream, End
<1>2. CASE PutLong
  <2>1. PICK l \in Longs : Call(flexxdrmem_putlong(xdrs, l))
    BY <1>2 DEF PutLong
  <2>2. htonl(l) \in Seq(Byte) /\ Len(htonl(l)) = 4
    BY HtonlBytes, MemAssumption
  <2>3. CASE xdrs.f_handy < 4
    BY <1>1, <2>1, <2>3 DEF Call, flexxdrmem_putlong, Result
  <2>4. CASE ~(xdrs.f_handy < 4)
    <3>1. ret' = TRUE /\ xdrs' = Advance(StoreAt(xdrs, htonl(l)), Len(htonl(l)))
      BY <2>1, <2>2, <2>4 DEF Call, flexxdrmem_putlong, Result
    <3>2. Len(htonl(l)) <= xdrs.f_handy
      BY <1>1, <2>2, <2>4
    <3>3. /\ xdrs' \in Stream(Size) /\ End(xdrs') = End(xdrs)
          /\ \A i \in 0 .. Size - 1 :
               xdrs'.buf[i] # xdrs.buf[i] => i \in xdrs.f_private .. End(xdrs) - 1
      BY <1>1, <2>2, <3>1, <3>2, PutInside
    <3> QED
      BY <1>1, <3>1, <3>3
  <2> QED
    BY <2>3, <2>4
<1>3. CASE GetLong
  <2>1. CASE xdrs.f_handy < 4
    BY <1>1, <1>3, <2>1 DEF GetLong, Call, flexxdrmem_getlong, Result
  <2>2. CASE ~(xdrs.f_handy < 4)
    <3>1. ret' = TRUE /\ xdrs' = Advance(xdrs, 4)
      BY <1>3, <2>2 DEF GetLong, Call, flexxdrmem_getlong, Result
    <3>2. 4 \in 0 .. xdrs.f_handy
      BY <1>1, <2>2
    <3> QED
      BY <1>1, <3>1, <3>2, AdvanceInside
  <2> QED
    BY <2>1, <2>2
<1>4. CASE PutBytes
  <2>1. PICK b \in Blocks : Call(flexxdrmem_putbytes(xdrs, b, Len(b)))
    BY <1>4 DEF PutBytes
  <2>2. b \in Seq(Byte) /\ SubSeq(b, 1, Len(b)) = b
    BY MemAssumption
  <2>3. CASE xdrs.f_handy < Len(b)
    BY <1>1, <2>1, <2>3 DEF Call, flexxdrmem_putbytes, Result
  <2>4. CASE ~(xdrs.f_handy < Len(b))
    <3>1. ret' = TRUE /\ xdrs' = Advance(StoreAt(xdrs, b), Len(b))
      BY <2>1, <2>2, <2>4 DEF Call, flexxdrmem_putbytes, Result
    <3>2. Len(b) <= xdrs.f_handy
      BY <1>1, <2>2, <2>4
    <3>3. /\ xdrs' \in Stream(Size) /\ End(xdrs') = End(xdrs)
          /\ \A i \in 0 .. Size - 1 :
               xdrs'.buf[i] # xdrs.buf[i] => i \in xdrs.f_private .. End(xdrs) - 1
      BY <1>1, <2>2, <3>1, <3>2, PutInside
    <3> QED
      BY <1>1, <3>1, <3>3
  <2> QED
    BY <2>3, <2>4
<1>5. CASE GetBytes
  <2>1. PICK len \in 0 .. Size + 1 : Call(flexxdrmem_getbytes(xdrs, NULLPTR, len))
    BY <1>5 DEF GetBytes
  <2>2. CASE xdrs.f_handy < len
    BY <1>1, <2>1, <2>2 DEF Call, flexxdrmem_getbytes, Result
  <2>3. CASE ~(xdrs.f_handy < len)
    <3>1. ret' = TRUE /\ xdrs' = Advance(xdrs, len)
      BY <2>1, <2>3 DEF Call, flexxdrmem_getbytes, Result
    <3>2. len \in 0 .. xdrs.f_handy
      BY <1>1, <2>3
    <3> QED
      BY <1>1, <3>1, <3>2, AdvanceInside
  <2> QED
    BY <2>2, <2>3
<1>6. CASE SetPos
  <2>1. PICK pos \in 0 .. Size + 1 : Call(flexxdrmem_setpos(xdrs, pos))
    BY <1>6 DEF SetPos
  <2> DEFINE lastaddr == xdrs.f_private - xdrs.f_handy
             bad == pos > lastaddr \/ pos < 0 \/ lastaddr - pos # uint32(lastaddr - pos)
  <2>2. CASE bad
    BY <1>1, <2>1, <2>2 DEF Call, flexxdrmem_setpos, Result
  <2>3. CASE ~bad
    <3>1. ret' = TRUE
          /\ xdrs' = [xdrs EXCEPT !.f_private = pos, !.f_handy = lastaddr - pos]
      BY <2>1, <2>3 DEF Call, flexxdrmem_setpos, Result
    <3>2. pos \in 0 .. Size /\ lastaddr - pos \in 0 .. Size /\ lastaddr <= End(xdrs)
      <4>1. pos <= lastaddr /\ pos \in Nat /\ lastaddr \in Int
        BY <1>0, <1>1, <2>3
      <4>2. lastaddr <= Size /\ lastaddr <= End(xdrs)
        BY <1>0, <1>1 DEF End
      <4> QED
        BY <1>0, <4>1, <4>2
    <3> HIDE DEF lastaddr
    <3>3. xdrs' \in Stream(Size) /\ xdrs'.buf = xdrs.buf
          /\ xdrs'.f_private = pos /\ xdrs'.f_handy = lastaddr - pos
      BY <1>1, <3>1, <3>2 DEF Stream
    <3>4. lastaddr \in Int
      BY <1>1 DEF lastaddr
    <3> QED
      BY <1>1, <3>1, <3>2, <3>3, <3>4 DEF End
  <2> QED
    BY <2>2, <2>3
<1>7. CASE Inline
  <2>1. PICK n \in 1 .. Size \div 4 + 1, l \in Longs :
          LET r == flexxdrmem_inline(xdrs, 4 * n)
              b == [k \in 1 .. 4 * n |-> htonl(l)[((k - 1) % 4) + 1]]
          IN  /\ ret' = r.ok
              /\ \/ xdrs' = r.s
                 \/ r.ok /\ xdrs' = Advance(StoreAt(xdrs, b), 4 * n)
    BY <1>7 DEF Inline
  <2> DEFINE b == [k \in 1 .. 4 * n |-> htonl(l)[((k - 1) % 4) + 1]]
  <2>2. n \in Nat /\ 4 * n \in Nat
    BY <1>0
  <2>3. b \in Seq(Byte) /\ Len(b) = 4 * n
    <3>1. htonl(l) \in Seq(Byte) /\ Len(htonl(l)) = 4
      BY HtonlBytes, MemAssumption
    <3>2. \A k \in 1 .. 4 * n : ((k - 1) % 4) + 1 \in 1 .. 4
      BY <2>2
    <3>3. \A j \in 1 .. 4 : htonl(l)[j] \in Byte
      BY <3>1, BlockByte
    <3> HIDE DEF b
    <3>4. \A k \in 1 .. 4 * n : htonl(l)[((k - 1) % 4) + 1] \in Byte
      BY <3>2, <3>3
    <3> QED
      BY <2>2, <3>4 DEF b
  <2>4. CASE ~(xdrs.f_handy >= 4 * n)
    BY <1>1, <2>1, <2>4 DEF flexxdrmem_inline, Result
  <2>5. CASE xdrs.f_handy >= 4 * n
    <3> HIDE DEF b
    <3>1. 4 * n \in 0 .. xdrs.f_handy /\ Len(b) <= xdrs.f_handy
      BY <1>1, <2>2, <2>3, <2>5
    <3>2. ret' = TRUE
          /\ (xdrs' = Advance(xdrs, 4 * n) \/ xdrs' = Advance(StoreAt(xdrs, b), Len(b)))
      BY <2>1, <2>3, <2>5 DEF flexxdrmem_inline, Result, b
    <3>3. CASE xdrs' = Advance(xdrs, 4 * n)
      BY <1>1, <3>1, <3>2, <3>3, AdvanceInside
    <3>4. CASE xdrs' = Advance(StoreAt(xdrs, b), Len(b))
      <4>1. /\ xdrs' \in Stream(Size) /\ End(xdrs') = End(xdrs)
            /\ \A i \in 0 .. Size - 1 :
                 xdrs'.buf[i] # xdrs.buf[i] => i \in xdrs.f_private .. End(xdrs) - 1
        BY <1>1, <2>3, <3>1, <3>4, PutInside
      <4> QED
        BY <1>1, <3>2, <4>1
    <3> QED
      BY <3>2, <3>3, <3>4
  <2> QED
    BY <2>4, <2>5
<1> QED
  BY <1>2, <1>3, <1>4, <1>5, <1>6, <1>7

(* A flip restarts the stream on the whole buffer.                         *)
LEMMA FlipInside ==
  ASSUME Inv, Flip
  PROVE  /\ xdrs' \in Stream(Size) /\ ret' \in BOOLEAN
         /\ End(xdrs') = Size
         /\ \A i \in 0 .. Size - 1 : xdrs'.buf[i] # xdrs.buf[i] => i < PtrSize
<1>1. PICK op \in {FLEXXDR_ENCODE, FLEXXDR_DECODE} :
        xdrs' = Flipped(xdrs, Size, op) /\ ret' = TRUE
  BY DEF Flip
<1>2. xdrs.buf \in [0 .. Size - 1 -> Byte] /\ DOMAIN xdrs.buf = 0 .. Size - 1
  BY DEF Inv, TypeOK, Stream
<1> DEFINE nb == [i \in 0 .. Size - 1 |-> IF i < PtrSize THEN 0 ELSE xdrs.buf[i]]
<1>3. nb \in [0 .. Size - 1 -> Byte]
  <2>1. 0 \in Byte
    BY BaseAssumption DEF Byte
  <2> QED
    BY <1>2, <2>1
<1>4. xdrs' = [f_op |-> op, f_private |-> 0, f_handy |-> Size, buf |-> nb]
  BY <1>1, <1>2 DEF Flipped
<1>5. \A i \in 0 .. Size - 1 : nb[i] # xdrs.buf[i] => i < PtrSize
  OBVIOUS
<1> HIDE DEF nb
<1>6. op \in FlexxdrOps /\ 0 \in 0 .. Size /\ Size \in 0 .. Size
  BY MemAssumption DEF FlexxdrOps
<1> QED
  BY <1>1, <1>3, <1>4, <1>5, <1>6, MemAssumption DEF Stream, End

-----------------------------------------------------------------------------
(* Inv holds in every state: no order of calls to flexxdr_mem.c takes the  *)
(* stream out of its buffer.                                               *)
THEOREM Safety == Spec => []Inv
<1>1. Init => Inv
  <2> SUFFICES ASSUME Init PROVE Inv
    OBVIOUS
  <2>1. PICK g \in Byte, op \in FlexxdrOps :
          xdrs = flexxdrmem_create([i \in 0 .. Size - 1 |-> g], Size, op)
    BY DEF Init
  <2>2. xdrs \in Stream(Size) /\ xdrs.f_private = 0 /\ xdrs.f_handy = Size
    BY <2>1, MemAssumption DEF flexxdrmem_create, Stream
  <2> QED
    BY <2>2, MemAssumption DEF Inv, TypeOK, WithinBuffer, Init, End
<1>2. Inv /\ [Next]_vars => Inv'
  <2> SUFFICES ASSUME Inv, [Next]_vars PROVE Inv'
    OBVIOUS
  <2>1. CASE Flip
    <3>1. xdrs' \in Stream(Size) /\ ret' \in BOOLEAN /\ End(xdrs') = Size
      BY <2>1, FlipInside
    <3> QED
      BY <3>1, MemAssumption DEF Inv, TypeOK, WithinBuffer
  <2>2. CASE UNCHANGED vars
    BY <2>2 DEF vars, Inv, TypeOK, WithinBuffer
  <2>3. CASE PutLong \/ GetLong \/ PutBytes \/ GetBytes \/ SetPos \/ Inline
    <3>1. /\ xdrs' \in Stream(Size) /\ ret' \in BOOLEAN
          /\ End(xdrs') <= End(xdrs)
      BY <2>3, StepInside
    <3>2. End(xdrs) \in Int /\ End(xdrs') \in Int /\ End(xdrs) <= Size
      BY <3>1, MemAssumption DEF Inv, TypeOK, WithinBuffer, Stream, End
    <3> QED
      BY <3>1, <3>2, MemAssumption DEF Inv, TypeOK, WithinBuffer
  <2> QED
    BY <2>1, <2>2, <2>3 DEF Next
<1> QED
  BY <1>1, <1>2, PTL DEF Spec

(* The type invariant of the stream, for every buffer size.                *)
THEOREM TypeCorrect == Spec => []TypeOK
<1>1. Inv => TypeOK
  BY DEF Inv
<1> QED
  BY <1>1, Safety, PTL

(* The cursor and the room after it always fit in the buffer, although     *)
(* flexxdrmem_setpos computes its limit from f_private - f_handy.          *)
THEOREM StreamWithinBuffer == Spec => []WithinBuffer
<1>1. Inv => WithinBuffer
  BY DEF Inv
<1> QED
  BY <1>1, Safety, PTL

(* Every byte a call changes lies in the window that was left to it.       *)
THEOREM PutsInsideWindow == Spec => WritesInsideWindow
<1> DEFINE A == \A i \in 0 .. Size - 1 :
                  xdrs'.buf[i] # xdrs.buf[i] =>
                    \/ i \in xdrs.f_private .. End(xdrs) - 1
                    \/ Flip /\ i < PtrSize
<1>1. Inv /\ [Next]_vars => [A]_vars
  <2> SUFFICES ASSUME Inv, [Next]_vars PROVE [A]_vars
    OBVIOUS
  <2>1. CASE Flip
    BY <2>1, FlipInside
  <2>2. CASE UNCHANGED vars
    BY <2>2
  <2>3. CASE PutLong \/ GetLong \/ PutBytes \/ GetBytes \/ SetPos \/ Inline
    BY <2>3, StepInside
  <2> QED
    BY <2>1, <2>2, <2>3 DEF Next
<1> QED
  BY <1>1, Safety, PTL DEF Spec, WritesInsideWindow

(* Only a flip gives room back: the end of the window never moves out.     *)
THEOREM EndOnlyShrinks == Spec => WindowOnlyShrinks
<1>1. Inv /\ [Next]_vars => [End(xdrs') <= End(xdrs) \/ Flip]_vars
  <2> SUFFICES ASSUME Inv, [Next]_vars PROVE [End(xdrs') <= End(xdrs) \/ Flip]_vars
    OBVIOUS
  <2>1. CASE Flip
    BY <2>1
  <2>2. CASE UNCHANGED vars
    BY <2>2
  <2>3. CASE PutLong \/ GetLong \/ PutBytes \/ GetBytes \/ SetPos \/ Inline
    BY <2>3, StepInside
  <2> QED
    BY <2>1, <2>2, <2>3 DEF Next
<1> QED
  BY <1>1, Safety, PTL DEF Spec, WindowOnlyShrinks
=============================================================================
