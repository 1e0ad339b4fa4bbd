------------------------------ MODULE XdrCodec -------------------------------
(***************************************************************************)
(* The XDR filters of libtirpc (xdr.c, xdr_array.c, xdr_reference.c,       *)
(* rpcb_prot.c) over memory streams (xdr_mem.c): a value is encoded, the   *)
(* bytes travel, are cut short or altered, and are decoded into a cleared  *)
(* object that xdr_free then releases.                                     *)
(*                                                                         *)
(* A type is a record with its kind k.  A pointer is a sequence: <<>> is   *)
(* NULL, <<x>> points to x, Wild is what memory held before.  A linked     *)
(* list is the sequence of its nodes.  A byte has B values and a unit U    *)
(* bytes; the host's long has twice the bits of a unit.                    *)
(***************************************************************************)
EXTENDS Integers, Sequences, SequencesExt

CONSTANTS
  B, U,            \* values of a byte, bytes of an XDR unit
  RPC_MAXDATASIZE,
  Samples,         \* sequence of [ty, val]: what is encoded
  Rooms,           \* sizes of the buffer that is encoded into
  Words            \* what a unit of the message may be altered to

(* What the constants must satisfy; whoever instantiates them assumes it.  *)
CodecAssumption ==
  /\ B \in Nat /\ B > 1 /\ U \in Nat /\ U > 0 /\ U % 4 = 0
  /\ RPC_MAXDATASIZE < B^U /\ Words \subseteq 0 .. B^U - 1 /\ Rooms \subseteq Nat

VARIABLES
  i,        \* the sample
  room,     \* size of the buffer encoded into
  st,       \* "new", "refused", "sent", "arrived", "decoded", "freed", "done"
  how,      \* how the message travelled: "whole", "cut", "altered"
  size,     \* what xdr_sizeof said
  wire,     \* the bytes
  ok, pos,  \* result of the last filter, position of the stream
  live,     \* heap blocks allocated and not freed
  bad,      \* memory touched that was not the filter's to touch
  obj       \* the object decoded into

vars == <<i, room, st, how, size, wire, ok, pos, live, bad, obj>>

W == B^U                              \* values of a unit; UINT_MAX is W - 1
Null == <<>>
Wild == <<0, 0>>
Signed(n, m) == IF n % m < m \div 2 THEN n % m ELSE (n % m) - m
Times(n, x) == [j \in 1 .. n |-> x]

(* The types of the portmapper's and rpcbind's lists.                      *)
num(n) == [k |-> "num", n |-> n]
string(max) == [k |-> "string", max |-> max]
struct(of) == [k |-> "struct", of |-> of]
list(of, copied) == [k |-> "list", of |-> of, copied |-> copied]
rpcb == struct(Times(2, num("u_int32")) \o Times(3, string(RPC_MAXDATASIZE)))
rpcb_entry == struct(Times(2, string(RPC_MAXDATASIZE)) \o <<num("u_int32")>> \o Times(2, string(RPC_MAXDATASIZE)))
pmap == struct(Times(4, num("u_long")))
rpcblist_ptr == list(rpcb, TRUE)
rpcb_entry_list_ptr == list(rpcb_entry, TRUE)
pmaplist == list(pmap, FALSE)

-----------------------------------------------------------------------------
(* What each filter of a number makes of the unit it decodes.  Each one    *)
(* encodes the value modulo W, and releases nothing.                       *)
xdr_int(w) == Signed(w, W)
xdr_u_int(w) == w
xdr_long(w) == w                      \* ntohl is unsigned, a long is wider
xdr_u_long(w) == w
xdr_int32_t(w) == Signed(w, W)
xdr_u_int32_t(w) == w
xdr_short(w) == Signed(w, B^(U \div 2))
xdr_u_short(w) == w % B^(U \div 2)
xdr_int16_t(w) == Signed(w, B^(U \div 2))
xdr_u_int16_t(w) == w % B^(U \div 2)
xdr_int8_t(w) == Signed(w, B^(U \div 4))
xdr_u_int8_t(w) == w % B^(U \div 4)
xdr_char(w) == Signed(xdr_int(w), B^(U \div 4))
xdr_u_char(w) == xdr_u_int(w) % B^(U \div 4)
xdr_bool(w) == IF w = 0 THEN 0 ELSE 1
xdr_enum(w) == xdr_int(w)
Number(n, w) ==
  CASE n = "int" -> xdr_int(w) [] n = "u_int" -> xdr_u_int(w) [] n = "long" -> xdr_long(w) [] n = "u_long" -> xdr_u_long(w)
    [] n = "int32" -> xdr_int32_t(w) [] n = "u_int32" -> xdr_u_int32_t(w) [] n = "short" -> xdr_short(w)
    [] n = "u_short" -> xdr_u_short(w) [] n = "int16" -> xdr_int16_t(w) [] n = "u_int16" -> xdr_u_int16_t(w)
    [] n = "int8" -> xdr_int8_t(w) [] n = "u_int8" -> xdr_u_int8_t(w) [] n = "char" -> xdr_char(w)
    [] n = "u_char" -> xdr_u_char(w) [] n = "bool" -> xdr_bool(w) [] n = "enum" -> xdr_enum(w)

xdr_int64_t(hi, lo) == Signed(hi * W + lo, W^2)
xdr_u_int64_t(hi, lo) == hi * W + lo

rndup(n) == IF n % U > 0 THEN U - (n % U) ELSE 0
(* The refusals on the length or count n, and the room mem_alloc then gets *)
(* for it.                                                                 *)
StringRefused(n, max) == n > max \/ (n + 1) % W = 0
ArrayRefused(c, max, elsize) == c > max \/ (W - 1) \div elsize < c
ArrayShort(c, elsize) == (c * elsize) % W < c * elsize
StringShort(n) == (n + 1) % W < n + 1
(* The arm that xdr_union runs: Null if there is none.                     *)
arm(ty, dscm) ==
  LET hits == {j \in DOMAIN ty.choices : ty.choices[j].value = dscm} IN
  IF hits = {} THEN ty.dfault ELSE <<ty.choices[CHOOSE j \in hits : \A l \in hits : j <= l].proc>>

-----------------------------------------------------------------------------
(* XDR_ENCODE.  A stream is the bytes put so far, the room there is, and   *)
(* whether every put had room; a filter does nothing after one that failed.*)
FromWord(w) == [j \in 1 .. U |-> (w \div B^(U - j)) % B]
XDR_PUTBYTES(s, b) == IF s.ok /\ Len(s.out) + Len(b) <= s.room THEN [s EXCEPT !.out = @ \o b] ELSE [s EXCEPT !.ok = FALSE]
XDR_PUTLONG(s, n) == XDR_PUTBYTES(s, FromWord(n % W))
PutRefused(s) == [s EXCEPT !.ok = FALSE]
PutOpaque(s, b) == IF b = <<>> THEN s ELSE XDR_PUTBYTES(XDR_PUTBYTES(s, b), Times(rndup(Len(b)), 0))

PutBytes(s, max, v) ==
  LET sz == XDR_PUTLONG(s, v.len) IN
  IF v.len > max THEN PutRefused(sz) ELSE IF v.len = 0 THEN sz ELSE PutOpaque(sz, v.p[1])
PutNetbuf(s, v) ==
  LET sz == XDR_PUTLONG(s, v.maxlen) IN IF v.maxlen > RPC_MAXDATASIZE THEN PutRefused(sz) ELSE PutBytes(sz, v.maxlen, v)
PutString(s, max, p) ==
  IF p = Null THEN PutRefused(s)
  ELSE LET sz == XDR_PUTLONG(s, Len(p[1])) IN
       IF StringRefused(Len(p[1]), max) THEN PutRefused(sz) ELSE PutOpaque(sz, p[1])

RECURSIVE Put(_, _, _)
RECURSIVE PutAll(_, _, _)
(* The fields of a struct or the elements of an array, in order.           *)
PutAll(s, tys, vs) == IF vs = <<>> \/ ~s.ok THEN s ELSE PutAll(Put(s, Head(tys), Head(vs)), Tail(tys), Tail(vs))
PutArray(s, ty, v) ==
  LET sz == XDR_PUTLONG(s, v.len) IN
  IF ArrayRefused(v.len, ty.max, ty.elsize) THEN PutRefused(sz)
  ELSE IF v.len = 0 THEN sz ELSE PutAll(sz, Times(v.len, ty.of), v.p[1])
PutUnion(s, ty, v) ==
  LET a == arm(ty, v.d)
      sd == XDR_PUTLONG(s, v.d) IN
  IF a = Null THEN PutRefused(sd) ELSE Put(sd, a[1], v.u[1])
RECURSIVE PutList(_, _, _)
PutList(s, of, nodes) ==
  IF nodes = <<>> THEN XDR_PUTLONG(s, 0) ELSE PutList(Put(XDR_PUTLONG(s, 1), of, Head(nodes)), of, Tail(nodes))
Put(s, ty, v) ==
  CASE ty.k = "void" -> s
    [] ty.k = "num" -> XDR_PUTLONG(s, v)
    [] ty.k \in {"hyper", "u_hyper"} -> XDR_PUTLONG(XDR_PUTLONG(s, (v % W^2) \div W), v)
    [] ty.k = "opaque" -> PutOpaque(s, v)
    [] ty.k = "bytes" -> PutBytes(s, ty.max, v)
    [] ty.k = "string" -> PutString(s, ty.max, v)
    [] ty.k = "array" -> PutArray(s, ty, v)
    [] ty.k = "struct" -> PutAll(s, ty.of, v)
    [] ty.k = "union" -> PutUnion(s, ty, v)
    [] ty.k = "reference" -> Put(s, ty.of, v[1])
    [] ty.k = "pointer" -> IF v = Null THEN XDR_PUTLONG(s, 0) ELSE Put(XDR_PUTLONG(s, 1), ty.of, v[1])
    [] ty.k = "list" -> PutList(s, ty.of, v)
    [] ty.k = "netbuf" -> PutNetbuf(s, v)

(* The same filters over operations that count and store nothing.          *)
xdr_sizeof(ty, v) == LET s == Put([ok |-> TRUE, out |-> <<>>, room |-> W^2], ty, v) IN IF s.ok THEN Len(s.out) ELSE 0

-----------------------------------------------------------------------------
(* XDR_DECODE.  The state of a decoding: ok and pos of the stream, live    *)
(* blocks, whether memory outside of them was written, and the object.     *)
ToWord(b) == FoldLeft(LAMBDA a, x : a * B + x, 0, b)
With(d, o) == [d EXCEPT !.obj = o]
GetRefused(d, o) == [d EXCEPT !.ok = FALSE, !.obj = o]
XDR_GETBYTES(msg, d, n) ==
  IF d.pos + n > Len(msg) THEN [d EXCEPT !.ok = FALSE]
  ELSE [d EXCEPT !.pos = @ + n, !.obj = SubSeq(msg, d.pos + 1, d.pos + n)]
(* The unit, as the object; the object stays o if the message is too short.*)
XDR_GETLONG(msg, d, o) ==
  LET g == XDR_GETBYTES(msg, d, U) IN IF g.ok THEN With(g, ToWord(g.obj)) ELSE With(g, o)
(* What memory contains when a filter has allocated it: all is cleared.    *)
RECURSIVE Zero(_)
Zero(ty) ==
  CASE ty.k \in {"void", "num", "hyper", "u_hyper"} -> 0
    [] ty.k = "opaque" -> Times(ty.cnt, 0)
    [] ty.k \in {"bytes", "array"} -> [len |-> 0, p |-> Null]
    [] ty.k = "netbuf" -> [maxlen |-> 0, len |-> 0, p |-> Null]
    [] ty.k = "struct" -> [j \in 1 .. Len(ty.of) |-> Zero(ty.of[j])]
    [] ty.k = "union" -> [d |-> 0, u |-> Null]
    [] ty.k \in {"string", "reference", "pointer", "list"} -> Null
newobj(ty) == Zero(ty)
(* A null pointer gets a new block, any other is taken for the caller's.   *)
Alloc(d, p) == IF p = Null THEN [d EXCEPT !.live = @ + 1] ELSE [d EXCEPT !.over = TRUE]
Unalloc_forgets(d, p) == d
Unalloc(d, p) == IF p = Null THEN [d EXCEPT !.live = @ - 1] ELSE d

GetOpaque(msg, d, n) ==
  LET g == XDR_GETBYTES(msg, d, n) IN
  IF n = 0 THEN With(d, <<>>) ELSE IF ~g.ok THEN g ELSE With(XDR_GETBYTES(msg, g, rndup(n)), g.obj)
(* The bytes behind pointer p: as the object the pointer afterwards.       *)
GetBehind(msg, d, p, n) ==
  LET g == GetOpaque(msg, Alloc(d, p), n) IN IF g.ok THEN With(g, <<g.obj>>) ELSE With(Unalloc(g, p), p)
GetBytes(msg, d, max, o) ==
  LET n == XDR_GETLONG(msg, d, 0) IN
  IF ~n.ok THEN With(n, o)
  ELSE IF n.obj > max THEN GetRefused(n, [o EXCEPT !.len = n.obj])
  ELSE IF n.obj = 0 THEN With(n, [o EXCEPT !.len = 0])
  ELSE LET g == GetBehind(msg, n, o.p, n.obj) IN With(g, [o EXCEPT !.len = n.obj, !.p = g.obj])
GetString(msg, d, max, p) ==
  LET n == XDR_GETLONG(msg, d, 0) IN
  IF ~n.ok \/ StringRefused(n.obj, max) THEN GetRefused(n, p)
  ELSE GetBehind(msg, [n EXCEPT !.over = @ \/ StringShort(n.obj)], p, n.obj)

RECURSIVE Get(_, _, _, _)
RECURSIVE GetAll(_, _, _, _, _)
GetAll(msg, d, tys, os, j) ==
  IF j > Len(tys) THEN With(d, os)
  ELSE LET g == Get(msg, d, tys[j], os[j]) IN
       IF g.ok THEN GetAll(msg, g, tys, [os EXCEPT ![j] = g.obj], j + 1) ELSE With(g, [os EXCEPT ![j] = g.obj])
GetArray(msg, d, ty, o) ==
  LET n == XDR_GETLONG(msg, d, 0)
      c == n.obj IN
  IF ~n.ok THEN With(n, o)
  ELSE IF ArrayRefused(c, ty.max, ty.elsize) THEN GetRefused(n, [o EXCEPT !.len = c])
  ELSE IF c = 0 THEN With(n, [o EXCEPT !.len = 0])
  ELSE LET a == [Alloc(n, o.p) EXCEPT !.over = @ \/ ArrayShort(c, ty.elsize)]
           g == GetAll(msg, a, Times(c, ty.of), Times(c, newobj(ty.of)), 1) IN With(g, [len |-> c, p |-> <<g.obj>>])
GetReference(msg, d, of, p) ==
  LET g == Get(msg, Alloc(d, p), of, newobj(of)) IN With(g, <<g.obj>>)
GetPointer(msg, d, of, p) ==
  LET n == XDR_GETLONG(msg, d, 0) IN
  IF ~n.ok THEN With(n, p) ELSE IF xdr_bool(n.obj) = 0 THEN With(n, Null) ELSE GetReference(msg, n, of, p)
GetUnion(msg, d, ty, o) ==
  LET n == XDR_GETLONG(msg, d, 0)
      dscm == xdr_enum(n.obj)
      a == arm(ty, dscm) IN
  IF ~n.ok THEN With(n, o)
  ELSE IF a = Null THEN GetRefused(n, [o EXCEPT !.d = dscm])
  ELSE LET g == Get(msg, n, a[1], Zero(a[1])) IN With(g, [d |-> dscm, u |-> <<g.obj>>])
(* One node after the other: the union arms of the recursion, in place.    *)
RECURSIVE GetList(_, _, _, _)
GetList(msg, d, of, nodes) ==
  LET n == XDR_GETLONG(msg, d, 0) IN
  IF ~n.ok \/ xdr_bool(n.obj) = 0 THEN With(n, nodes)
  ELSE LET g == GetReference(msg, n, of, Null)
           all == nodes \o g.obj IN IF g.ok THEN GetList(msg, g, of, all) ELSE With(g, all)
GetNetbuf(msg, d, o) ==
  LET n == XDR_GETLONG(msg, d, 0) IN
  IF ~n.ok THEN With(n, o)
  ELSE IF n.obj > RPC_MAXDATASIZE THEN GetRefused(n, [o EXCEPT !.maxlen = n.obj])
  ELSE GetBytes(msg, n, n.obj, [o EXCEPT !.maxlen = n.obj])
GetHyper(msg, d, k, o) ==
  LET hi == XDR_GETLONG(msg, d, 0)
      lo == XDR_GETLONG(msg, hi, 0) IN
  IF ~hi.ok \/ ~lo.ok THEN [(IF hi.ok THEN lo ELSE hi) EXCEPT !.obj = o]
  ELSE With(lo, IF k = "hyper" THEN xdr_int64_t(hi.obj, lo.obj) ELSE xdr_u_int64_t(hi.obj, lo.obj))
Get(msg, d, ty, o) ==
  CASE ty.k = "void" -> With(d, o)
    [] ty.k = "num" -> LET n == XDR_GETLONG(msg, d, 0) IN With(n, IF n.ok THEN Number(ty.n, n.obj) ELSE o)
    [] ty.k \in {"hyper", "u_hyper"} -> GetHyper(msg, d, ty.k, o)
    [] ty.k = "opaque" -> GetOpaque(msg, With(d, o), ty.cnt)
    [] ty.k = "bytes" -> GetBytes(msg, d, ty.max, o)
    [] ty.k = "string" -> GetString(msg, d, ty.max, o)
    [] ty.k = "array" -> GetArray(msg, d, ty, o)
    [] ty.k = "struct" -> GetAll(msg, d, ty.of, o, 1)
    [] ty.k = "union" -> GetUnion(msg, d, ty, o)
    [] ty.k = "reference" -> GetReference(msg, d, ty.of, o)
    [] ty.k = "pointer" -> GetPointer(msg, d, ty.of, o)
    [] ty.k = "list" -> GetList(msg, d, ty.of, o)
    [] ty.k = "netbuf" -> GetNetbuf(msg, d, o)

-----------------------------------------------------------------------------
(* XDR_FREE.  The streams are not touched: live blocks, memory read or     *)
(* released that was not a live block, the object, and the result.         *)
Freed(f, p) == IF p = Wild THEN [f EXCEPT !.bad = TRUE, !.obj = Null] ELSE [f EXCEPT !.live = @ - 1, !.obj = Null]
FreeString(f, max, p) ==
  IF p = Null THEN With(f, p) ELSE IF StringRefused(Len(p[1]), max) THEN [f EXCEPT !.ok = FALSE, !.obj = p] ELSE Freed(f, p)
FreeBytes(f, o) == IF o.p = Null THEN With(f, o) ELSE With(Freed(f, o.p), [o EXCEPT !.p = Null])

RECURSIVE Free(_, _, _)
RECURSIVE FreeAll(_, _, _, _)
FreeAll(f, tys, os, j) ==
  IF j > Len(tys) THEN With(f, os)
  ELSE LET r == Free(f, tys[j], os[j])
           rest == [os EXCEPT ![j] = r.obj] IN IF r.ok THEN FreeAll(r, tys, rest, j + 1) ELSE With(r, rest)
(* The block of the elements is released even if one of them failed.       *)
FreeArray(f, ty, o) ==
  IF o.p = Null THEN With(f, o)
  ELSE With(Freed(FreeAll(f, Times(o.len, ty.of), o.p[1], 1), o.p), [o EXCEPT !.p = Null])
FreeReference(f, of, p) == IF p = Null THEN With(f, p) ELSE Freed(Free(f, of, p[1]), p)
(* The object of an arm in memory of a union that may still be cleared.    *)
armobj(ty, o) == IF o.u = Null THEN Zero(ty) ELSE o.u[1]
FreeUnion(f, ty, o) ==
  LET a == arm(ty, o.d) IN
  IF a = Null THEN [f EXCEPT !.ok = FALSE, !.obj = o]
  ELSE LET r == Free(f, a[1], armobj(a[1], o)) IN With(r, [o EXCEPT !.u = <<r.obj>>])
(* The successor of a node is copied before the node is released, or only  *)
(* its address is kept and read afterwards (xdr_pmaplist).                 *)
RECURSIVE FreeList(_, _, _)
FreeList(f, ty, nodes) ==
  IF nodes = <<>> THEN With(f, nodes)
  ELSE LET r == FreeReference(f, ty.of, <<Head(nodes)>>)
           touched == [r EXCEPT !.bad = @ \/ ~ty.copied] IN
       IF r.ok THEN FreeList(touched, ty, Tail(nodes)) ELSE With(r, <<>>)
Free(f, ty, o) ==
  CASE ty.k \in {"void", "num", "hyper", "u_hyper", "opaque"} -> With(f, o)
    [] ty.k = "bytes" -> FreeBytes(f, o)
    [] ty.k = "string" -> FreeString(f, ty.max, o)
    [] ty.k = "array" -> FreeArray(f, ty, o)
    [] ty.k = "struct" -> FreeAll(f, ty.of, o, 1)
    [] ty.k = "union" -> FreeUnion(f, ty, o)
    [] ty.k \in {"reference", "pointer"} -> FreeReference(f, ty.of, o)
    [] ty.k = "list" -> FreeList(f, ty, o)
    [] ty.k = "netbuf" -> IF o.maxlen > RPC_MAXDATASIZE THEN [f EXCEPT !.ok = FALSE, !.obj = o] ELSE FreeBytes(f, o)

-----------------------------------------------------------------------------
ty == Samples[i].ty
val == Samples[i].val

Init ==
  /\ i \in DOMAIN Samples /\ room \in Rooms
  /\ st = "new" /\ how = "whole" /\ size = 0 /\ wire = <<>> /\ ok = TRUE /\ pos = 0
  /\ live = 0 /\ bad = FALSE /\ obj = Zero(Samples[i].ty)

(* The application encodes the value, and asks what room it will need.     *)
Encode ==
  /\ st = "new"
  /\ LET s == Put([ok |-> TRUE, out |-> <<>>, room |-> room], ty, val) IN
     /\ wire' = s.out /\ ok' = s.ok /\ st' = IF s.ok THEN "sent" ELSE "refused"
  /\ size' = xdr_sizeof(ty, val)
  /\ UNCHANGED <<i, room, how, pos, live, bad, obj>>

(* What arrives: everything, only the beginning, or with one unit altered. *)
Travel(msg, h) ==
  /\ st = "sent" /\ st' = "arrived" /\ wire' = msg /\ how' = h
  /\ UNCHANGED <<i, room, size, ok, pos, live, bad, obj>>
Deliver == Travel(wire, "whole")
Truncate == \E n \in 0 .. Len(wire) - 1 : Travel(SubSeq(wire, 1, n), "cut")
Alter ==
  \E n \in 0 .. (Len(wire) \div U) - 1, w \in Words :
    LET new == SubSeq(wire, 1, n * U) \o FromWord(w) \o SubSeq(wire, (n + 1) * U + 1, Len(wire)) IN
    new /= wire /\ Travel(new, "altered")

Decode ==
  /\ st = "arrived" /\ st' = "decoded"
  /\ LET d == Get(wire, [ok |-> TRUE, pos |-> 0, live |-> live, over |-> bad, obj |-> 0], ty, obj) IN
     ok' = d.ok /\ pos' = d.pos /\ live' = d.live /\ bad' = d.over /\ obj' = d.obj
  /\ UNCHANGED <<i, room, how, size, wire>>

(* xdr_free, whether or not the decoding succeeded, and once more.         *)
xdr_free ==
  /\ st \in {"decoded", "freed"} /\ st' = IF st = "decoded" THEN "freed" ELSE "done"
  /\ LET f == Free([ok |-> TRUE, live |-> live, bad |-> bad, obj |-> 0], ty, obj) IN
     live' = f.live /\ bad' = f.bad /\ obj' = f.obj
  /\ UNCHANGED <<i, room, how, size, wire, ok, pos>>

Next == Encode \/ Deliver \/ Truncate \/ Alter \/ Decode \/ xdr_free
Spec == Init /\ [][Next]_vars

-----------------------------------------------------------------------------
(* Reference definitions: the size of a value by the XDR standard, and the *)
(* blocks that an object's pointers lead to.                               *)
Units(n) == ((n + U - 1) \div U) * U
Sum(s) == FoldLeft(LAMBDA a, x : a + x, 0, s)
RECURSIVE WireSize(_, _)
WireSize(t, v) ==
  CASE t.k = "void" -> 0
    [] t.k = "num" -> U
    [] t.k \in {"hyper", "u_hyper"} -> 2 * U
    [] t.k = "opaque" -> Units(t.cnt)
    [] t.k = "bytes" -> U + Units(v.len)
    [] t.k = "netbuf" -> 2 * U + Units(v.len)
    [] t.k = "string" -> U + Units(Len(v[1]))
    [] t.k = "struct" -> Sum([j \in 1 .. Len(v) |-> WireSize(t.of[j], v[j])])
    [] t.k = "array" -> U + (IF v.p = Null THEN 0 ELSE Sum([j \in 1 .. v.len |-> WireSize(t.of, v.p[1][j])]))
    [] t.k = "union" -> U + WireSize(arm(t, v.d)[1], v.u[1])
    [] t.k = "reference" -> WireSize(t.of, v[1])
    [] t.k = "pointer" -> U + Sum([j \in 1 .. Len(v) |-> WireSize(t.of, v[j])])
    [] t.k = "list" -> U + Sum([j \in 1 .. Len(v) |-> U + WireSize(t.of, v[j])])
RECURSIVE BlocksOf(_, _)
BlocksOf(t, o) ==
  CASE t.k \in {"void", "num", "hyper", "u_hyper", "opaque"} -> 0
    [] t.k \in {"bytes", "netbuf"} -> Len(o.p)
    [] t.k = "string" -> Len(o)
    [] t.k = "struct" -> Sum([j \in 1 .. Len(o) |-> BlocksOf(t.of[j], o[j])])
    [] t.k = "array" -> IF o.p = Null THEN 0 ELSE 1 + Sum([j \in 1 .. Len(o.p[1]) |-> BlocksOf(t.of, o.p[1][j])])
    [] t.k = "union" -> IF o.u = Null THEN 0 ELSE BlocksOf(arm(t, o.d)[1], o.u[1])
    [] t.k \in {"reference", "pointer", "list"} -> Sum([j \in 1 .. Len(o) |-> 1 + BlocksOf(t.of, o[j])])

(* The variables stay within their types; the position stays in the bytes  *)
(* that arrived, and at no time are more blocks freed than were allocated. *)
TypeOK ==
  /\ st \in {"new", "refused", "sent", "arrived", "decoded", "freed", "done"} /\ how \in {"whole", "cut", "altered"}
  /\ ok \in BOOLEAN /\ bad \in BOOLEAN /\ size \in Nat /\ Len(wire) <= room
  /\ live \in Nat /\ pos \in 0 .. Len(wire)

(* Encoding and decoding agree: a message that arrives whole decodes, to   *)
(* the value that was sent, and the filter reads all of it and no more, so *)
(* that what follows in the stream is found.                               *)
DecodedAsSent == st = "decoded" /\ how = "whole" => ok /\ obj = val /\ pos = Len(wire)

(* No value is made up from a message that lacks its end, be it only       *)
(* padding: the filter reports failure.                                    *)
ShortFails == st = "decoded" /\ how = "cut" => ~ok

(* xdr_sizeof is what the standard says the value takes, and the room the  *)
(* encoder needs and uses: with less it refuses.                           *)
SizeofExact ==
  /\ st = "sent" => size = WireSize(ty, val) /\ size = Len(wire)
  /\ st \in {"sent", "refused"} /\ size > 0 => (st = "sent" <=> size <= room)

(* Whatever arrived, every block the decoder allocated is reachable from   *)
(* the object, on its error paths too, where it gave up half way.          *)
NothingLost == st = "decoded" => live = BlocksOf(ty, obj)

(* xdr_free releases all that decoding allocated, after a failed decoding  *)
(* too, and a second one finds nothing left to release.                    *)
AllReleased == st \in {"freed", "done"} => live = 0 /\ BlocksOf(ty, obj) = 0

(* No filter writes beyond the block it allocated, follows a pointer that  *)
(* nobody set, or reads a block after it was released, whatever lengths    *)
(* and counts the message claims.                                          *)
InBounds == ~bad
=============================================================================
