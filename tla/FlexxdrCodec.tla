---------------------------- MODULE FlexxdrCodec ----------------------------
(***************************************************************************)
(* A writer and a reader of typed items over FLEXXDR memory streams: the   *)
(* writer encodes items until one fails, some prefix of its bytes reaches  *)
(* the reader, and the reader decodes the same types in the same order     *)
(* until one fails (src/flexrpc/flexxdr.c on src/flexrpc/flexxdr_mem.c).   *)
(***************************************************************************)
EXTENDS Flexxdr

CONSTANTS Size,       \* bytes in each side's buffer
          Items,      \* what writers encode: records [type, v]
          MaxItems,   \* bound on the items of one message
          MaxSize,    \* the maxsize given to flexxdr_bytes and flexxdr_string
          Fills       \* bytes that uninitialised memory may hold

(* What the constants must satisfy; whoever instantiates them assumes it.  *)
CodecAssumption ==
  /\ Size \in Nat /\ MaxItems \in Nat /\ MaxSize \in Nat
  /\ Size < WordMod
  /\ Fills \subseteq Byte

VARIABLES xdrs,        \* the writer's stream, then the reader's
          sent, ends,  \* items encoded whole, and the position after each
          got,         \* items decoded whole: [v, dest]
          delivered,   \* bytes that reached the reader, -1 while encoding
          stop         \* why the current side gave up, "no" while it has not

vars == <<xdrs, sent, ends, got, delivered, stop>>

(* One item through its primitive.                                         *)
XdrItem(s, type, v, fill) ==
  CASE type = "int"    -> flexxdr_int(s, v)
    [] type = "enum"   -> flexxdr_enum(s, v)
    [] type = "long"   -> flexxdr_long(s, v)
    [] type = "u_long" -> flexxdr_u_long(s, v)
    [] type = "u_int"  -> flexxdr_u_int(s, v)
    [] type = "char"   -> flexxdr_char(s, v)
    [] type = "string" -> flexxdr_string(s, v, MaxSize, fill)
    [] type = "bytes"  ->
         LET r == flexxdr_bytes(s, v, Len(v), MaxSize, fill) IN [r EXCEPT !.v = @[1]]

Init == /\ \E g \in Fills :
             xdrs = flexxdrmem_create([i \in 0 .. Size - 1 |-> g], Size, FLEXXDR_ENCODE)
        /\ sent = << >> /\ ends = << >> /\ got = << >>
        /\ delivered = -1 /\ stop = "no"

Encode(item) ==
  /\ delivered = -1 /\ stop = "no" /\ Len(sent) < MaxItems
  /\ LET r == XdrItem(xdrs, item.type, item.v, 0)
     IN  /\ xdrs' = r.s
         /\ IF r.ok
            THEN /\ sent' = Append(sent, item)
                 /\ ends' = Append(ends, flexxdrmem_getpos(r.s))
                 /\ stop' = "no"
            ELSE UNCHANGED <<sent, ends>> /\ stop' = "encode"
  /\ UNCHANGED <<got, delivered>>

(* The reader's buffer holds n of the writer's bytes and whatever else.    *)
Deliver(n, g) ==
  /\ delivered = -1
  /\ delivered' = n
  /\ xdrs' = flexxdrmem_create([i \in 0 .. Size - 1 |-> IF i < n THEN xdrs.buf[i] ELSE g],
                               n, FLEXXDR_DECODE)
  /\ stop' = "no"
  /\ UNCHANGED <<sent, ends, got>>

(* What the reader may hand to the primitive: a scalar, a NULL pointer or  *)
(* a block of its own.                                                     *)
Dests(type) ==
  IF type \in {"bytes", "string"}
  THEN {NULLPTR} \cup {[i \in 1 .. MaxSize + 1 |-> g] : g \in Fills}
  ELSE {0}

(* fill is what mem_alloc's block holds, -1 when it fails.                 *)
Decode(fill) ==
  /\ delivered >= 0 /\ stop = "no" /\ Len(got) < Len(sent)
  /\ LET type == sent[Len(got) + 1].type
     IN  \E dest \in Dests(type) :
           LET r == XdrItem(xdrs, type, dest, fill)
           IN  /\ xdrs' = r.s
               /\ got' = IF r.ok THEN Append(got, [v |-> r.v, dest |-> dest]) ELSE got
               /\ stop' = IF r.ok THEN "no" ELSE IF fill = -1 THEN "memory" ELSE "decode"
  /\ UNCHANGED <<sent, ends, delivered>>

Next == \/ \E item \in Items : Encode(item)
        \/ \E n \in 0 .. xdrs.f_private, g \in Fills : Deliver(n, g)
        \/ \E fill \in Fills \cup {-1} : Decode(fill)

Spec == Init /\ [][Next]_vars

-----------------------------------------------------------------------------
(* The values a variable of each C type can hold.                          *)
CType(type) ==
  CASE type \in {"int", "enum", "long"} -> - (WordMod \div 2) .. WordMod \div 2 - 1
    [] type \in {"u_int", "u_long"}     -> 0 .. WordMod - 1
    [] type = "char"                    -> - (Base \div 2) .. Base \div 2 - 1
    [] type \in {"bytes", "string"}     -> Seq(Byte)

(* A decoded value fits its C type, and the stream its buffer.             *)
TypeOK == /\ xdrs \in Stream(Size)
          /\ sent \in Seq(Items) /\ ends \in Seq(0 .. Size)
          /\ \A i \in DOMAIN got : got[i].v \in CType(sent[i].type)
          /\ delivered \in -1 .. Size
          /\ stop \in {"no", "encode", "decode", "memory"}

(* Same value, or same bytes at the start of the reader's block.           *)
SameValue(item, g) ==
  CASE item.type = "bytes"  -> SubSeq(g.v, 1, Len(item.v)) = item.v
    [] item.type = "string" ->
         SubSeq(g.v, 1, strlen(item.v)) = SubSeq(item.v, 1, strlen(item.v))
    [] OTHER -> g.v = item.v

(* Whatever the primitives report as decoded is what was encoded: the sign *)
(* extension of flexxdrmem_getlong is undone by the unsigned primitives,   *)
(* values that do not fit 32 bits are refused on encoding, and an item     *)
(* that fails half-way (flexxdr_string writes its length first) never      *)
(* damages the items before it.                                            *)
DecodedAsSent == \A i \in DOMAIN got : SameValue(sent[i], got[i])

(* A reader whose bytes were cut short decodes exactly the items that      *)
(* arrived whole, padding included: none is made up from bytes that never  *)
(* came, and none that came is refused unless malloc failed.               *)
DecodesWhatArrived ==
  /\ \A i \in DOMAIN got : ends[i] <= delivered
  /\ stop = "decode" => ends[Len(got) + 1] > delivered

(* Reader and writer agree on where each item ends, and every item ends on *)
(* a unit boundary, as the inline macros of flexxdr.h require.             *)
InStep ==
  stop = "no" =>
    LET done == IF delivered = -1 THEN Len(sent) ELSE Len(got)
    IN  /\ flexxdrmem_getpos(xdrs) = IF done = 0 THEN 0 ELSE ends[done]
        /\ flexxdrmem_getpos(xdrs) % BYTES_PER_FLEXXDR_UNIT = 0

(* The comment on flexxdr_bytes (src/flexrpc/flexxdr.c:259): when *cpp is  *)
(* NULL, maxsize bytes are allocated.                                      *)
AllocatesMaxsize ==
  \A i \in DOMAIN got :
    sent[i].type = "bytes" /\ got[i].dest = NULLPTR /\ got[i].v # NULLPTR
      => Len(got[i].v) = MaxSize
=============================================================================
