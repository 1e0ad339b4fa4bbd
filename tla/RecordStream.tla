---------------------------- MODULE RecordStream ----------------------------
(***************************************************************************)
(* What a record-marking stream promises: one side puts items and closes   *)
(* records, the other gets the items of one record at a time, in order and *)
(* never beyond the record's end.  Buffers, fragments, headers and the     *)
(* connection do not appear.                                               *)
(***************************************************************************)
EXTENDS Integers, Sequences

CONSTANT Items

VARIABLES records,  \* the records put so far; the last one is open
          cur,      \* the record being read, 0 before the first
          off,      \* how many of its items were read
          got       \* what the last get returned

vars == <<records, cur, off, got>>

Init == records = << <<>> >> /\ cur = 0 /\ off = 0 /\ got = <<>>

Open == records[Len(records)]

(* Items are appended to the open record.                                  *)
Extends(new, old) == Len(new) >= Len(old) /\ SubSeq(new, 1, Len(old)) = old
Put == /\ Len(records') = Len(records)
       /\ \A k \in 1 .. Len(records) - 1 : records'[k] = records[k]
       /\ Extends(records'[Len(records)], Open)
       /\ \A k \in 1 .. Len(records'[Len(records)]) : records'[Len(records)][k] \in Items
       /\ UNCHANGED <<cur, off, got>>

(* Back to an earlier position of the open record.                         *)
Truncate(k) == /\ k <= Len(Open)
               /\ records' = [records EXCEPT ![Len(records)] = SubSeq(@, 1, k)]
               /\ UNCHANGED <<cur, off, got>>

Close == records' = Append(records, <<>>) /\ UNCHANGED <<cur, off, got>>

Get(n) ==
  /\ cur \in 1 .. Len(records) /\ off + n <= Len(records[cur])
  /\ got' = SubSeq(records[cur], off + 1, off + n)
  /\ off' = off + n
  /\ UNCHANGED <<records, cur>>

(* The rest of a closed record is dropped, the next one may be read.       *)
Drop == /\ cur > 0 /\ cur < Len(records)
        /\ off' = Len(records[cur]) /\ UNCHANGED <<records, cur, got>>
Skip == /\ cur < Len(records)
        /\ cur' = cur + 1 /\ off' = 0 /\ UNCHANGED <<records, got>>

Next ==
  \/ Put
  \/ \E k \in 0 .. Len(Open) : Truncate(k)
  \/ Close \/ Drop \/ Skip
  \/ \E n \in 1 .. Len(got') : Get(n)

Spec == Init /\ [][Next]_vars
=============================================================================
