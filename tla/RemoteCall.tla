------------------------------ MODULE RemoteCall -----------------------------
(***************************************************************************)
(* What a client of datagram RPC may rely on: calls are made one after     *)
(* another; a call that was made may be executed any number of times, even *)
(* after it returned; a call that returns success was executed.            *)
(***************************************************************************)
EXTENDS Integers

CONSTANT Limit     \* calls made at most

VARIABLES made, pending, outcome, times

Init == made = 0 /\ pending = FALSE /\ outcome = "none" /\ times = [c \in 1 .. Limit |-> 0]

Start == /\ ~pending /\ made < Limit
         /\ made' = made + 1 /\ pending' = TRUE /\ outcome' = "none" /\ UNCHANGED times

Execute == \E c \in 1 .. made : /\ times' = [times EXCEPT ![c] = @ + 1]
                                /\ UNCHANGED <<made, pending, outcome>>

Return == /\ pending /\ pending' = FALSE
          /\ \/ outcome' = "failure"
             \/ outcome' = "success" /\ times[made] > 0
          /\ UNCHANGED <<made, times>>

Next == Start \/ Execute \/ Return
Spec == Init /\ [][Next]_<<made, pending, outcome, times>>
=============================================================================
