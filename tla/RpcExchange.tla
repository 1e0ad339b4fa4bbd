---------------------------- MODULE RpcExchange ----------------------------
(***************************************************************************)
(* What one remote call of printmessage promises: a client issues a call,  *)
(* the server executes it at most once on the arguments that were issued,  *)
(* and the client returns with the answer to its own call; or no server is *)
(* there and the call is refused before it is issued.                      *)
(*                                                                         *)
(* Decoded strings may be longer than the ones that were sent, but start   *)
(* with them (flexxdr_string stores no terminator).                        *)
(***************************************************************************)
EXTENDS Integers, Sequences

CONSTANT Calls   \* what clients issue: [xid, name, title]

VARIABLES issued,     \* <<>> or the call
          executed,   \* <<>> or <<what the server got>>
          outcome     \* <<>> or <<what the client got>>

vars == <<issued, executed, outcome>>

StartsWith(b, s) == Len(b) >= Len(s) /\ SubSeq(b, 1, Len(s)) = s

Init == issued = << >> /\ executed = << >> /\ outcome = << >>

Issue == /\ issued = << >> /\ outcome = << >>
         /\ issued' \in Calls
         /\ UNCHANGED <<executed, outcome>>

Refuse == /\ issued = << >> /\ outcome = << >>
          /\ outcome' = << "refused" >>
          /\ UNCHANGED <<issued, executed>>

Execute == /\ issued # << >> /\ executed = << >> /\ outcome = << >>
           /\ Len(executed') = 1
           /\ executed'[1].xid = issued.xid
           /\ StartsWith(executed'[1].name, issued.name)
           /\ StartsWith(executed'[1].title, issued.title)
           /\ UNCHANGED <<issued, outcome>>

Return == /\ executed # << >> /\ outcome = << >>
          /\ Len(outcome') = 1
          /\ outcome'[1].ok
          /\ outcome'[1].xid = issued.xid
          /\ outcome'[1].result = 1
          /\ StartsWith(outcome'[1].name, executed[1].name)
          /\ UNCHANGED <<issued, executed>>

Next == Issue \/ Refuse \/ Execute \/ Return

Spec == Init /\ [][Next]_vars
=============================================================================
