------------------------------ MODULE LogQueue ------------------------------
(***************************************************************************)
(* What the log queue promises: a message enters it once, and leaves it    *)
(* once, if at all.  As long as no two of its users have met inside they   *)
(* leave it in the order in which they have entered; afterwards, in any.   *)
(***************************************************************************)
EXTENDS Naturals, Sequences, Functions

CONSTANT Messages

VARIABLES
  entered,   \* the messages that have entered, in this order
  left,      \* those of them that have left, in this order
  apart      \* its users have not met inside

vars == <<entered, left, apart>>

Init == entered = <<>> /\ left = <<>> /\ apart = TRUE

Put(m) ==
  /\ m \notin Range(entered)
  /\ entered' = Append(entered, m)
  /\ UNCHANGED <<left, apart>>

Take(m) ==
  /\ m \in Range(entered) \ Range(left)
  /\ apart => m = entered[Len(left) + 1]
  /\ left' = Append(left, m)
  /\ UNCHANGED <<entered, apart>>

Meet == apart' = FALSE /\ UNCHANGED <<entered, left>>

Next == (\E m \in Messages : Put(m) \/ Take(m)) \/ Meet

Spec == Init /\ [][Next]_vars
=============================================================================
