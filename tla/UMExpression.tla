---------------------------- MODULE UMExpression ----------------------------
(***************************************************************************)
(* What an expression of host functions promises whoever runs it: however  *)
(* often it is interrupted and continued, each host function answers once, *)
(* in the order of an evaluation without interrupts, before the result.    *)
(***************************************************************************)
EXTENDS Naturals, Sequences

VARIABLES
    order,      \* the host functions, as an uninterrupted evaluation calls them
    answered,   \* those that have answered
    finished    \* has the expression been given its result?

vars == <<order, answered, finished>>

Init ==
    /\ order \in Seq(Nat)
    /\ answered = <<>>
    /\ finished = FALSE

Answer ==
    /\ ~finished
    /\ Len(answered) < Len(order)
    /\ answered' = Append(answered, order[Len(answered) + 1])
    /\ UNCHANGED <<order, finished>>

Finish ==
    /\ ~finished
    /\ answered = order
    /\ finished' = TRUE
    /\ UNCHANGED <<order, answered>>

Next == Answer \/ Finish

Spec == Init /\ [][Next]_vars

=============================================================================
