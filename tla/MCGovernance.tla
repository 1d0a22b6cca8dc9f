---------------------------- MODULE MCGovernance ----------------------------
(***************************************************************************)
(* Values of the constants of Governance for the runs.                     *)
(***************************************************************************)
EXTENDS Governance

CONSTANTS alice, bob, carol, gold, coin, A, B, C

\* One proposal text, and two of the same title.
OneContent == {<< <<A>>, <<B>> >>}
TwoContents == {<< <<A>>, <<B>> >>, << <<A>>, <<C>> >>}

OneDeposit == {[token |-> gold, amount |-> 1]}

SomeQuorums == {-1, 3}
SomePowers == {1}
=============================================================================
