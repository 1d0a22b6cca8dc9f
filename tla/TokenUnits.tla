----------------------------- MODULE TokenUnits -----------------------------
(***************************************************************************)
(* How much of a token a table of balances accounts for.                   *)
(*                                                                         *)
(* A balance of n is seen as the n units <<holder, 1>> ... <<holder, n>>,  *)
(* and the total as the number of units.  Counting a set needs no          *)
(* recursion, so TLC evaluates the total and TLAPS reasons about it with   *)
(* the library's facts about cardinalities.                                *)
(***************************************************************************)
EXTENDS Integers, FiniteSets

\* The units the holders in the domain of `bal` own.
Units(bal) == UNION {{a} \X (1 .. bal[a]) : a \in DOMAIN bal}

\* The sum of the balances in `bal`, none of which is negative.
Total(bal) == Cardinality(Units(bal))

\* The holders of a strictly positive balance.
Holders(bal) == {a \in DOMAIN bal : bal[a] > 0}
=============================================================================
