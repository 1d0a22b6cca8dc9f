---------------------------- MODULE CheckpointLog ----------------------------
(***************************************************************************)
(* How the vault remembers a past amount: one log of checkpoints per       *)
(* holder and one for the supply (vault/src/lib.rs, write_balance and      *)
(* write_total_supply, balance_at).  A write in the ledger of the last     *)
(* checkpoint replaces it, a later write appends one, and a reading        *)
(* searches the log.                                                       *)
(***************************************************************************)
EXTENDS Integers, Sequences

\* `cps` after amount v was written in ledger l.
Record(cps, l, v) ==
    IF cps # <<>> /\ cps[Len(cps)].ledger = l
      THEN [cps EXCEPT ![Len(cps)].balance = v]
      ELSE Append(cps, [ledger |-> l, balance |-> v])

\* Mutant of Search: a checkpoint of the very ledger asked for counts as later.
Search_Strict(cps, l) ==
    LET from[low \in 1 .. Len(cps) + 1] ==
          [high \in 1 .. Len(cps) + 1 |->
             IF low >= high THEN low - 1
             ELSE LET mid == low + (high - low) \div 2
                  IN  IF cps[mid].ledger < l THEN from[mid + 1][high]
                      ELSE from[low][mid]]
    IN  from[1][Len(cps) + 1]

\* The binary search of balance_at over the half-open interval [low, high):
\* the index of the last checkpoint of a ledger up to l, or 0.
Search(cps, l) ==
    LET from[low \in 1 .. Len(cps) + 1] ==
          [high \in 1 .. Len(cps) + 1 |->
             IF low >= high THEN low - 1
             ELSE LET mid == low + (high - low) \div 2
                  IN  IF cps[mid].ledger <= l THEN from[mid + 1][high]
                      ELSE from[low][mid]]
    IN  from[1][Len(cps) + 1]

\* What is read for ledger l.
ReadAt(cps, l) == LET i == Search(cps, l) IN IF i = 0 THEN 0 ELSE cps[i].balance
=============================================================================
