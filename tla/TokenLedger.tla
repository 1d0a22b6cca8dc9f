----------------------------- MODULE TokenLedger -----------------------------
(***************************************************************************)
(* What a StellarForge token promises about its books, whatever policy     *)
(* (pause, screening, lock-ups, caps, allowances) decides which movements  *)
(* are let through: value is created by a mint, destroyed by a burn, and   *)
(* otherwise only moves.  The asset contract (RwaAsset) and the shares of  *)
(* the vault (Vault) are both shown to implement this specification, and   *)
(* what is proved of it here holds of both.                                *)
(***************************************************************************)
EXTENDS TokenUnits

CONSTANTS Accounts,    \* the addresses that can hold the token
          IMax         \* the largest representable amount (i128::MAX)

ASSUME AccountsAssumption == IsFiniteSet(Accounts)
ASSUME IMaxAssumption == IMax \in Nat \ {0}

VARIABLES balance,     \* [Accounts -> 0 .. IMax]
          totalSupply  \* what the contract reports as total_supply()

ledgerVars == <<balance, totalSupply>>

Amount == 0 .. IMax

LedgerInit ==
    /\ balance = [a \in Accounts |-> 0]
    /\ totalSupply = 0

\* New value for `to`; the supply must stay representable.
Create(to, n) ==
    /\ totalSupply + n \in Amount
    /\ balance' = [balance EXCEPT ![to] = @ + n]
    /\ totalSupply' = totalSupply + n

\* Value of `from` disappears.
Destroy(from, n) ==
    /\ balance[from] >= n
    /\ balance' = [balance EXCEPT ![from] = @ - n]
    /\ totalSupply' = totalSupply - n

\* Value passes from one account to another.
Pass(from, to, n) ==
    /\ from # to
    /\ balance[from] >= n
    /\ balance' = [balance EXCEPT ![from] = @ - n, ![to] = @ + n]
    /\ UNCHANGED totalSupply

LedgerNext ==
    \E a \in Accounts, n \in Amount \ {0} :
        \/ Create(a, n)
        \/ Destroy(a, n)
        \/ \E b \in Accounts : Pass(a, b, n)

LedgerSpec == LedgerInit /\ [][LedgerNext]_ledgerVars

-----------------------------------------------------------------------------
LedgerTypeOK ==
    /\ balance \in [Accounts -> Amount]
    /\ totalSupply \in Amount

(***************************************************************************)
(* The supply is exactly what the holders own together: no sequence of     *)
(* mints, burns and transfers creates or loses a unit.                     *)
(***************************************************************************)
Conservation == totalSupply = Total(balance)

(***************************************************************************)
(* Two holders never own more than the supply between them, which is why   *)
(* the checked addition of a transfer's credit cannot overflow.            *)
(***************************************************************************)
CreditFits ==
    \A a, b \in Accounts : a # b => balance[a] + balance[b] <= totalSupply
=============================================================================
