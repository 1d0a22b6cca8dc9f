----------------------------- MODULE VaultProofs -----------------------------
(***************************************************************************)
(* The vault, for any rate, cap, clock and set of accounts: its shares are *)
(* a token ledger, backed by the units it accounts for and payable from    *)
(* those it has; they stay where a lock or the screening holds them; past  *)
(* balances are remembered; and the value it reports claims no more than   *)
(* its sources do.                                                         *)
(***************************************************************************)
EXTENDS Vault, VaultNav, TokenLedgerProofs, WellFoundedInduction

\* What the vault counts with is within range.  The shares' backing rests on this alone;
\* the checkpoints and the underlying balances have invariants of their own (LogsOK,
\* UnitsHeld), and the allowances may be anything.
CountsOK ==
    /\ LedgerTypeOK
    /\ config.exchange_rate \in Nat \ {0} /\ config.max_share_supply \in Nat
    /\ config.lockup_secs \in Nat
    /\ underlyingHeld \in Nat
    /\ timestamp \in Nat /\ lockedUntil \in [Accounts -> Nat]

\* Conservation is carried along because a transfer's credit stays in range by it.
VaultInv == CountsOK /\ Conservation /\ SharesAreBacked

-----------------------------------------------------------------------------
(* Arithmetic *)

\* The shares of n units more, and of n units less.
LEMMA SharesOfMore ==
    ASSUME NEW m \in Nat, NEW n \in Nat \ {0}, NEW r \in Nat \ {0}
    PROVE  /\ n * r \in Nat \ {0}
           /\ (m + n) * r = m * r + n * r
BY SMT

LEMMA SharesOfLess ==
    ASSUME NEW m \in Nat, NEW n \in Nat, NEW r \in Nat \ {0}, n <= m
    PROVE  (m - n) * r = m * r - n * r
BY SMT

\* A multiple of the rate is divided without a remainder.
LEMMA ExactDivision ==
    ASSUME NEW s \in Nat, NEW r \in Nat \ {0}, s % r = 0
    PROVE  s \div r \in Nat /\ s = (s \div r) * r
<1>1. s = r * (s \div r) + (s % r) /\ s \div r \in Nat
  BY SMT
<1> QED
  BY <1>1, SMT

\* The remainder is no more than what is divided.
LEMMA Remainder ==
    ASSUME NEW s \in Nat, NEW r \in Nat \ {0}
    PROVE  s % r \in 0 .. s
<1>1. s = r * (s \div r) + (s % r) /\ s \div r \in Nat /\ s % r \in Nat
  BY SMT
<1>2. r * (s \div r) \in Nat
  BY <1>1, SMT
<1> QED
  BY <1>1, <1>2

-----------------------------------------------------------------------------
(* The calls *)

\* A deposit creates the shares of the amount and accounts for the amount.
LEMMA DepositCreates ==
    ASSUME VaultInv, NEW from \in Accounts, NEW amount \in Amounts, Deposit(from, amount)
    PROVE  LET shares == amount * config.exchange_rate
           IN  /\ amount \in Nat \ {0} /\ shares \in Amount \ {0}
               /\ Create(from, shares)
               /\ config.max_share_supply > 0 =>
                     totalSupply + shares <= config.max_share_supply
               /\ underlyingHeld' = underlyingHeld + amount
               /\ UNCHANGED <<clockVars, config>>
<1> DEFINE shares == amount * config.exchange_rate
<1>1. amount > 0 /\ shares <= IMax /\ underlyingHeld' = underlyingHeld + amount
  BY DEF Deposit, RequirePositive
<1>2. amount \in Nat \ {0}
  BY <1>1, VaultInputs
<1>3. config.exchange_rate \in Nat \ {0} /\ underlyingHeld \in Nat
  BY DEF VaultInv, CountsOK
<1>4. shares \in Nat \ {0}
  BY <1>2, <1>3, SharesOfMore
<1>5. MintShares(from, shares) /\ UNCHANGED <<clockVars, config>>
  BY DEF Deposit
<1> HIDE DEF shares
<1>6. shares \in Amount \ {0}
  BY <1>1, <1>4, IMaxAssumption DEF Amount
<1>7. totalSupply + shares \in Amount
  <2>1. totalSupply \in Amount /\ totalSupply + shares <= IMax
    BY <1>5 DEF MintShares, VaultInv, CountsOK, LedgerTypeOK
  <2> QED
    BY <1>4, <2>1, IMaxAssumption DEF Amount
<1>8. Create(from, shares)
  BY <1>5, <1>7 DEF MintShares, Create, WriteShares, WriteTotalSupply
<1>9. config.max_share_supply > 0 => totalSupply + shares <= config.max_share_supply
  BY <1>5 DEF MintShares
<1> QED
  BY <1>1, <1>2, <1>5, <1>6, <1>8, <1>9 DEF shares

\* A redemption destroys shares worth the units it no longer accounts for.
LEMMA RedeemDestroys ==
    ASSUME VaultInv, NEW holder \in Accounts, NEW shares \in Amounts, Redeem(holder, shares)
    PROVE  LET paid == shares \div config.exchange_rate
           IN  /\ paid \in Nat /\ shares = paid * config.exchange_rate
               /\ shares \in Amount \ {0} /\ Destroy(holder, shares)
               /\ Unlocked(holder)
               /\ paid <= underlyingHeld /\ underlyingHeld' = underlyingHeld - paid
               /\ UNCHANGED <<clockVars, config, lockedUntil>>
<1> DEFINE paid == shares \div config.exchange_rate
<1>1. /\ shares > 0 /\ shares % config.exchange_rate = 0 /\ Unlocked(holder)
      /\ underlyingHeld >= paid /\ underlyingHeld' = underlyingHeld - paid
      /\ BurnShares(holder, shares)
      /\ UNCHANGED <<clockVars, config, lockedUntil>>
  BY DEF Redeem, RequirePositive
<1>2. shares \in Nat \ {0}
  BY <1>1, VaultInputs
<1>3. config.exchange_rate \in Nat \ {0} /\ underlyingHeld \in Nat
  BY DEF VaultInv, CountsOK
<1>4. paid \in Nat /\ shares = paid * config.exchange_rate
  BY <1>1, <1>2, <1>3, ExactDivision
<1> HIDE DEF paid
<1>5. Destroy(holder, shares)
  BY <1>1 DEF BurnShares, Destroy, WriteShares, WriteTotalSupply
<1>6. balance[holder] \in Amount
  BY DEF VaultInv, CountsOK, LedgerTypeOK
<1>7. shares \in Amount \ {0}
  BY <1>2, <1>5, <1>6, IMaxAssumption DEF Destroy, Amount
<1>8. paid <= underlyingHeld
  BY <1>1, <1>3, <1>4
<1> QED
  BY <1>1, <1>4, <1>5, <1>7, <1>8 DEF paid

\* A movement of shares passes them on, or leaves the books alone.
LEMMA MovePasses ==
    ASSUME VaultInv, NEW from \in Accounts, NEW to \in Accounts, NEW n \in Amounts,
           n > 0, MoveShares(from, to, n)
    PROVE  \/ UNCHANGED ledgerVars
           \/ n \in Amount \ {0} /\ Pass(from, to, n)
<1>1. CASE from = to
  BY <1>1 DEF MoveShares, shareVars, ledgerVars
<1>2. CASE from # to
  <2>1. Pass(from, to, n)
    BY <1>2 DEF MoveShares, WriteShares, Pass
  <2>2. balance[from] \in Amount /\ n <= balance[from]
    BY <2>1, VaultInputs DEF VaultInv, CountsOK, LedgerTypeOK, Pass, Amount
  <2>3. n \in Amount \ {0}
    BY <2>2, VaultInputs, IMaxAssumption DEF Amount
  <2> QED
    BY <2>1, <2>3
<1> QED
  BY <1>1, <1>2

\* A deposit leaves every lock where it is or moves it forward.
LEMMA RelockExtends ==
    ASSUME CountsOK, NEW holder \in Accounts, Relock(holder)
    PROVE  /\ lockedUntil' \in [Accounts -> Nat]
           /\ \A a \in Accounts : lockedUntil'[a] >= lockedUntil[a]
<1> DEFINE target == timestamp + config.lockup_secs
<1>1. lockedUntil \in [Accounts -> Nat] /\ target \in Nat
  BY DEF CountsOK
<1>2. \/ lockedUntil' = lockedUntil
      \/ /\ ~(lockedUntil[holder] > target)
         /\ lockedUntil' = [lockedUntil EXCEPT ![holder] = target]
  BY DEF Relock
<1> HIDE DEF target
<1> QED
  BY <1>1, <1>2

\* A transfer and a transfer by allowance leave everything but the books alone.
LEMMA TransferMoves ==
    ASSUME NEW from \in Accounts, NEW to \in Accounts, NEW n \in Amounts,
           \/ Transfer(from, to, n)
           \/ \E s \in Spenders : TransferFrom(s, from, to, n)
    PROVE  /\ n > 0 /\ Unlocked(from) /\ Compliant(from) /\ Compliant(to)
           /\ MoveShares(from, to, n)
           /\ UNCHANGED <<clockVars, config, underlyingHeld, lockedUntil>>
<1>1. CASE Transfer(from, to, n)
  BY <1>1 DEF Transfer, RequirePositive, backVars
<1>2. ASSUME NEW s \in Spenders, TransferFrom(s, from, to, n)
      PROVE  /\ n > 0 /\ Unlocked(from) /\ Compliant(from) /\ Compliant(to)
             /\ MoveShares(from, to, n)
             /\ UNCHANGED <<clockVars, config, underlyingHeld, lockedUntil>>
  BY <1>2 DEF TransferFrom, RequirePositive, backVars
<1> QED
  BY <1>1, <1>2

\* No other call and nothing in the environment touches the shares, what backs them
\* or a lock; only time passes.
LEMMA OthersKeepTheShares ==
    ASSUME VaultInv, OtherCall \/ Environment \/ UNCHANGED vars
    PROVE  /\ UNCHANGED <<ledgerVars, config, underlyingHeld, lockedUntil>>
           /\ timestamp' \in Nat
<1> USE DEF ledgerVars, shareVars, backVars, clockVars
<1> DEFINE Kept == /\ UNCHANGED <<ledgerVars, config, underlyingHeld, lockedUntil>>
                   /\ timestamp' \in Nat
<1>0. timestamp \in Nat
  BY DEF VaultInv, CountsOK
<1>1. ASSUME NEW a \in Accounts, NEW s \in Spenders, NEW g \in ApprovalInputs,
             Approve(a, s, g)
      PROVE  Kept
  BY <1>0, <1>1 DEF Approve
<1>2. ASSUME NEW p \in PauseInputs, SetPaused(p) PROVE Kept
  BY <1>0, <1>2 DEF SetPaused
<1>3. ASSUME NEW a \in Successors, TransferAdmin(a) PROVE Kept
  BY <1>0, <1>3 DEF TransferAdmin
<1>4. CASE CloseLedger
  <2>1. PICK seconds \in CloseTimes : timestamp' = timestamp + seconds
    BY <1>4 DEF CloseLedger
  <2>2. timestamp' \in Nat
    BY <1>0, <2>1, VaultInputs
  <2> QED
    BY <1>4, <2>2 DEF CloseLedger
<1>5. ASSUME NEW a \in Signers, NEW n \in Amounts, Donate(a, n) PROVE Kept
  BY <1>0, <1>5 DEF Donate
<1>6. ASSUME NEW a \in Seizers, NEW n \in Amounts, Seize(a, n) PROVE Kept
  BY <1>0, <1>6 DEF Seize
<1>7. ASSUME NEW a \in Accounts, NEW l \in StandingInputs, StandingChanges(a, l)
      PROVE  Kept
  BY <1>0, <1>7 DEF StandingChanges
<1>8. CASE UNCHANGED vars
  BY <1>0, <1>8 DEF vars
<1>9. CASE OtherCall
  BY <1>1, <1>2, <1>3, <1>9 DEF OtherCall
<1>10. CASE Environment
  BY <1>4, <1>5, <1>6, <1>7, <1>10 DEF Environment
<1> QED
  BY <1>8, <1>9, <1>10

\* What a step can be, as far as the shares are concerned.
LEMMA StepCases ==
    ASSUME [Next]_vars
    PROVE  \/ \E a \in Accounts, n \in Amounts : Deposit(a, n)
           \/ \E a \in Accounts, n \in Amounts : Redeem(a, n)
           \/ \E a, b \in Accounts, n \in Amounts :
                 \/ Transfer(a, b, n)
                 \/ \E s \in Spenders : TransferFrom(s, a, b, n)
           \/ OtherCall \/ Environment \/ UNCHANGED vars
BY DEF Next, ValueCall

-----------------------------------------------------------------------------
(* The invariant *)

\* Every step is a step of the token ledger, or leaves the books alone.
LEMMA StepIsLedgerStep ==
    ASSUME VaultInv, [Next]_vars PROVE [LedgerNext]_ledgerVars
<1>1. ASSUME NEW a \in Accounts, NEW n \in Amounts, Deposit(a, n)
      PROVE  LedgerNext
  BY <1>1, DepositCreates DEF LedgerNext
<1>2. ASSUME NEW a \in Accounts, NEW n \in Amounts, Redeem(a, n)
      PROVE  LedgerNext
  BY <1>2, RedeemDestroys DEF LedgerNext
<1>3. ASSUME NEW a \in Accounts, NEW b \in Accounts, NEW n \in Amounts,
             \/ Transfer(a, b, n)
             \/ \E s \in Spenders : TransferFrom(s, a, b, n)
      PROVE  [LedgerNext]_ledgerVars
  <2>1. n > 0 /\ MoveShares(a, b, n)
    BY <1>3, TransferMoves
  <2>2. \/ UNCHANGED ledgerVars
        \/ n \in Amount \ {0} /\ Pass(a, b, n)
    BY <2>1, MovePasses
  <2> QED
    BY <2>2 DEF LedgerNext
<1>4. ASSUME OtherCall \/ Environment \/ UNCHANGED vars
      PROVE  UNCHANGED ledgerVars
  BY <1>4, OthersKeepTheShares
<1> QED
  BY <1>1, <1>2, <1>3, <1>4, StepCases

LEMMA VaultInvInit == Init => VaultInv
<1> SUFFICES ASSUME Init PROVE VaultInv
  OBVIOUS
<1>1. LedgerInv
  BY LedgerInvInit DEF Init
<1>2. PICK c \in Configs : ValidConfig(c) /\ config = c
  BY DEF Init
<1>3. /\ c.exchange_rate \in Int /\ c.max_share_supply \in Int /\ c.lockup_secs \in Nat
      /\ c.exchange_rate >= 1 /\ c.max_share_supply >= 0
  BY <1>2, VaultInputs DEF ValidConfig
<1>4. /\ config.exchange_rate \in Nat \ {0} /\ config.max_share_supply \in Nat
      /\ config.lockup_secs \in Nat
  BY <1>2, <1>3
<1>5. underlyingHeld = 0 /\ timestamp = 0 /\ lockedUntil = [a \in Accounts |-> 0]
  BY DEF Init
<1>6. CountsOK
  BY <1>1, <1>4, <1>5 DEF CountsOK, LedgerInv
<1>7. totalSupply = 0
  BY DEF Init, LedgerInit
<1>8. SharesAreBacked
  BY <1>4, <1>5, <1>7 DEF SharesAreBacked
<1> QED
  BY <1>1, <1>6, <1>8 DEF VaultInv, LedgerInv

\* What a step leaves of the counts, apart from the books themselves.
LEMMA StepBacked ==
    ASSUME VaultInv, [Next]_vars
    PROVE  /\ UNCHANGED config
           /\ underlyingHeld' \in Nat /\ timestamp' \in Nat
           /\ lockedUntil' \in [Accounts -> Nat]
           /\ SharesAreBacked'
<1> DEFINE Rest == /\ UNCHANGED config
                   /\ underlyingHeld' \in Nat /\ timestamp' \in Nat
                   /\ lockedUntil' \in [Accounts -> Nat]
                   /\ SharesAreBacked'
<1>1. /\ underlyingHeld \in Nat /\ timestamp \in Nat /\ totalSupply \in Nat
      /\ config.exchange_rate \in Nat \ {0} /\ config.max_share_supply \in Nat
      /\ lockedUntil \in [Accounts -> Nat]
      /\ totalSupply = underlyingHeld * config.exchange_rate
      /\ config.max_share_supply > 0 => totalSupply <= config.max_share_supply
  BY IMaxAssumption DEF VaultInv, CountsOK, LedgerTypeOK, SharesAreBacked, Amount
<1>2. ASSUME NEW a \in Accounts, NEW n \in Amounts, Deposit(a, n)
      PROVE  Rest
  <2> DEFINE shares == n * config.exchange_rate
  <2>1. /\ n \in Nat \ {0}
        /\ config.max_share_supply > 0 => totalSupply + shares <= config.max_share_supply
        /\ underlyingHeld' = underlyingHeld + n
        /\ Create(a, shares)
        /\ UNCHANGED <<clockVars, config>>
    BY <1>2, DepositCreates
  <2>2. (underlyingHeld + n) * config.exchange_rate
            = underlyingHeld * config.exchange_rate + shares
    BY <1>1, <2>1, SharesOfMore
  <2> HIDE DEF shares
  <2>3. totalSupply' = totalSupply + shares
    BY <2>1 DEF Create
  <2>4. SharesAreBacked'
    BY <1>1, <2>1, <2>2, <2>3 DEF SharesAreBacked
  <2>5. Relock(a)
    BY <1>2 DEF Deposit
  <2>6. lockedUntil' \in [Accounts -> Nat]
    BY <2>5, RelockExtends DEF VaultInv
  <2>7. underlyingHeld' \in Nat
    BY <1>1, <2>1
  <2> QED
    BY <1>1, <2>1, <2>4, <2>6, <2>7 DEF clockVars
<1>3. ASSUME NEW a \in Accounts, NEW n \in Amounts, Redeem(a, n)
      PROVE  Rest
  <2> DEFINE paid == n \div config.exchange_rate
  <2>1. /\ paid \in Nat /\ n = paid * config.exchange_rate
        /\ n \in Amount \ {0} /\ Destroy(a, n)
        /\ paid <= underlyingHeld /\ underlyingHeld' = underlyingHeld - paid
        /\ UNCHANGED <<clockVars, config, lockedUntil>>
    BY <1>3, RedeemDestroys
  <2> HIDE DEF paid
  <2>2. (underlyingHeld - paid) * config.exchange_rate
            = underlyingHeld * config.exchange_rate - n
    BY <1>1, <2>1, SharesOfLess
  <2>3. totalSupply' = totalSupply - n /\ n \in Nat
    BY <2>1, IMaxAssumption DEF Destroy, Amount
  <2>4. SharesAreBacked'
    BY <1>1, <2>1, <2>2, <2>3 DEF SharesAreBacked
  <2>5. underlyingHeld' \in Nat
    BY <1>1, <2>1
  <2> QED
    BY <1>1, <2>1, <2>4, <2>5 DEF clockVars
<1>4. ASSUME NEW a \in Accounts, NEW b \in Accounts, NEW n \in Amounts,
             \/ Transfer(a, b, n)
             \/ \E s \in Spenders : TransferFrom(s, a, b, n)
      PROVE  Rest
  <2>1. /\ n > 0 /\ MoveShares(a, b, n)
        /\ UNCHANGED <<clockVars, config, underlyingHeld, lockedUntil>>
    BY <1>4, TransferMoves
  <2>2. UNCHANGED totalSupply
    BY <2>1, MovePasses DEF ledgerVars, Pass
  <2> QED
    BY <1>1, <2>1, <2>2 DEF clockVars, SharesAreBacked
<1>5. ASSUME OtherCall \/ Environment \/ UNCHANGED vars
      PROVE  Rest
  <2>1. /\ UNCHANGED <<ledgerVars, config, underlyingHeld, lockedUntil>>
        /\ timestamp' \in Nat
    BY <1>5, OthersKeepTheShares
  <2> QED
    BY <1>1, <2>1 DEF ledgerVars, SharesAreBacked
<1> QED
  BY <1>2, <1>3, <1>4, <1>5, StepCases

LEMMA VaultInvStep == VaultInv /\ [Next]_vars => VaultInv'
<1> SUFFICES ASSUME VaultInv, [Next]_vars PROVE VaultInv'
  OBVIOUS
<1>1. LedgerInv'
  <2>1. LedgerInv
    BY DEF VaultInv, CountsOK, LedgerInv
  <2>2. [LedgerNext]_ledgerVars
    BY StepIsLedgerStep
  <2> QED
    BY <2>1, <2>2, LedgerInvStep
<1>2. /\ UNCHANGED config
      /\ underlyingHeld' \in Nat /\ timestamp' \in Nat
      /\ lockedUntil' \in [Accounts -> Nat]
      /\ SharesAreBacked'
  BY StepBacked
<1>3. CountsOK'
  BY <1>1, <1>2 DEF VaultInv, CountsOK, LedgerInv
<1> QED
  BY <1>1, <1>2, <1>3 DEF VaultInv, LedgerInv

LEMMA VaultAlwaysInv == Spec => []VaultInv
  BY VaultInvInit, VaultInvStep, PTL DEF Spec

-----------------------------------------------------------------------------
(* The theorems *)

(***************************************************************************)
(* In every behaviour of the vault the shares in circulation are exactly   *)
(* what the accounted units are worth, within the cap: deposit and redeem  *)
(* never mint a share without a unit nor strand a unit without shares,     *)
(* whatever the rate, the cap and the width of the amounts.                *)
(***************************************************************************)
THEOREM VaultSharesAreBacked == Spec => []SharesAreBacked
<1>1. VaultInv => SharesAreBacked
  BY DEF VaultInv
<1> QED
  BY <1>1, VaultAlwaysInv, PTL

(***************************************************************************)
(* The vault's shares implement the token ledger: its calls only create,   *)
(* destroy or pass on shares, so what LedgerConserves proves holds of them.*)
(***************************************************************************)
THEOREM VaultImplementsLedger == Spec => ImplementsLedger
<1>1. Init => LedgerInit
  BY DEF Init
<1>2. VaultInv /\ [Next]_vars => [LedgerNext]_ledgerVars
  BY StepIsLedgerStep
<1>3. Spec => LedgerSpec
  BY <1>1, <1>2, VaultAlwaysInv, PTL DEF Spec, LedgerSpec
<1> QED
  BY <1>3 DEF ImplementsLedger

(***************************************************************************)
(* No call takes shares from a locked holder, and no call shortens a lock: *)
(* deposit, redeem, transfer and transfer_from are the only ones that      *)
(* write either.                                                           *)
(***************************************************************************)
THEOREM VaultLockHolds == Spec => LockHolds
<1> DEFINE Held == \A a \in Accounts :
                      /\ lockedUntil'[a] >= lockedUntil[a]
                      /\ balance'[a] < balance[a] => timestamp >= lockedUntil[a]
<1>1. ASSUME VaultInv, [Next]_vars
      PROVE  Held
  <2>1. /\ lockedUntil \in [Accounts -> Nat] /\ timestamp \in Nat
        /\ IMax \in Nat /\ balance \in [Accounts -> 0 .. IMax]
    BY <1>1, IMaxAssumption DEF VaultInv, CountsOK, LedgerTypeOK, Amount
  <2>2. ASSUME NEW h \in Accounts, NEW n \in Amounts, Deposit(h, n)
        PROVE  Held
    <3> DEFINE shares == n * config.exchange_rate
    <3>1. shares \in Amount \ {0} /\ Create(h, shares)
      BY <1>1, <2>2, DepositCreates
    <3>2. Relock(h)
      BY <2>2 DEF Deposit
    <3>3. \A a \in Accounts : lockedUntil'[a] >= lockedUntil[a]
      BY <1>1, <3>2, RelockExtends DEF VaultInv
    <3> HIDE DEF shares
    <3>4. \A a \in Accounts : ~(balance'[a] < balance[a])
      BY <2>1, <3>1 DEF Create, Amount
    <3> QED
      BY <3>3, <3>4
  <2>3. ASSUME NEW h \in Accounts, NEW n \in Amounts, Redeem(h, n)
        PROVE  Held
    <3>1. Destroy(h, n) /\ Unlocked(h) /\ lockedUntil' = lockedUntil
      BY <1>1, <2>3, RedeemDestroys
    <3>2. \A a \in Accounts : a # h => balance'[a] = balance[a]
      BY <2>1, <3>1 DEF Destroy
    <3> QED
      BY <2>1, <3>1, <3>2 DEF Unlocked
  <2>4. ASSUME NEW f \in Accounts, NEW t \in Accounts, NEW n \in Amounts,
               \/ Transfer(f, t, n)
               \/ \E s \in Spenders : TransferFrom(s, f, t, n)
        PROVE  Held
    <3>1. /\ n > 0 /\ MoveShares(f, t, n)
          /\ Unlocked(f) /\ lockedUntil' = lockedUntil
      BY <2>4, TransferMoves
    <3>2. UNCHANGED ledgerVars \/ (n \in Amount \ {0} /\ Pass(f, t, n))
      BY <1>1, <3>1, MovePasses
    <3>3. \A a \in Accounts : a # f => ~(balance'[a] < balance[a])
      BY <2>1, <3>2 DEF Pass, ledgerVars, Amount
    <3> QED
      BY <2>1, <3>1, <3>3 DEF Unlocked
  <2>5. ASSUME OtherCall \/ Environment \/ UNCHANGED vars
        PROVE  Held
    <3>1. UNCHANGED <<ledgerVars, lockedUntil>>
      BY <1>1, <2>5, OthersKeepTheShares
    <3> QED
      BY <2>1, <3>1 DEF ledgerVars
  <2> QED
    BY <1>1, <2>2, <2>3, <2>4, <2>5, StepCases
<1> QED
  BY <1>1, VaultAlwaysInv, PTL DEF Spec, LockHolds

(***************************************************************************)
(* Shares change hands only between holders that both pass the screening   *)
(* at that moment, by transfer and by transfer_from alike.                 *)
(***************************************************************************)
THEOREM VaultScreensMovedShares == Spec => MovedSharesAreScreened
<1> DEFINE Screened == \A a \in Accounts :
                balance'[a] # balance[a] /\ totalSupply' = totalSupply => Compliant(a)
<1>1. ASSUME VaultInv, [Next]_vars
      PROVE  Screened
  <2>1. /\ IMax \in Nat /\ totalSupply \in 0 .. IMax
        /\ balance \in [Accounts -> 0 .. IMax]
    BY <1>1, IMaxAssumption DEF VaultInv, CountsOK, LedgerTypeOK, Amount
  <2>2. ASSUME NEW h \in Accounts, NEW n \in Amounts, Deposit(h, n)
        PROVE  Screened
    <3> DEFINE shares == n * config.exchange_rate
    <3>1. shares \in Amount \ {0} /\ Create(h, shares)
      BY <1>1, <2>2, DepositCreates
    <3> HIDE DEF shares
    <3>2. totalSupply' # totalSupply
      BY <2>1, <3>1 DEF Create, Amount
    <3> QED
      BY <3>2
  <2>3. ASSUME NEW h \in Accounts, NEW n \in Amounts, Redeem(h, n)
        PROVE  Screened
    <3>1. n \in Amount \ {0} /\ Destroy(h, n)
      BY <1>1, <2>3, RedeemDestroys
    <3>2. totalSupply' # totalSupply
      BY <2>1, <3>1 DEF Destroy, Amount
    <3> QED
      BY <3>2
  <2>4. ASSUME NEW f \in Accounts, NEW t \in Accounts, NEW n \in Amounts,
               \/ Transfer(f, t, n)
               \/ \E s \in Spenders : TransferFrom(s, f, t, n)
        PROVE  Screened
    <3>1. n > 0 /\ MoveShares(f, t, n) /\ Compliant(f) /\ Compliant(t)
      BY <2>4, TransferMoves
    <3>2. UNCHANGED ledgerVars \/ (n \in Amount \ {0} /\ Pass(f, t, n))
      BY <1>1, <3>1, MovePasses
    <3>3. \A a \in Accounts : balance'[a] # balance[a] => a = f \/ a = t
      BY <2>1, <3>2 DEF Pass, ledgerVars
    <3> QED
      BY <3>1, <3>3
  <2>5. ASSUME OtherCall \/ Environment \/ UNCHANGED vars
        PROVE  Screened
    BY <1>1, <2>5, OthersKeepTheShares DEF ledgerVars
  <2> QED
    BY <1>1, <2>2, <2>3, <2>4, <2>5, StepCases
<1> QED
  BY <1>1, VaultAlwaysInv, PTL DEF Spec, MovedSharesAreScreened

-----------------------------------------------------------------------------
(* Nobody gains *)

\* Balances in the underlying contract are counts, whoever moves them.
UnitsOK == units \in [Accounts -> Nat]

LEMMA MoveUnitsTypes ==
    ASSUME UnitsOK, NEW from \in Accounts, NEW to \in Accounts, NEW n \in Nat,
           MoveUnits(from, to, n)
    PROVE  /\ UnitsOK' /\ from # to
           /\ units' = [units EXCEPT ![from] = units[from] - n, ![to] = units[to] + n]
BY DEF MoveUnits, UnitsOK

LEMMA UnitsStep ==
    ASSUME VaultInv, UnitsOK, [Next]_vars PROVE UnitsOK'
<1> USE DEF backVars
<1>0. vault \in Accounts /\ Signers \subseteq Accounts /\ Seizers \subseteq Accounts
  BY VaultAssumption, VaultInputs DEF Signers
<1>1. ASSUME NEW a \in Accounts, NEW n \in Amounts, Deposit(a, n) PROVE UnitsOK'
  <2>1. n \in Nat
    BY <1>1, DepositCreates
  <2>2. MoveUnits(a, vault, n)
    BY <1>1 DEF Deposit
  <2> QED
    BY <1>0, <2>1, <2>2, MoveUnitsTypes
<1>2. ASSUME NEW a \in Accounts, NEW n \in Amounts, Redeem(a, n) PROVE UnitsOK'
  <2>1. n \div config.exchange_rate \in Nat
    BY <1>2, RedeemDestroys
  <2>2. MoveUnits(vault, a, n \div config.exchange_rate)
    BY <1>2 DEF Redeem
  <2> QED
    BY <1>0, <2>1, <2>2, MoveUnitsTypes
<1>3. ASSUME NEW a \in Signers, NEW n \in Amounts, Donate(a, n) PROVE UnitsOK'
  <2>1. n \in Nat /\ MoveUnits(a, vault, n)
    BY <1>3, VaultInputs DEF Donate
  <2> QED
    BY <1>0, <2>1, MoveUnitsTypes
<1>4. ASSUME NEW a \in Seizers, NEW n \in Amounts, Seize(a, n) PROVE UnitsOK'
  <2>1. n \in Nat /\ MoveUnits(vault, a, n)
    BY <1>4, VaultInputs DEF Seize
  <2> QED
    BY <1>0, <2>1, MoveUnitsTypes
<1>5. ASSUME NEW a \in Accounts, NEW b \in Accounts, NEW n \in Amounts,
             Transfer(a, b, n) \/ \E s \in Spenders : TransferFrom(s, a, b, n)
      PROVE  UnitsOK'
  BY <1>5 DEF Transfer, TransferFrom, UnitsOK
<1>6. CASE OtherCall
  BY <1>6 DEF OtherCall, Approve, SetPaused, TransferAdmin, UnitsOK
<1>7. CASE CloseLedger \/ \E a \in Accounts, l \in StandingInputs : StandingChanges(a, l)
  BY <1>7 DEF CloseLedger, StandingChanges, UnitsOK
<1>8. CASE UNCHANGED vars
  BY <1>8 DEF vars, UnitsOK
<1>9. CASE Environment
  BY <1>3, <1>4, <1>7, <1>9 DEF Environment
<1> QED
  BY <1>1, <1>2, <1>5, <1>6, <1>8, <1>9, StepCases

(***************************************************************************)
(* A deposit and a redemption exchange units and shares at par: nobody but *)
(* the vault itself owns more or less afterwards, for any rate.            *)
(***************************************************************************)
THEOREM VaultExchangesAtPar == Spec => DepositAndRedeemAtPar
<1> DEFINE AtPar ==
      totalSupply' # totalSupply =>
          \A a \in Signers :
              units'[a] * config.exchange_rate + balance'[a]
                = units[a] * config.exchange_rate + balance[a]
<1>1. Init => UnitsOK
  <2> SUFFICES ASSUME Init PROVE UnitsOK
    OBVIOUS
  <2>1. units \in [Accounts -> Amount]
    BY VaultInputs DEF Init
  <2> QED
    BY <2>1, IMaxAssumption DEF UnitsOK, Amount
<1>2. ASSUME VaultInv, UnitsOK, [Next]_vars
      PROVE  AtPar
  <2>0. /\ config.exchange_rate \in Nat \ {0} /\ IMax \in Nat
        /\ balance \in [Accounts -> 0 .. IMax] /\ units \in [Accounts -> Nat]
        /\ vault \in Accounts /\ Signers \subseteq Accounts /\ vault \notin Signers
    BY <1>2, IMaxAssumption, VaultAssumption
       DEF VaultInv, CountsOK, LedgerTypeOK, Amount, UnitsOK, Signers
  <2>1. ASSUME NEW h \in Accounts, NEW n \in Amounts, Deposit(h, n)
        PROVE  AtPar
    <3> DEFINE shares == n * config.exchange_rate
    <3>1. n \in Nat \ {0} /\ shares \in Amount \ {0} /\ Create(h, shares)
      BY <1>2, <2>1, DepositCreates
    <3>2. MoveUnits(h, vault, n) /\ h # vault
      BY <2>1 DEF Deposit, MoveUnits
    <3>3. units' = [units EXCEPT ![h] = units[h] - n, ![vault] = units[vault] + n]
          /\ n <= units[h]
      BY <2>0, <3>1, <3>2 DEF MoveUnits
    <3>4. (units[h] - n) * config.exchange_rate = units[h] * config.exchange_rate - shares
      BY <2>0, <3>1, <3>3, SharesOfLess
    <3>5. units[h] * config.exchange_rate \in Nat /\ shares \in Nat
      BY <2>0, <3>1
    <3> HIDE DEF shares
    <3>6. balance' = [balance EXCEPT ![h] = balance[h] + shares]
      BY <3>1 DEF Create
    <3>7. units'[h] * config.exchange_rate + balance'[h]
            = units[h] * config.exchange_rate + balance[h]
      <4>1. units'[h] = units[h] - n /\ balance'[h] = balance[h] + shares
        BY <2>0, <3>2, <3>3, <3>6
      <4>2. balance[h] \in Nat
        BY <2>0
      <4> QED
        BY <3>4, <3>5, <4>1, <4>2
    <3>8. \A a \in Signers : a # h => units'[a] = units[a] /\ balance'[a] = balance[a]
      BY <2>0, <3>3, <3>6
    <3> QED
      BY <3>7, <3>8
  <2>2. ASSUME NEW h \in Accounts, NEW n \in Amounts, Redeem(h, n)
        PROVE  AtPar
    <3> DEFINE paid == n \div config.exchange_rate
    <3>1. /\ paid \in Nat /\ n = paid * config.exchange_rate
          /\ n \in Amount \ {0} /\ Destroy(h, n)
      BY <1>2, <2>2, RedeemDestroys
    <3>2. MoveUnits(vault, h, paid)
      BY <2>2 DEF Redeem
    <3> HIDE DEF paid
    <3>3. units' = [units EXCEPT ![vault] = units[vault] - paid, ![h] = units[h] + paid]
          /\ h # vault
      BY <3>2 DEF MoveUnits
    <3>4. /\ balance' = [balance EXCEPT ![h] = balance[h] - n]
      BY <3>1 DEF Destroy
    <3>5. (units[h] + paid) * config.exchange_rate = units[h] * config.exchange_rate + n
      <4>1. units[h] \in Nat /\ config.exchange_rate \in Nat
        BY <2>0
      <4>2. (units[h] + paid) * config.exchange_rate
              = units[h] * config.exchange_rate + paid * config.exchange_rate
        BY <3>1, <4>1, SMT
      <4> QED
        BY <3>1, <4>2
    <3>6. units[h] * config.exchange_rate \in Nat /\ n \in Nat /\ balance[h] \in Nat
      BY <2>0, <3>1 DEF Amount
    <3>7. units'[h] * config.exchange_rate + balance'[h]
            = units[h] * config.exchange_rate + balance[h]
      <4>1. units'[h] = units[h] + paid /\ balance'[h] = balance[h] - n
        BY <2>0, <3>3, <3>4
      <4> QED
        BY <3>5, <3>6, <4>1
    <3>8. \A a \in Signers : a # h => units'[a] = units[a] /\ balance'[a] = balance[a]
      BY <2>0, <3>3, <3>4
    <3> QED
      BY <3>7, <3>8
  <2>3. ASSUME NEW f \in Accounts, NEW t \in Accounts, NEW n \in Amounts,
               Transfer(f, t, n) \/ \E s \in Spenders : TransferFrom(s, f, t, n)
        PROVE  totalSupply' = totalSupply
    <3>1. n > 0 /\ MoveShares(f, t, n)
      BY <2>3, TransferMoves
    <3> QED
      BY <1>2, <3>1, MovePasses DEF ledgerVars, Pass
  <2>4. ASSUME OtherCall \/ Environment \/ UNCHANGED vars
        PROVE  totalSupply' = totalSupply
    BY <1>2, <2>4, OthersKeepTheShares DEF ledgerVars
  <2> QED
    BY <1>2, <2>1, <2>2, <2>3, <2>4, StepCases
<1>3. VaultInv /\ UnitsOK /\ [Next]_vars => UnitsOK'
  BY UnitsStep
<1> QED
  BY <1>1, <1>2, <1>3, VaultAlwaysInv, PTL DEF Spec, DepositAndRedeemAtPar

-----------------------------------------------------------------------------
(* The search of a log *)

\* Every nonempty set of natural numbers has a least element.  What a recursive
\* function computes is proved by it: of the arguments at which the function is not
\* what is claimed, one would be the least.
LEMMA LeastNat ==
    ASSUME NEW T, T \subseteq Nat, T # {}
    PROVE  \E m \in T : \A k \in T : m <= k
<1> DEFINE R == OpToRel(<, Nat)
<1>1. IsWellFoundedOn(R, Nat)
  BY NatLessThanWellFounded
<1>2. \A x, y \in Nat : <<y, x>> \in R <=> y < x
  BY DEF OpToRel
<1> HIDE DEF R
<1>3. PICK m \in T : \A y \in T : <<y, m>> \notin R
  BY <1>1, WFMin
<1>4. \A k \in T : ~(k < m)
  BY <1>2, <1>3
<1> QED
  BY <1>4

\* The search looks between its bounds.
LEMMA Middle ==
    ASSUME NEW low \in Nat, NEW high \in Nat, low < high
    PROVE  LET mid == low + (high - low) \div 2
           IN  mid \in Nat /\ low <= mid /\ mid < high
<1>1. PICK q \in Nat : q = (high - low) \div 2 /\ 2 * q <= high - low
  OBVIOUS
<1> QED
  BY <1>1

(***************************************************************************)
(* If the first k checkpoints, and no others, are of a ledger up to l, the *)
(* search answers k.  The table `g` of the right answers solves the        *)
(* search's own equation, so its function exists; and in no interval can   *)
(* it answer anything else, for the shortest such interval has two halves  *)
(* in which it does not.                                                   *)
(***************************************************************************)
LEMMA SearchFinds ==
    ASSUME NEW cps, Len(cps) \in Nat, NEW l, NEW k \in 0 .. Len(cps),
           \A i \in 1 .. Len(cps) : cps[i].ledger <= l <=> i <= k
    PROVE  Search(cps, l) = k
<1> DEFINE D == 1 .. Len(cps) + 1
           At(f, low, high) ==
             IF low >= high THEN low - 1
             ELSE LET mid == low + (high - low) \div 2
                  IN  IF cps[mid].ledger <= l THEN f[mid + 1][high]
                      ELSE f[low][mid]
           Solves(f) == f = [low \in D |-> [high \in D |-> At(f, low, high)]]
           from == CHOOSE f : Solves(f)
           found(low, high) == IF low >= high \/ k < low THEN low - 1
                               ELSE IF k >= high THEN high - 1 ELSE k
           g == [low \in D |-> [high \in D |-> found(low, high)]]
<1>1. Search(cps, l) = from[1][Len(cps) + 1]
  BY DEF Search
\* Half of the interval is as the whole, if its middle is where the answer says.
<1>2. ASSUME NEW low \in D, NEW high \in D, low < high
      PROVE  LET mid == low + (high - low) \div 2
             IN  /\ mid \in D /\ mid + 1 \in D /\ low <= mid /\ mid < high
                 /\ found(low, high) = IF cps[mid].ledger <= l THEN found(mid + 1, high)
                                       ELSE found(low, mid)
  <2> DEFINE mid == low + (high - low) \div 2
  <2>1. mid \in 1 .. Len(cps) /\ low <= mid /\ mid < high
    BY <1>2, Middle
  <2> HIDE DEF mid
  <2>2. cps[mid].ledger <= l <=> mid <= k
    BY <2>1
  <2> QED
    BY <1>2, <2>1, <2>2 DEF mid
<1> HIDE DEF found
<1>3. ASSUME NEW low \in D, NEW high \in D, low >= high
      PROVE  found(low, high) = low - 1
  BY <1>3 DEF found
<1>4. Solves(g)
  <2>1. ASSUME NEW low \in D, NEW high \in D
        PROVE  found(low, high) = At(g, low, high)
    <3>1. CASE low >= high
      BY <1>3, <3>1
    <3>2. CASE low < high
      <4> DEFINE mid == low + (high - low) \div 2
      <4>1. /\ mid \in D /\ mid + 1 \in D
            /\ found(low, high) = IF cps[mid].ledger <= l THEN found(mid + 1, high)
                                  ELSE found(low, mid)
        BY <1>2, <3>2
      <4>2. At(g, low, high) = IF cps[mid].ledger <= l THEN g[mid + 1][high]
                               ELSE g[low][mid]
        BY <3>2
      <4> HIDE DEF mid, At, D
      <4> QED
        BY <4>1, <4>2
    <3> QED
      BY <3>1, <3>2
  <2> HIDE DEF At
  <2>2. g = [low \in D |-> [high \in D |-> At(g, low, high)]]
    BY <2>1
  <2> QED
    BY <2>2
<1>5. Solves(from)
  <2> HIDE DEF Solves, g
  <2> QED
    BY <1>4
<1>6. ASSUME NEW low \in D, NEW high \in D
      PROVE  from[low][high] = At(from, low, high)
  <2>1. \A f : f = [x \in D |-> [y \in D |-> At(from, x, y)]]
                  => f[low][high] = At(from, low, high)
    <3> HIDE DEF At, from, D
    <3> QED
      BY <1>6
  <2>2. from = [x \in D |-> [y \in D |-> At(from, x, y)]]
    BY <1>5, Zenon
  <2> HIDE DEF At, from
  <2> QED
    BY <2>1, <2>2, Zenon
<1> HIDE DEF from, Solves, g
<1>7. ASSUME NEW p \in D, NEW q \in D, from[p][q] # found(p, q)
      PROVE  FALSE
  <2> DEFINE Bad == {d \in Nat : \E low, high \in D :
                       low < high /\ d = high - low /\ from[low][high] # found(low, high)}
  <2>0. ASSUME NEW low \in D, NEW high \in D, low >= high
        PROVE  from[low][high] = found(low, high)
    <3>1. from[low][high] = At(from, low, high)
      BY <1>6
    <3>2. At(from, low, high) = low - 1 /\ found(low, high) = low - 1
      BY <2>0, <1>3
    <3> QED
      BY <3>1, <3>2
  <2>1. q - p \in Bad /\ p < q
    <3>1. ~(p >= q)
      <4> HIDE DEF D, Bad
      <4> QED
        BY <1>7, <2>0
    <3>2. p < q /\ q - p \in Nat
      BY <3>1
    <3> QED
      BY <1>7, <3>2
  <2>2. Bad \subseteq Nat
    OBVIOUS
  <2> HIDE DEF Bad
  <2>3. PICK d \in Bad : \A e \in Bad : d <= e
    BY <2>1, <2>2, LeastNat
  <2>4. PICK low \in D, high \in D :
            low < high /\ d = high - low /\ from[low][high] # found(low, high)
    BY <2>3 DEF Bad
  <2> DEFINE mid == low + (high - low) \div 2
  <2>5. /\ mid \in D /\ mid + 1 \in D /\ low <= mid /\ mid < high
        /\ found(low, high) = IF cps[mid].ledger <= l THEN found(mid + 1, high)
                              ELSE found(low, mid)
    BY <1>2, <2>4
  <2>6. from[low][high] = IF cps[mid].ledger <= l THEN from[mid + 1][high]
                          ELSE from[low][mid]
    <3>1. from[low][high] = At(from, low, high)
      BY <1>6
    <3>2. At(from, low, high) = IF cps[mid].ledger <= l THEN from[mid + 1][high]
                                ELSE from[low][mid]
      BY <2>4
    <3> HIDE DEF At, mid
    <3> QED
      BY <3>1, <3>2
  <2> HIDE DEF mid, At
  <2>7. ASSUME NEW x \in D, NEW y \in D, y - x < high - low
        PROVE  from[x][y] = found(x, y)
    <3>1. CASE x >= y
      BY <2>0, <3>1
    <3>2. CASE x < y
      <4>1. y - x \in Nat /\ ~(d <= y - x)
        BY <2>4, <2>7, <3>2
      <4>2. y - x \notin Bad
        BY <2>3, <4>1
      <4> QED
        BY <3>2, <4>1, <4>2 DEF Bad
    <3> QED
      BY <3>1, <3>2
  <2>8. from[mid + 1][high] = found(mid + 1, high) /\ from[low][mid] = found(low, mid)
    <3>1. low \in Int /\ high \in Int /\ mid \in Int
      BY <2>4, <2>5
    <3>2. high - (mid + 1) < high - low /\ mid - low < high - low
      BY <2>5, <3>1
    <3> HIDE DEF D
    <3> QED
      BY <2>4, <2>5, <2>7, <3>2
  <2> QED
    BY <2>4, <2>5, <2>6, <2>8
<1>8. 1 \in D /\ Len(cps) + 1 \in D /\ found(1, Len(cps) + 1) = k
  BY DEF found
<1> HIDE DEF D
<1> QED
  BY <1>1, <1>7, <1>8

-----------------------------------------------------------------------------
(* The logs *)

\* What a log consists of.
LogEntry == [ledger : Nat, balance : Nat]

\* A log of amounts written up to ledger h, one checkpoint for each ledger.
LogOK(log, h) ==
    /\ log \in Seq(LogEntry)
    /\ \A i \in 1 .. Len(log) : log[i].ledger <= h
    /\ \A i, j \in 1 .. Len(log) : i < j => log[i].ledger < log[j].ledger

\* The amount written last.
Latest(log) == IF log = <<>> THEN 0 ELSE log[Len(log)].balance

LEMMA SeqReplaces ==
    ASSUME NEW S, NEW s \in Seq(S), NEW i \in 1 .. Len(s), NEW e \in S
    PROVE  LET r == [s EXCEPT ![i] = e]
           IN  /\ r \in Seq(S) /\ Len(r) = Len(s) /\ r[i] = e
               /\ \A j \in 1 .. Len(s) : j # i => r[j] = s[j]
OBVIOUS

LEMMA SeqExtends ==
    ASSUME NEW S, NEW s \in Seq(S), NEW e \in S
    PROVE  LET r == Append(s, e)
           IN  /\ r \in Seq(S) /\ Len(r) = Len(s) + 1 /\ r[Len(s) + 1] = e
               /\ \A j \in 1 .. Len(s) : r[j] = s[j]
OBVIOUS

LEMMA LogTypes ==
    ASSUME NEW h, NEW log, LogOK(log, h)
    PROVE  /\ Len(log) \in Nat /\ (log = <<>> <=> Len(log) = 0)
           /\ \A i \in 1 .. Len(log) :
                 /\ log[i] \in LogEntry
                 /\ log[i].ledger \in Nat /\ log[i].balance \in Nat
<1>1. log \in Seq(LogEntry)
  BY DEF LogOK
<1>2. Len(log) \in Nat /\ (log = <<>> <=> Len(log) = 0)
  BY <1>1
<1>3. \A i \in 1 .. Len(log) : log[i] \in LogEntry
  BY <1>1
<1> QED
  BY <1>2, <1>3 DEF LogEntry

\* In a log the checkpoints up to any ledger are its first ones, and the last of
\* them is what is read.
LEMMA LogReads ==
    ASSUME NEW h \in Nat, NEW log, LogOK(log, h), NEW l \in Nat
    PROVE  \E k \in 0 .. Len(log) :
              /\ \A i \in 1 .. Len(log) : log[i].ledger <= l <=> i <= k
              /\ ReadAt(log, l) = IF k = 0 THEN 0 ELSE log[k].balance
<1> DEFINE Later == {i \in 1 .. Len(log) + 1 : i <= Len(log) => log[i].ledger > l}
<1>1. Len(log) \in Nat /\ \A i \in 1 .. Len(log) : log[i].ledger \in Nat
  BY LogTypes
<1>2. Len(log) + 1 \in Later /\ Later \subseteq Nat
  BY <1>1
<1>3. PICK m \in Later : \A i \in Later : m <= i
  <2> HIDE DEF Later
  <2> QED
    BY <1>2, LeastNat
<1>4. m - 1 \in 0 .. Len(log)
  BY <1>1, <1>3
<1>5. ASSUME NEW i \in 1 .. Len(log)
      PROVE  log[i].ledger <= l <=> i <= m - 1
  <2>1. CASE i < m
    BY <1>1, <1>3, <2>1
  <2>2. CASE i = m
    BY <1>1, <1>3, <2>2
  <2>3. CASE i > m
    <3>1. m \in 1 .. Len(log) /\ log[m].ledger > l
      BY <1>1, <1>3, <2>3
    <3>2. log[m].ledger < log[i].ledger
      BY <2>3, <3>1 DEF LogOK
    <3> QED
      BY <1>1, <1>3, <2>3, <3>1, <3>2
  <2> QED
    BY <1>1, <1>3, <2>1, <2>2, <2>3
<1>6. Search(log, l) = m - 1
  BY <1>1, <1>4, <1>5, SearchFinds
<1>7. ReadAt(log, l) = IF m - 1 = 0 THEN 0 ELSE log[m - 1].balance
  BY <1>6 DEF ReadAt
<1> QED
  BY <1>4, <1>5, <1>7

\* What is read for a ledger is the checkpoint with nothing later up to it.
LEMMA ReadIs ==
    ASSUME NEW h \in Nat, NEW log, LogOK(log, h), NEW l \in Nat,
           NEW k \in 0 .. Len(log),
           \A i \in 1 .. Len(log) : log[i].ledger <= l <=> i <= k
    PROVE  ReadAt(log, l) = IF k = 0 THEN 0 ELSE log[k].balance
<1>1. Len(log) \in Nat
  BY DEF LogOK
<1>2. Search(log, l) = k
  BY <1>1, SearchFinds
<1> QED
  BY <1>2 DEF ReadAt

\* From the ledger of the last write on, the amount written last is read.
LEMMA ReadsLatest ==
    ASSUME NEW h \in Nat, NEW log, LogOK(log, h)
    PROVE  ReadAt(log, h) = Latest(log)
<1>1. Len(log) \in Nat /\ (log = <<>> <=> Len(log) = 0)
  BY DEF LogOK
<1>2. \A i \in 1 .. Len(log) : log[i].ledger <= h <=> i <= Len(log)
  BY <1>1 DEF LogOK
<1>3. ReadAt(log, h) = IF Len(log) = 0 THEN 0 ELSE log[Len(log)].balance
  BY <1>1, <1>2, ReadIs
<1> QED
  BY <1>1, <1>3 DEF Latest

\* A write keeps a log one, is the latest amount, and changes no earlier reading.
LEMMA RecordKeeps ==
    ASSUME NEW h \in Nat, NEW log, LogOK(log, h), NEW v \in Nat
    PROVE  LET new == Record(log, h, v)
           IN  /\ LogOK(new, h) /\ Latest(new) = v
               /\ \A l \in Nat : l < h => ReadAt(new, l) = ReadAt(log, l)
<1> DEFINE new == Record(log, h, v)
           n == Len(log)
<1>1. n \in Nat /\ (log = <<>> <=> n = 0)
      /\ \A i \in 1 .. n : /\ log[i] \in LogEntry
                            /\ log[i].ledger \in Nat
  BY LogTypes
<1>2. CASE n # 0 /\ log[n].ledger = h
  <2>1. new = [log EXCEPT ![n].balance = v]
    BY <1>1, <1>2 DEF Record
  <2> HIDE DEF new
  <2>2. /\ Len(new) = n
        /\ \A i \in 1 .. n : i # n => new[i] = log[i]
        /\ new[n].ledger = h /\ new[n].balance = v
        /\ new \in Seq(LogEntry)
    <3> DEFINE e == [log[n] EXCEPT !.balance = v]
    <3>1. e \in LogEntry /\ e.ledger = h /\ e.balance = v
      BY <1>1, <1>2 DEF LogEntry
    <3>2. n \in 1 .. Len(log) /\ log \in Seq(LogEntry) /\ new = [log EXCEPT ![n] = e]
      BY <1>1, <1>2, <2>1 DEF LogOK
    <3> HIDE DEF e
    <3> QED
      BY <3>1, <3>2, SeqReplaces
  <2>3. \A i \in 1 .. n : new[i].ledger = log[i].ledger
    BY <1>2, <2>2
  <2>4. LogOK(new, h)
    BY <2>2, <2>3 DEF LogOK
  <2>5. Latest(new) = v
    BY <1>1, <1>2, <2>2 DEF Latest
  <2>6. ASSUME NEW l \in Nat, l < h PROVE ReadAt(new, l) = ReadAt(log, l)
    <3>1. PICK k \in 0 .. n :
             /\ \A i \in 1 .. n : log[i].ledger <= l <=> i <= k
             /\ ReadAt(log, l) = IF k = 0 THEN 0 ELSE log[k].balance
      BY LogReads
    <3>2. \A i \in 1 .. n : new[i].ledger <= l <=> i <= k
      BY <2>3, <3>1
    <3>3. ReadAt(new, l) = IF k = 0 THEN 0 ELSE new[k].balance
      BY <2>2, <2>4, <3>2, ReadIs
    <3>4. k < n
      BY <1>1, <1>2, <2>6, <3>1
    <3>5. k # 0 => new[k] = log[k]
      BY <1>1, <2>2, <3>4
    <3> QED
      BY <3>1, <3>3, <3>5
  <2> QED
    BY <2>4, <2>5, <2>6 DEF new
<1>3. CASE ~(n # 0 /\ log[n].ledger = h)
  <2>1. new = Append(log, [ledger |-> h, balance |-> v])
    BY <1>1, <1>3 DEF Record
  <2> HIDE DEF new
  <2>2. /\ Len(new) = n + 1
        /\ \A i \in 1 .. n : new[i] = log[i]
        /\ new[n + 1].ledger = h /\ new[n + 1].balance = v
        /\ new \in Seq(LogEntry)
    <3> DEFINE e == [ledger |-> h, balance |-> v]
    <3>1. e \in LogEntry /\ e.ledger = h /\ e.balance = v
      BY DEF LogEntry
    <3>2. log \in Seq(LogEntry) /\ new = Append(log, e)
      BY <2>1 DEF LogOK
    <3> HIDE DEF e
    <3> QED
      BY <3>1, <3>2, SeqExtends
  <2>3. \A i \in 1 .. n : log[i].ledger < h
    <3>1. n # 0 => log[n].ledger < h
      BY <1>1, <1>3 DEF LogOK
    <3>2. \A i \in 1 .. n : i < n => log[i].ledger < log[n].ledger
      BY <1>1 DEF LogOK
    <3> QED
      BY <1>1, <3>1, <3>2
  <2>4. LogOK(new, h)
    <3>1. ASSUME NEW i \in 1 .. n + 1 PROVE new[i].ledger <= h
      <4>1. i \in 1 .. n \/ i = n + 1
        BY <1>1
      <4> QED
        BY <1>1, <2>2, <2>3, <4>1
    <3>2. ASSUME NEW i \in 1 .. n + 1, NEW j \in 1 .. n + 1, i < j
          PROVE  new[i].ledger < new[j].ledger
      <4>1. i \in 1 .. n /\ new[i] = log[i]
        BY <1>1, <2>2, <3>2
      <4>2. CASE j = n + 1
        BY <2>2, <2>3, <4>1, <4>2
      <4>3. CASE j # n + 1
        <5>1. j \in 1 .. n /\ new[j] = log[j]
          BY <1>1, <2>2, <4>3
        <5> QED
          BY <3>2, <4>1, <5>1 DEF LogOK
      <4> QED
        BY <4>2, <4>3
    <3> QED
      BY <2>2, <3>1, <3>2 DEF LogOK
  <2>5. Latest(new) = v
    BY <1>1, <2>2 DEF Latest
  <2>6. ASSUME NEW l \in Nat, l < h PROVE ReadAt(new, l) = ReadAt(log, l)
    <3>1. PICK k \in 0 .. n :
             /\ \A i \in 1 .. n : log[i].ledger <= l <=> i <= k
             /\ ReadAt(log, l) = IF k = 0 THEN 0 ELSE log[k].balance
      BY LogReads
    <3>2. ASSUME NEW i \in 1 .. n + 1 PROVE new[i].ledger <= l <=> i <= k
      <4>1. CASE i \in 1 .. n
        BY <2>2, <3>1, <4>1
      <4>2. CASE i = n + 1
        BY <1>1, <2>2, <2>6, <3>1, <4>2
      <4> QED
        BY <1>1, <4>1, <4>2
    <3>3. k \in 0 .. Len(new) /\ (k # 0 => new[k] = log[k])
      BY <1>1, <2>2
    <3>4. ReadAt(new, l) = IF k = 0 THEN 0 ELSE new[k].balance
      <4>1. \A i \in 1 .. Len(new) : new[i].ledger <= l <=> i <= k
        BY <2>2, <3>2
      <4> HIDE DEF new
      <4> QED
        BY <2>4, <3>3, <4>1, ReadIs
    <3> QED
      BY <3>1, <3>3, <3>4
  <2> QED
    BY <2>4, <2>5, <2>6 DEF new
<1> QED
  BY <1>2, <1>3

-----------------------------------------------------------------------------
(* What the vault remembers *)

\* Every log is one, and ends with what is owned now.
LogsOK ==
    /\ ledger \in Nat
    /\ \A a \in Accounts : LogOK(checkpoints[a], ledger) /\ Latest(checkpoints[a]) = balance[a]
    /\ LogOK(supplyCheckpoints, ledger) /\ Latest(supplyCheckpoints) = totalSupply

\* The amount is written to the log, or neither changes.
Written(log, newLog, amount, newAmount) ==
    \/ newLog = log /\ newAmount = amount
    \/ newLog = Record(log, ledger, newAmount)

\* Every call writes the logs of the amounts it changes, in the ledger it runs in;
\* no amount changes when a ledger closes.
LEMMA StepWrites ==
    ASSUME VaultInv, LogsOK, [Next]_vars
    PROVE  \/ /\ ledger' = ledger
              /\ \A a \in Accounts :
                    Written(checkpoints[a], checkpoints'[a], balance[a], balance'[a])
              /\ Written(supplyCheckpoints, supplyCheckpoints', totalSupply, totalSupply')
           \/ ledger' = ledger + 1 /\ UNCHANGED shareVars
<1> DEFINE Writes ==
             /\ ledger' = ledger
             /\ \A a \in Accounts :
                   Written(checkpoints[a], checkpoints'[a], balance[a], balance'[a])
             /\ Written(supplyCheckpoints, supplyCheckpoints', totalSupply, totalSupply')
<1>0. balance \in [Accounts -> Amount]
  BY DEF VaultInv, CountsOK, LedgerTypeOK
<1>1. ASSUME NEW new, NEW holders, WriteShares(new, holders),
             \A a \in Accounts : a \notin holders => new[a] = balance[a]
      PROVE  \A a \in Accounts :
                Written(checkpoints[a], checkpoints'[a], balance[a], balance'[a])
  BY <1>1 DEF WriteShares, Written
<1>2. ASSUME NEW n, WriteTotalSupply(n)
      PROVE  Written(supplyCheckpoints, supplyCheckpoints', totalSupply, totalSupply')
  BY <1>2 DEF WriteTotalSupply, Written
<1>3. ASSUME NEW a \in Accounts, NEW n \in Amounts, Deposit(a, n) PROVE Writes
  <2> DEFINE shares == n * config.exchange_rate
             new == [balance EXCEPT ![a] = @ + shares]
  <2>1. MintShares(a, shares) /\ ledger' = ledger
    BY <1>3 DEF Deposit, clockVars
  <2>2. WriteShares(new, {a}) /\ WriteTotalSupply(totalSupply + shares)
    BY <2>1 DEF MintShares
  <2>3. \A b \in Accounts : b \notin {a} => new[b] = balance[b]
    BY <1>0
  <2> HIDE DEF shares, new
  <2> QED
    BY <1>1, <1>2, <2>1, <2>2, <2>3
<1>4. ASSUME NEW a \in Accounts, NEW n \in Amounts, Redeem(a, n) PROVE Writes
  <2> DEFINE new == [balance EXCEPT ![a] = @ - n]
  <2>1. BurnShares(a, n) /\ ledger' = ledger
    BY <1>4 DEF Redeem, clockVars
  <2>2. WriteShares(new, {a}) /\ WriteTotalSupply(totalSupply - n)
    BY <2>1 DEF BurnShares
  <2>3. \A b \in Accounts : b \notin {a} => new[b] = balance[b]
    BY <1>0
  <2> HIDE DEF new
  <2> QED
    BY <1>1, <1>2, <2>1, <2>2, <2>3
<1>5. ASSUME NEW a \in Accounts, NEW b \in Accounts, NEW n \in Amounts,
             \/ Transfer(a, b, n)
             \/ \E s \in Spenders : TransferFrom(s, a, b, n)
      PROVE  Writes
  <2> DEFINE new == [balance EXCEPT ![a] = @ - n, ![b] = @ + n]
  <2>1. MoveShares(a, b, n) /\ ledger' = ledger
    BY <1>5, TransferMoves DEF clockVars
  <2>2. CASE UNCHANGED shareVars
    BY <2>1, <2>2 DEF shareVars, Written
  <2>3. CASE ~UNCHANGED shareVars
    <3>1. WriteShares(new, {a, b}) /\ UNCHANGED <<totalSupply, supplyCheckpoints>>
      BY <2>1, <2>3 DEF MoveShares
    <3>2. \A c \in Accounts : c \notin {a, b} => new[c] = balance[c]
      BY <1>0
    <3> HIDE DEF new
    <3> QED
      BY <1>1, <2>1, <3>1, <3>2 DEF Written
  <2> QED
    BY <2>2, <2>3
<1>6. CASE OtherCall
  <2>1. UNCHANGED <<ledger, shareVars>>
    BY <1>6 DEF OtherCall, Approve, SetPaused, TransferAdmin, clockVars
  <2> QED
    BY <2>1 DEF shareVars, Written
<1>7. CASE Environment
  <2>1. ledger' = ledger \/ ledger' = ledger + 1
    BY <1>7 DEF Environment, CloseLedger, Donate, Seize, StandingChanges, clockVars
  <2>2. UNCHANGED shareVars
    BY <1>7 DEF Environment, CloseLedger, Donate, Seize, StandingChanges
  <2> QED
    BY <2>1, <2>2 DEF shareVars, Written
<1>8. CASE UNCHANGED vars
  BY <1>8 DEF vars, clockVars, shareVars, Written
<1> QED
  BY <1>3, <1>4, <1>5, <1>6, <1>7, <1>8, StepCases

LEMMA WrittenKeeps ==
    ASSUME NEW log, NEW newLog, NEW amount, NEW newAmount \in Nat, ledger \in Nat,
           LogOK(log, ledger), Latest(log) = amount, Written(log, newLog, amount, newAmount)
    PROVE  /\ LogOK(newLog, ledger) /\ Latest(newLog) = newAmount
           /\ \A l \in Nat : l < ledger => ReadAt(newLog, l) = ReadAt(log, l)
BY RecordKeeps DEF Written

\* A step keeps the logs, the readings of closed ledgers, and what a ledger closes with.
LEMMA LogsStep ==
    ASSUME VaultInv, LogsOK, [Next]_vars
    PROVE  /\ LogsOK'
           /\ \A l \in Nat : l < ledger =>
                 /\ \A a \in Accounts :
                       ReadAt(checkpoints'[a], l) = ReadAt(checkpoints[a], l)
                 /\ ReadAt(supplyCheckpoints', l) = ReadAt(supplyCheckpoints, l)
           /\ ledger' # ledger =>
                 /\ ledger' = ledger + 1
                 /\ \A a \in Accounts : ReadAt(checkpoints'[a], ledger) = balance[a]
                 /\ ReadAt(supplyCheckpoints', ledger) = totalSupply
<1>0. ledger \in Nat
  BY DEF LogsOK
<1>1. CASE /\ ledger' = ledger
           /\ \A a \in Accounts :
                 Written(checkpoints[a], checkpoints'[a], balance[a], balance'[a])
           /\ Written(supplyCheckpoints, supplyCheckpoints', totalSupply, totalSupply')
  <2>1. balance' \in [Accounts -> Nat] /\ totalSupply' \in Nat
    <3>1. VaultInv'
      BY VaultInvStep
    <3> QED
      BY <3>1, IMaxAssumption DEF VaultInv, CountsOK, LedgerTypeOK, Amount
  <2>2. ASSUME NEW a \in Accounts
        PROVE  /\ LogOK(checkpoints'[a], ledger) /\ Latest(checkpoints'[a]) = balance'[a]
               /\ \A l \in Nat : l < ledger =>
                     ReadAt(checkpoints'[a], l) = ReadAt(checkpoints[a], l)
    BY <1>0, <1>1, <2>1, WrittenKeeps DEF LogsOK
  <2>3. /\ LogOK(supplyCheckpoints', ledger) /\ Latest(supplyCheckpoints') = totalSupply'
        /\ \A l \in Nat : l < ledger =>
              ReadAt(supplyCheckpoints', l) = ReadAt(supplyCheckpoints, l)
    BY <1>0, <1>1, <2>1, WrittenKeeps DEF LogsOK
  <2>4. LogsOK'
    BY <1>0, <1>1, <2>2, <2>3 DEF LogsOK
  <2> QED
    BY <1>1, <2>2, <2>3, <2>4
<1>2. CASE ledger' = ledger + 1 /\ UNCHANGED shareVars
  <2>1. UNCHANGED <<balance, totalSupply, checkpoints, supplyCheckpoints>>
    BY <1>2 DEF shareVars
  <2>2. \A log : LogOK(log, ledger) => LogOK(log, ledger + 1)
    <3> SUFFICES ASSUME NEW log, LogOK(log, ledger) PROVE LogOK(log, ledger + 1)
      OBVIOUS
    <3>1. \A i \in 1 .. Len(log) : log[i].ledger \in Nat /\ log[i].ledger <= ledger
      BY LogTypes DEF LogOK
    <3>2. \A i \in 1 .. Len(log) : log[i].ledger <= ledger + 1
      BY <1>0, <3>1
    <3> QED
      BY <3>2 DEF LogOK
  <2>3. LogsOK'
    BY <1>0, <1>2, <2>1, <2>2 DEF LogsOK
  <2>4. /\ \A a \in Accounts : ReadAt(checkpoints[a], ledger) = balance[a]
        /\ ReadAt(supplyCheckpoints, ledger) = totalSupply
    BY <1>0, ReadsLatest DEF LogsOK
  <2> QED
    BY <1>2, <2>1, <2>3, <2>4
<1> QED
  BY <1>1, <1>2, StepWrites

LEMMA LogsInit == Init => LogsOK
<1> SUFFICES ASSUME Init PROVE LogsOK
  OBVIOUS
<1>1. LogOK(<<>>, 0) /\ Latest(<<>>) = 0
  BY DEF LogOK, Latest
<1> QED
  BY <1>1 DEF Init, LedgerInit, LogsOK

(***************************************************************************)
(* What balance_at and total_supply_at answer for a ledger is what it      *)
(* closed with, for good: whatever is written later, whoever writes it and *)
(* however long the logs become, the binary search finds the checkpoint of *)
(* that ledger.                                                            *)
(***************************************************************************)
THEOREM VaultPastBalancesStay == Spec => PastBalancesStay
<1> DEFINE Stay ==
             /\ \A l \in 0 .. ledger - 1 :
                   /\ \A a \in Accounts :
                         ReadAt(checkpoints'[a], l) = ReadAt(checkpoints[a], l)
                   /\ ReadAt(supplyCheckpoints', l) = ReadAt(supplyCheckpoints, l)
             /\ ledger' # ledger =>
                   /\ \A a \in Accounts : ReadAt(checkpoints'[a], ledger) = balance[a]
                   /\ ReadAt(supplyCheckpoints', ledger) = totalSupply
<1>1. ASSUME VaultInv, LogsOK, [Next]_vars
      PROVE  LogsOK' /\ Stay
  <2>1. \A l \in 0 .. ledger - 1 : l \in Nat /\ l < ledger
    BY <1>1 DEF LogsOK
  <2> QED
    BY <1>1, <2>1, LogsStep
<1> QED
  BY <1>1, LogsInit, VaultAlwaysInv, PTL DEF Spec, PastBalancesStay

(***************************************************************************)
(* The balances recorded for a closed ledger add up to the supply recorded *)
(* for it: they are what the ledger closed with, when the ledger of shares *)
(* was conserved, and the readings of neither change afterwards.           *)
(***************************************************************************)
THEOREM VaultRecordsAddUp == Spec => []RecordedSharesAddUp
<1>1. Init => RecordedSharesAddUp
  BY VaultBounds DEF Init, RecordedSharesAddUp
<1>2. ASSUME VaultInv, LogsOK, RecordedSharesAddUp, [Next]_vars
      PROVE  RecordedSharesAddUp'
  <2> DEFINE At(cps, l) == [a \in Accounts |-> ReadAt(cps[a], l)]
  <2> SUFFICES ASSUME NEW l \in 0 .. MaxLedger, l < ledger'
               PROVE  Total(At(checkpoints', l)) = ReadAt(supplyCheckpoints', l)
    BY DEF RecordedSharesAddUp
  <2>0. ledger \in Nat /\ l \in Nat
    BY <1>2, VaultBounds DEF LogsOK
  <2>1. CASE l < ledger
    <3>1. /\ \A a \in Accounts : ReadAt(checkpoints'[a], l) = ReadAt(checkpoints[a], l)
          /\ ReadAt(supplyCheckpoints', l) = ReadAt(supplyCheckpoints, l)
      BY <1>2, <2>0, <2>1, LogsStep
    <3>2. At(checkpoints', l) = At(checkpoints, l)
      BY <3>1
    <3>3. Total(At(checkpoints, l)) = ReadAt(supplyCheckpoints, l)
      BY <1>2, <2>1 DEF RecordedSharesAddUp
    <3> QED
      BY <3>1, <3>2, <3>3
  <2>2. CASE ~(l < ledger)
    <3>1. ledger' # ledger
      BY <2>2
    <3>2. /\ ledger' = ledger + 1
          /\ \A a \in Accounts : ReadAt(checkpoints'[a], ledger) = balance[a]
          /\ ReadAt(supplyCheckpoints', ledger) = totalSupply
      BY <1>2, <3>1, LogsStep
    <3>3. l = ledger
      BY <2>0, <2>2, <3>2
    <3>4. balance \in [Accounts -> Amount] /\ totalSupply = Total(balance)
      BY <1>2 DEF VaultInv, CountsOK, LedgerTypeOK, Conservation
    <3>5. At(checkpoints', l) = balance
      BY <3>2, <3>3, <3>4
    <3> QED
      BY <3>2, <3>3, <3>4, <3>5
  <2> QED
    BY <2>1, <2>2
<1>3. VaultInv /\ LogsOK /\ [Next]_vars => LogsOK'
  BY LogsStep
<1> QED
  BY <1>1, <1>2, <1>3, LogsInit, VaultAlwaysInv, PTL DEF Spec

-----------------------------------------------------------------------------
(* What the units cover *)

\* The i-th of the blocks of r numbers lies in the first n blocks, and two blocks
\* have no number in common.
LEMMA Blocks ==
    ASSUME NEW r \in Nat \ {0}, NEW n \in Nat, NEW i \in 1 .. n, NEW j \in 1 .. r
    PROVE  (i - 1) * r + j \in 1 .. n * r
<1>1. (i - 1) * r \in Nat
  BY SharesOfLess
<1>2. n * r - i * r \in Nat
  <2>1. n - i \in Nat /\ n * r - i * r = (n - i) * r
    BY SharesOfLess
  <2>2. (n - i) * r \in Nat
    BY <2>1, SMT
  <2> QED
    BY <2>1, <2>2
<1>3. (i - 1) * r = i * r - r
  BY SMT
<1>4. i * r \in Nat /\ n * r \in Nat
  BY SMT
<1> QED
  BY <1>1, <1>2, <1>3, <1>4

LEMMA BlocksDiffer ==
    ASSUME NEW r \in Nat \ {0}, NEW i \in Nat, NEW k \in Nat, i < k,
           NEW j \in 1 .. r, NEW l \in 1 .. r
    PROVE  (i - 1) * r + j # (k - 1) * r + l
<1>1. (k - 1) * r = (i - 1) * r + (k - i) * r
  BY SMT
<1>2. (k - i) * r >= r
  <2>1. k - i - 1 \in Nat /\ (k - i) * r = (k - i - 1) * r + r
    BY SMT
  <2>2. (k - i - 1) * r \in Nat
    BY <2>1, SMT
  <2> QED
    BY <2>1, <2>2
<1>3. (i - 1) * r \in Int /\ (k - i) * r \in Int
  BY SMT
<1> QED
  BY <1>1, <1>2, <1>3

\* If each entry of `part` is covered r times by that of `bal`, so is the total: each
\* unit of `part` has r units of `bal` to itself.
LEMMA TotalScales ==
    ASSUME NEW A, IsFiniteSet(A), NEW M \in Nat, NEW r \in Nat \ {0},
           NEW part \in [A -> 0 .. M], NEW bal \in [A -> 0 .. M],
           \A a \in A : part[a] * r <= bal[a]
    PROVE  Total(part) * r <= Total(bal)
<1> DEFINE S == Units(part) \X (1 .. r)
           own == [p \in S |-> <<p[1][1], (p[1][2] - 1) * r + p[2]>>]
<1>1. /\ IsFiniteSet(1 .. r) /\ Cardinality(1 .. r) = r
      /\ IsFiniteSet(Units(part)) /\ IsFiniteSet(Units(bal))
  <2>1. IsFiniteSet(1 .. r) /\ Cardinality(1 .. r) = r
    BY FS_Interval
  <2>2. IsFiniteSet(Units(part)) /\ IsFiniteSet(Units(bal))
    BY UnitsFinite
  <2> QED
    BY <2>1, <2>2
<1>2. IsFiniteSet(S) /\ Cardinality(S) = Total(part) * r
  BY <1>1, FS_Product DEF Total
<1>3. ASSUME NEW p \in S
      PROVE  /\ p[1] \in A \X (1 .. M) /\ p[1][2] <= part[p[1][1]] /\ p[2] \in 1 .. r
             /\ p = <<p[1], p[2]>> /\ p[1] = <<p[1][1], p[1][2]>>
  <2>1. p[1] \in Units(part) /\ p[2] \in 1 .. r /\ p = <<p[1], p[2]>>
    OBVIOUS
  <2>2. p[1] \in A \X (1 .. M) /\ p[1][2] <= part[p[1][1]]
    BY <2>1, UnitsAre
  <2> QED
    BY <2>1, <2>2
<1>4. ASSUME NEW p \in S
      PROVE  own[p] \in Units(bal)
  <2> DEFINE a == p[1][1]
             u == (p[1][2] - 1) * r + p[2]
  <2>1. /\ a \in A /\ p[1][2] \in 1 .. part[a] /\ p[2] \in 1 .. r
        /\ part[a] \in Nat /\ bal[a] \in 0 .. M
    BY <1>3
  <2>2. u \in 1 .. part[a] * r
    BY <2>1, Blocks
  <2>3. part[a] * r \in Nat /\ part[a] * r <= bal[a]
    BY <2>1, SMT
  <2>4. own[p] = <<a, u>>
    OBVIOUS
  <2> HIDE DEF own, u, a
  <2>5. u \in 1 .. M /\ u <= bal[a]
    BY <2>1, <2>2, <2>3
  <2>6. own[p] \in A \X (1 .. M) /\ own[p][1] = a /\ own[p][2] = u
    BY <2>1, <2>4, <2>5
  <2> QED
    BY <2>5, <2>6, UnitsAre
<1>5. ASSUME NEW p \in S, NEW q \in S, own[p] = own[q]
      PROVE  p = q
  <2> DEFINE i == p[1][2]
             j == p[2]
             k == q[1][2]
             l == q[2]
  <2>1. /\ i \in Nat /\ k \in Nat /\ j \in 1 .. r /\ l \in 1 .. r
        /\ p = <<<<p[1][1], i>>, j>> /\ q = <<<<q[1][1], k>>, l>>
    BY <1>3
  <2>2. p[1][1] = q[1][1] /\ (i - 1) * r + j = (k - 1) * r + l
    BY <1>5
  <2> HIDE DEF own, S, i, j, k, l
  <2>3. i = k
    BY <2>1, <2>2, BlocksDiffer
  <2>4. j = l
    <3>1. (i - 1) * r \in Int
      BY <2>1, SMT
    <3> QED
      BY <2>1, <2>2, <2>3, <3>1
  <2> QED
    BY <2>1, <2>2, <2>3, <2>4
<1>6. own \in Injection(S, Units(bal))
  <2>1. own \in [S -> Units(bal)]
    BY <1>4
  <2>2. \A p, q \in S : own[p] = own[q] => p = q
    BY <1>5
  <2> HIDE DEF own, S
  <2> QED
    BY <2>1, <2>2 DEF Injection, IsInjective
<1> HIDE DEF own, S
<1>7. Cardinality(S) <= Cardinality(Units(bal))
  BY <1>1, <1>6, FS_Injection
<1> QED
  BY <1>2, <1>7 DEF Total

\* What covers r times as much is r times what covers it.
LEMMA CancelRate ==
    ASSUME NEW m \in Nat, NEW n \in Nat, NEW r \in Nat \ {0}, m * r <= n * r
    PROVE  m <= n
<1> SUFFICES ASSUME m > n PROVE FALSE
  OBVIOUS
<1>1. m * r = n * r + (m - n) * r
  BY SMT
<1>2. (m - n) * r \in Nat \ {0}
  <2>1. m - n \in Nat \ {0}
    OBVIOUS
  <2> QED
    BY <2>1, SharesOfMore
<1>3. n * r \in Nat /\ m * r \in Nat
  BY SMT
<1> QED
  BY <1>1, <1>2, <1>3

\* The vault owns what it accounts for.
UnitsHeld == underlyingHeld <= units[vault] \/ seized

LEMMA UnitsHeldStep ==
    ASSUME VaultInv, UnitsOK, UnitsHeld, [Next]_vars PROVE UnitsHeld'
<1> USE DEF backVars, worldVars
<1>0. /\ vault \in Accounts /\ Signers \subseteq Accounts /\ vault \notin Signers
      /\ units \in [Accounts -> Nat] /\ underlyingHeld \in Nat
  BY VaultAssumption DEF Signers, UnitsOK, VaultInv, CountsOK
<1>1. ASSUME NEW a \in Accounts, NEW n \in Amounts, Deposit(a, n) PROVE UnitsHeld'
  <2>1. n \in Nat /\ underlyingHeld' = underlyingHeld + n
    BY <1>1, DepositCreates
  <2>2. MoveUnits(a, vault, n) /\ seized' = seized
    BY <1>1 DEF Deposit
  <2>3. units'[vault] = units[vault] + n
    BY <1>0, <2>1, <2>2 DEF MoveUnits
  <2> QED
    BY <1>0, <2>1, <2>2, <2>3 DEF UnitsHeld
<1>2. ASSUME NEW a \in Accounts, NEW n \in Amounts, Redeem(a, n) PROVE UnitsHeld'
  <2> DEFINE paid == n \div config.exchange_rate
  <2>1. paid \in Nat /\ paid <= underlyingHeld /\ underlyingHeld' = underlyingHeld - paid
    BY <1>2, RedeemDestroys
  <2>2. MoveUnits(vault, a, paid) /\ seized' = seized
    BY <1>2 DEF Redeem
  <2> HIDE DEF paid
  <2>3. units'[vault] = units[vault] - paid
    BY <1>0, <2>1, <2>2 DEF MoveUnits
  <2> QED
    BY <1>0, <2>1, <2>2, <2>3 DEF UnitsHeld
<1>3. ASSUME NEW a \in Accounts, NEW b \in Accounts, NEW n \in Amounts,
             \/ Transfer(a, b, n)
             \/ \E s \in Spenders : TransferFrom(s, a, b, n)
      PROVE  UnitsHeld'
  BY <1>3 DEF Transfer, TransferFrom, UnitsHeld
<1>4. ASSUME NEW a \in Signers, NEW n \in Amounts, Donate(a, n) PROVE UnitsHeld'
  <2>1. n \in Nat /\ MoveUnits(a, vault, n) /\ seized' = seized
        /\ underlyingHeld' = underlyingHeld
    BY <1>4, VaultInputs DEF Donate
  <2>2. units'[vault] = units[vault] + n
    BY <1>0, <2>1 DEF MoveUnits
  <2> QED
    BY <1>0, <2>1, <2>2 DEF UnitsHeld
<1>5. ASSUME NEW a \in Seizers, NEW n \in Amounts, Seize(a, n) PROVE UnitsHeld'
  BY <1>5 DEF Seize, UnitsHeld
<1>6. CASE OtherCall
  BY <1>6 DEF OtherCall, Approve, SetPaused, TransferAdmin, UnitsHeld
<1>7. CASE CloseLedger \/ \E a \in Accounts, l \in StandingInputs : StandingChanges(a, l)
  BY <1>7 DEF CloseLedger, StandingChanges, UnitsHeld
<1>8. CASE UNCHANGED vars
  BY <1>8 DEF vars, UnitsHeld
<1>9. CASE Environment
  BY <1>4, <1>5, <1>7, <1>9 DEF Environment
<1> QED
  BY <1>1, <1>2, <1>3, <1>6, <1>8, <1>9, StepCases

\* What all holders could redeem now is covered, because what they own is.
LEMMA RedeemableCovered ==
    ASSUME VaultInv
    PROVE  Total([a \in Accounts |-> Redeemable(a) \div config.exchange_rate])
              <= underlyingHeld
<1> DEFINE rate == config.exchange_rate
           part == [a \in Accounts |-> Redeemable(a) \div rate]
<1>1. /\ rate \in Nat \ {0} /\ IMax \in Nat /\ balance \in [Accounts -> 0 .. IMax]
      /\ underlyingHeld \in Nat /\ underlyingHeld * rate = Total(balance)
      /\ IsFiniteSet(Accounts)
  BY IMaxAssumption, AccountsAssumption
     DEF VaultInv, CountsOK, LedgerTypeOK, Amount, SharesAreBacked, Conservation
<1>2. ASSUME NEW a \in Accounts
      PROVE  part[a] \in 0 .. IMax /\ part[a] * rate <= balance[a]
  <2>1. Redeemable(a) \in 0 .. balance[a]
    <3> HIDE DEF part
    <3>1. balance[a] % rate \in 0 .. balance[a]
      BY <1>1, Remainder
    <3> QED
      BY <1>1, <3>1 DEF Redeemable
  <2> DEFINE m == Redeemable(a)
  <2> HIDE DEF m
  <2>2. m \in Nat /\ m <= balance[a] /\ balance[a] \in 0 .. IMax
    BY <1>1, <2>1 DEF m
  <2>3. m \div rate \in Nat /\ (m \div rate) * rate <= m /\ m \div rate <= m
    BY <1>1, <2>2, SMT
  <2>4. part[a] = m \div rate
    BY DEF m
  <2> HIDE DEF part, rate
  <2>5. (m \div rate) * rate \in Nat
    BY <1>1, <2>3, SMT
  <2> QED
    BY <1>1, <2>2, <2>3, <2>4, <2>5
<1>3. part \in [Accounts -> 0 .. IMax]
  BY <1>2
<1> HIDE DEF part, rate
<1>4. Total(part) \in Nat
  BY <1>1, <1>3, UnitsFinite
<1>5. Total(part) * rate <= Total(balance)
  BY <1>1, <1>2, <1>3, TotalScales
<1>6. Total(part) <= underlyingHeld
  BY <1>1, <1>4, <1>5, CancelRate
<1> QED
  BY <1>6 DEF part, rate

(***************************************************************************)
(* What redeemable() promises can be paid: all holders together redeem no  *)
(* more units than the vault accounts for, at any rate and whatever the    *)
(* division leaves over, and unless units were seized from it the vault    *)
(* owns those units.                                                       *)
(***************************************************************************)
THEOREM VaultCanPay == Spec => []RedeemableCanBePaid
<1>1. Init => UnitsOK /\ UnitsHeld
  <2> SUFFICES ASSUME Init PROVE UnitsOK /\ UnitsHeld
    OBVIOUS
  <2>1. units \in [Accounts -> Amount] /\ units[vault] = 0 /\ underlyingHeld = 0
    BY VaultInputs DEF Init
  <2> QED
    BY <2>1, IMaxAssumption DEF UnitsOK, UnitsHeld, Amount
<1>2. VaultInv /\ UnitsOK /\ UnitsHeld /\ [Next]_vars => UnitsOK' /\ UnitsHeld'
  BY UnitsStep, UnitsHeldStep
<1>3. VaultInv /\ UnitsHeld => RedeemableCanBePaid
  BY RedeemableCovered DEF UnitsHeld, RedeemableCanBePaid
<1> QED
  BY <1>1, <1>2, <1>3, VaultAlwaysInv, PTL DEF Spec
-----------------------------------------------------------------------------
(***************************************************************************)
(* The value the vault reports, for any sources, decimals, limits and      *)
(* answers.  These are queries of the same contract, over state (series,   *)
(* oracles, answer) that the calls above do not touch.                     *)
(***************************************************************************)

(* Powers of ten *)

\* The recursive function exists, for its beginnings do and agree with each other.
LEMMA PowerIs ==
    \A n \in Nat : Pow10[n] = IF n = 0 THEN 1 ELSE 10 * Pow10[n - 1]
<1> DEFINE At(f, n) == IF n = 0 THEN 1 ELSE 10 * f[n - 1]
           Holds(f, k) == \A n \in 0 .. k : f[n] = At(f, n)
           Solves(f) == f = [n \in Nat |-> At(f, n)]
           pow == CHOOSE f : Solves(f)
           begin(k) == CHOOSE f : Holds(f, k)
           h == [n \in Nat |-> begin(n)[n]]
<1>1. Pow10 = pow
  BY DEF Pow10
<1>2. ASSUME NEW k \in Nat
      PROVE  \E f : Holds(f, k)
  <2> DEFINE Open == {m \in Nat : ~\E f : Holds(f, m)}
  <2> SUFFICES ASSUME Open # {}
               PROVE  FALSE
    OBVIOUS
  <2>1. PICK m \in Open : \A j \in Open : m <= j
    <3>1. Open \subseteq Nat
      OBVIOUS
    <3> HIDE DEF Open
    <3> QED
      BY <3>1, LeastNat
  <2>2. m \in Nat /\ ~\E f : Holds(f, m)
    OBVIOUS
  <2>3. m # 0
    <3>1. Holds([n \in {0} |-> 1], 0)
      OBVIOUS
    <3> HIDE DEF Holds
    <3> QED
      BY <2>2, <3>1
  <2>4. m - 1 \in Nat /\ m - 1 \notin Open
    <3> HIDE DEF Open
    <3> QED
      BY <2>1, <2>2, <2>3
  <2>5. PICK f : Holds(f, m - 1)
    BY <2>4
  <2> DEFINE g == [n \in 0 .. m |-> IF n < m THEN f[n] ELSE At(f, n)]
  <2>6. ASSUME NEW n \in 0 .. m
        PROVE  g[n] = At(g, n)
    <3>1. g[n] = At(f, n)
      <4>1. n < m => n \in 0 .. m - 1
        BY <2>2
      <4> QED
        BY <2>5, <4>1
    <3>2. n # 0 => n - 1 \in 0 .. m /\ n - 1 < m
      BY <2>2
    <3> QED
      BY <3>1, <3>2
  <2>7. Holds(g, m)
    BY <2>6
  <2> HIDE DEF Holds, g
  <2> QED
    BY <2>2, <2>7
<1>3. ASSUME NEW k \in Nat
      PROVE  Holds(begin(k), k)
  <2> HIDE DEF Holds
  <2> QED
    BY <1>2
<1> HIDE DEF begin
<1>4. ASSUME NEW k \in Nat, NEW m \in Nat, k <= m
      PROVE  \A n \in 0 .. k : begin(k)[n] = begin(m)[n]
  <2> DEFINE Bad == {n \in Nat : n <= k /\ begin(k)[n] # begin(m)[n]}
  <2> SUFFICES ASSUME Bad # {}
               PROVE  FALSE
    OBVIOUS
  <2>1. PICK n \in Bad : \A j \in Bad : n <= j
    <3>1. Bad \subseteq Nat
      OBVIOUS
    <3> HIDE DEF Bad
    <3> QED
      BY <3>1, LeastNat
  <2>2. n \in 0 .. k /\ n \in 0 .. m /\ begin(k)[n] # begin(m)[n]
    BY <1>4
  <2>3. begin(k)[n] = At(begin(k), n) /\ begin(m)[n] = At(begin(m), n)
    BY <1>3, <2>2
  <2>4. n # 0
    BY <2>2, <2>3
  <2>5. n - 1 \in Nat /\ n - 1 <= k /\ n - 1 \notin Bad
    <3> HIDE DEF Bad
    <3> QED
      BY <2>1, <2>2, <2>4
  <2> QED
    BY <2>2, <2>3, <2>4, <2>5
<1>5. ASSUME NEW n \in Nat
      PROVE  h[n] = At(h, n)
  <2>1. begin(n)[n] = At(begin(n), n)
    BY <1>3
  <2>2. n # 0 => n - 1 \in Nat /\ begin(n - 1)[n - 1] = begin(n)[n - 1]
    <3>1. n # 0 => n - 1 \in Nat /\ n - 1 <= n /\ n - 1 \in 0 .. n - 1
      OBVIOUS
    <3> QED
      BY <1>4, <3>1
  <2> QED
    BY <2>1, <2>2
<1>6. Solves(h)
  <2>1. h = [n \in Nat |-> At(h, n)]
    BY <1>5
  <2> QED
    BY <2>1
<1>7. Solves(pow)
  <2> HIDE DEF Solves, h
  <2> QED
    BY <1>6
<1> HIDE DEF pow
<1>8. \A n \in Nat : pow[n] = At(pow, n)
  <2>1. \A v : v = [n \in Nat |-> At(pow, n)] => \A n \in Nat : v[n] = At(pow, n)
    OBVIOUS
  <2>2. pow = [n \in Nat |-> At(pow, n)]
    BY <1>7
  <2> HIDE DEF At
  <2> QED
    BY <2>1, <2>2
<1> QED
  BY <1>1, <1>8

LEMMA PowerIsPositive ==
    \A n \in Nat : Pow10[n] \in Nat \ {0}
<1> DEFINE Bad == {n \in Nat : Pow10[n] \notin Nat \ {0}}
<1> SUFFICES ASSUME Bad # {}
             PROVE  FALSE
  OBVIOUS
<1>1. PICK n \in Bad : \A j \in Bad : n <= j
  <2>1. Bad \subseteq Nat
    OBVIOUS
  <2> HIDE DEF Bad
  <2> QED
    BY <2>1, LeastNat
<1>2. n \in Nat /\ Pow10[n] \notin Nat \ {0}
  OBVIOUS
<1>3. n # 0
  BY <1>2, PowerIs
<1>4. n - 1 \in Nat /\ n - 1 \notin Bad
  <2> HIDE DEF Bad
  <2> QED
    BY <1>1, <1>2, <1>3
<1>5. Pow10[n] = 10 * Pow10[n - 1] /\ Pow10[n - 1] \in Nat \ {0}
  BY <1>2, <1>3, <1>4, PowerIs
<1> QED
  BY <1>2, <1>5

LEMMA PowersMultiply ==
    ASSUME NEW m \in Nat
    PROVE  \A n \in Nat : Pow10[m + n] = Pow10[m] * Pow10[n]
<1> DEFINE Bad == {n \in Nat : Pow10[m + n] # Pow10[m] * Pow10[n]}
<1> SUFFICES ASSUME Bad # {}
             PROVE  FALSE
  OBVIOUS
<1>1. PICK n \in Bad : \A j \in Bad : n <= j
  <2>1. Bad \subseteq Nat
    OBVIOUS
  <2> HIDE DEF Bad
  <2> QED
    BY <2>1, LeastNat
<1>2. n \in Nat /\ Pow10[m + n] # Pow10[m] * Pow10[n]
  OBVIOUS
<1>3. Pow10[m] \in Nat
  BY PowerIsPositive
<1>4. n # 0
  BY <1>2, <1>3, PowerIs
<1>5. n - 1 \in Nat /\ n - 1 \notin Bad
  <2> HIDE DEF Bad
  <2> QED
    BY <1>1, <1>2, <1>4
<1>6. /\ m + n \in Nat /\ m + n # 0 /\ (m + n) - 1 = m + (n - 1)
      /\ Pow10[m + (n - 1)] = Pow10[m] * Pow10[n - 1]
  BY <1>2, <1>5
<1>7. /\ Pow10[m + n] = 10 * Pow10[m + (n - 1)]
      /\ Pow10[n] = 10 * Pow10[n - 1]
      /\ Pow10[n - 1] \in Nat
  BY <1>2, <1>4, <1>5, <1>6, PowerIs, PowerIsPositive
<1>8. \A x, y \in Nat : 10 * (x * y) = x * (10 * y)
  BY SMT
<1>9. 10 * (Pow10[m] * Pow10[n - 1]) = Pow10[m] * (10 * Pow10[n - 1])
  BY <1>3, <1>7, <1>8
<1> QED
  BY <1>2, <1>6, <1>7, <1>9

-----------------------------------------------------------------------------
(* The sources *)

\* The inductive invariant: the feeds are in order, with a newest entry each, and the
\* configuration is one that set_oracles let through.
QueryInv ==
    /\ now \in Moments
    /\ series \in [AssetIds -> SUBSET Entry]
    /\ \A a \in AssetIds :
          /\ \A e \in series[a] : e.tick <= e.published
          /\ series[a] # {} => \E e \in series[a] : \A f \in series[a] : f.tick <= e.tick
    /\ answer \in [Others -> [price : Int, timestamp : Nat] \cup {None}]
    /\ oracles \in OracleInputs \cup {None}
    /\ oracles # None => ValidOracles(oracles)

LEMMA NumbersAre ==
    /\ \A m \in Moments : m \in Nat
    /\ \A p \in Prices : p \in Int
    /\ \A e \in Entry : e.tick \in Nat /\ e.published \in Nat /\ e.price \in Int
<1>1. Moments \subseteq Nat /\ Prices \subseteq 1 .. I128Max /\ I128Max \in Nat
  BY NavBounds
<1>2. \A m \in Moments : m \in Nat
  BY <1>1
<1>3. \A p \in Prices : p \in Int
  BY <1>1
<1> QED
  BY <1>2, <1>3 DEF Entry

LEMMA QueryInvInit ==
    ASSUME NavInit
    PROVE  QueryInv
BY DEF NavInit, FeedInit, QueryInv

LEMMA QueryInvStep ==
    ASSUME QueryInv, [NavNext]_navVars
    PROVE  QueryInv'
<1> USE DEF QueryInv, feedVars
<1>1. ASSUME NEW c \in OracleInputs, NEW caller, SetOracles(caller, c)
      PROVE  QueryInv'
  BY <1>1 DEF SetOracles, ValidOracles
<1>2. CASE FeedMoves
  <2> USE <1>2 DEF FeedMoves
  <2>1. CASE Wait
    BY <2>1 DEF Wait, ValidOracles
  <2>2. ASSUME NEW a \in AssetIds, NEW e \in Entry, Publish(a, e)
        PROVE  QueryInv'
    <3> USE <2>2 DEF Publish
    <3>1. /\ series' \in [AssetIds -> SUBSET Entry]
          /\ series'[a] = series[a] \cup {e}
          /\ \A b \in AssetIds : b # a => series'[b] = series[b]
      OBVIOUS
    <3>2. e.tick \in Nat /\ \A f \in series[a] : f.tick \in Nat
      BY NumbersAre
    <3>3. \A f \in series'[a] : f.tick <= e.tick
      BY <3>1, <3>2
    <3>4. \A f \in series'[a] : f.tick <= f.published
      BY <3>1
    <3>5. e \in series'[a]
      BY <3>1
    <3>6. \A b \in AssetIds :
             /\ \A f \in series'[b] : f.tick <= f.published
             /\ series'[b] # {} => \E g \in series'[b] : \A f \in series'[b] : f.tick <= g.tick
      BY <3>1, <3>3, <3>4, <3>5
    <3> QED
      BY <3>1, <3>6 DEF ValidOracles
  <2> QED
    BY <2>1, <2>2 DEF FeedNext
<1>3. ASSUME NEW s \in Others, NEW a \in Answers[s], AnswerChanges(s, a)
      PROVE  QueryInv'
  <2>1. a \in [price : Int, timestamp : Nat] \cup {None}
    BY NavInputs
  <2> QED
    BY <1>3, <2>1 DEF AnswerChanges, ValidOracles
<1>4. CASE UNCHANGED navVars
  BY <1>4 DEF navVars, ValidOracles
<1> QED
  BY <1>1, <1>2, <1>3, <1>4 DEF NavNext

\* What a source answers is a price with its date; an oracle-adapter published it no
\* earlier than that.
LEMMA SourceAnswers ==
    ASSUME QueryInv, NEW s \in Sources, LastPrice(s) # None
    PROVE  /\ LastPrice(s) \in [price : Int, timestamp : Nat]
           /\ s \in AssetIds =>
                \E e \in series[s] :
                    /\ e.price = LastPrice(s).price
                    /\ e.published \in Nat /\ LastPrice(s).timestamp <= e.published
<1>1. CASE s \in Others
  <2>1. s \notin AssetIds /\ LastPrice(s) = answer[s]
    BY <1>1, NavInputs DEF LastPrice
  <2> QED
    BY <1>1, <2>1 DEF QueryInv
<1>2. CASE s \notin Others
  <2> DEFINE newest == CHOOSE e \in series[s] : \A f \in series[s] : f.tick <= e.tick
  <2>1. s \in AssetIds
    BY <1>2 DEF Sources
  <2>2. /\ series[s] # {}
        /\ LastPrice(s) = [price |-> newest.price, timestamp |-> newest.tick]
    BY <1>2 DEF LastPrice
  <2>3. newest \in series[s]
    <3>1. \E e \in series[s] : \A f \in series[s] : f.tick <= e.tick
      BY <2>1, <2>2 DEF QueryInv
    <3> QED
      BY <3>1
  <2> HIDE DEF newest
  <2>4. newest \in Entry /\ newest.tick <= newest.published
    BY <2>1, <2>3 DEF QueryInv
  <2>5. newest.price \in Int /\ newest.tick \in Nat /\ newest.published \in Nat
    BY <2>4, NumbersAre
  <2> QED
    BY <2>2, <2>3, <2>4, <2>5
<1> QED
  BY <1>1, <1>2

\* Changing the decimals of a price claims no more than the price.
LEMMA NormalizeClaimsNoMore ==
    ASSUME NavDecimals \in Nat, NEW price \in Nat, NEW from \in Nat,
           Normalize(price, from) # None
    PROVE  /\ Normalize(price, from) \in Nat
           /\ Normalize(price, from) * Pow10[from] <= price * Pow10[NavDecimals]
<1> DEFINE x == Normalize(price, from)
           f == Pow10[AbsDiff(from, NavDecimals)]
<1>1. CASE from >= NavDecimals
  <2> DEFINE d == from - NavDecimals
             p == Pow10[d]
             r == Pow10[NavDecimals]
  <2>1. d \in Nat /\ NavDecimals + d = from /\ AbsDiff(from, NavDecimals) = d
    BY <1>1 DEF AbsDiff
  <2>2. x = price \div p
    BY <1>1, <2>1 DEF Normalize
  <2>3. p \in Nat \ {0} /\ r \in Nat /\ Pow10[from] = r * p
    <3>1. Pow10[NavDecimals + d] = r * p
      BY <2>1, PowersMultiply
    <3> QED
      BY <2>1, <3>1, PowerIsPositive
  <2> HIDE DEF p, r, x, d
  <2>4. x \in Nat /\ x * p <= price
    BY <2>2, <2>3, SMT
  <2>5. x * (r * p) = (x * p) * r /\ (x * p) * r <= price * r
    <3>1. \A i, j, k \in Nat : i * (j * k) = (i * k) * j
      BY SMT
    <3>2. x * p \in Nat
      BY <2>3, <2>4, SMT
    <3>3. \A i, j, k \in Nat : i <= j => i * k <= j * k
      BY SMT
    <3> QED
      BY <2>3, <2>4, <3>1, <3>2, <3>3
  <2> QED
    BY <2>3, <2>4, <2>5 DEF x, r
<1>2. CASE ~(from >= NavDecimals)
  <2> DEFINE d == NavDecimals - from
             p == Pow10[d]
             r == Pow10[from]
  <2>1. d \in Nat /\ from + d = NavDecimals /\ AbsDiff(from, NavDecimals) = d
    BY <1>2 DEF AbsDiff
  <2>2. x = price * p
    BY <1>2, <2>1 DEF Normalize, Checked
  <2>3. p \in Nat /\ r \in Nat /\ Pow10[NavDecimals] = r * p
    <3>1. Pow10[from + d] = r * p
      BY <2>1, PowersMultiply
    <3> QED
      BY <2>1, <3>1, PowerIsPositive
  <2> HIDE DEF p, r, x, d
  <2>4. x \in Nat /\ x * r = price * (r * p)
    <3>1. \A i, j, k \in Nat : i * j \in Nat /\ (i * j) * k = i * (k * j)
      BY SMT
    <3> QED
      BY <2>2, <2>3, <3>1
  <2>5. x * r \in Nat
    BY <2>3, <2>4, SMT
  <2> QED
    BY <2>3, <2>4, <2>5 DEF x, r
<1> QED
  BY <1>1, <1>2

\* A price that is taken is positive, dated within the limit, and claims no more.
LEMMA Fetched ==
    ASSUME QueryInv, NEW s \in Sources, NEW st \in Nat, Fetch(s, st) # None
    PROVE  LET d == LastPrice(s)
               f == Fetch(s, st)
           IN  /\ d # None /\ d.price \in Nat \ {0} /\ d.timestamp \in Nat
               /\ d.timestamp <= now /\ now - d.timestamp <= st
               /\ f.timestamp = d.timestamp
               /\ f.price = Normalize(d.price, Decimals[OracleOf[s]])
               /\ f.price \in Nat
               /\ f.price * Pow10[Decimals[OracleOf[s]]] <= d.price * Pow10[NavDecimals]
<1> DEFINE d == LastPrice(s)
           n == Normalize(d.price, Decimals[OracleOf[s]])
<1>1. /\ d # None /\ d.price > 0 /\ Fresh(d, st) /\ n # None
      /\ Fetch(s, st) = [price |-> n, timestamp |-> d.timestamp]
  BY DEF Fetch
<1>2. d.price \in Nat \ {0} /\ d.timestamp \in Nat
  <2>1. d.price \in Int /\ d.timestamp \in Nat
    BY <1>1, SourceAnswers
  <2> QED
    BY <1>1, <2>1
<1>3. Decimals[OracleOf[s]] \in Nat /\ NavDecimals \in Nat
  BY NavBounds
<1>4. n \in Nat /\ n * Pow10[Decimals[OracleOf[s]]] <= d.price * Pow10[NavDecimals]
  BY <1>1, <1>2, <1>3, NormalizeClaimsNoMore
<1> HIDE DEF n
<1> QED
  BY <1>1, <1>2, <1>4 DEF Fresh, n

-----------------------------------------------------------------------------
(* The queries *)

LEMMA LowerAndHigher ==
    ASSUME NEW x \in Nat, NEW y \in Nat
    PROVE  /\ Min({x, y}) = IF x <= y THEN x ELSE y
           /\ Max({x, y}) = IF x <= y THEN y ELSE x
<1>1. /\ \E m \in {x, y} : \A k \in {x, y} : m <= k
      /\ \E m \in {x, y} : \A k \in {x, y} : m >= k
  OBVIOUS
<1>2. /\ Min({x, y}) \in {x, y} /\ \A k \in {x, y} : Min({x, y}) <= k
      /\ Max({x, y}) \in {x, y} /\ \A k \in {x, y} : Max({x, y}) >= k
  BY <1>1 DEF Min, Max
<1> QED
  BY <1>2

\* The price used rests on every configured source; of two, it is the lower one.
LEMMA EffectivePriceIs ==
    ASSUME QueryInv, EffectivePrice # None
    PROVE  LET p == EffectivePrice
               st == oracles.max_staleness_secs
               maxBps == oracles.max_divergence_bps
               Of(s) == Fetch(s, st)
           IN  /\ oracles # None /\ st \in Nat /\ maxBps \in Nat
               /\ Configured # {} /\ Configured \subseteq Sources
               /\ p.price \in Nat
               /\ \A s \in Configured :
                     Of(s) # None /\ p.price <= Of(s).price /\ p.timestamp <= Of(s).timestamp
               /\ \E s \in Configured : p.timestamp = Of(s).timestamp
               /\ oracles.secondary # None =>
                     \A s \in Configured :
                        (Of(s).price - p.price) * BpsDenominator <= p.price * maxBps
<1> DEFINE p == EffectivePrice
           st == oracles.max_staleness_secs
           maxBps == oracles.max_divergence_bps
           Of(s) == Fetch(s, st)
<1>1. /\ oracles # None
      /\ oracles \in [primary : Sources, secondary : Sources \cup {None},
                      max_staleness_secs : Nat, max_divergence_bps : Nat]
  BY NavInputs DEF EffectivePrice, QueryInv
<1>2. /\ st \in Nat /\ maxBps \in Nat
      /\ oracles.primary \in Sources /\ oracles.secondary \in Sources \cup {None}
      /\ None \notin Sources
      /\ Configured = {oracles.primary, oracles.secondary} \ {None}
  BY <1>1, NavInputs DEF Configured
<1>3. ASSUME NEW s \in Sources, Of(s) # None
      PROVE  Of(s).price \in Nat /\ Of(s).timestamp \in Nat
  <2>1. /\ Of(s).price \in Nat
        /\ Of(s).timestamp = LastPrice(s).timestamp /\ LastPrice(s).timestamp \in Nat
    BY <1>2, <1>3, Fetched
  <2> HIDE DEF Of
  <2> QED
    BY <2>1
<1>4. CASE oracles.secondary = None
  <2>1. p = Of(oracles.primary) /\ Configured = {oracles.primary}
    BY <1>1, <1>2, <1>4 DEF EffectivePrice
  <2> HIDE DEF p, Of
  <2>2. p.price \in Nat /\ p.timestamp \in Nat /\ p # None
    BY <1>2, <1>3, <2>1 DEF p
  <2> QED
    BY <1>1, <1>2, <1>4, <2>1, <2>2 DEF p, Of
<1>5. CASE oracles.secondary # None
  <2> DEFINE first == Of(oracles.primary)
             second == Of(oracles.secondary)
             lower == Min({first.price, second.price})
             higher == Max({first.price, second.price})
  <2>1. p = Combine(first, second, maxBps)
    BY <1>1, <1>5 DEF EffectivePrice
  <2>2. /\ first # None /\ second # None /\ Agree(first.price, second.price, maxBps)
        /\ p = [price |-> lower, timestamp |-> Min({first.timestamp, second.timestamp})]
    BY <2>1 DEF Combine
  <2>3. (higher - lower) * BpsDenominator <= lower * maxBps
    BY <2>2 DEF Agree
  <2>4. /\ oracles.primary \in Sources /\ oracles.secondary \in Sources
        /\ Configured = {oracles.primary, oracles.secondary}
    BY <1>2, <1>5
  <2> HIDE DEF Of
  <2>5. /\ first.price \in Nat /\ first.timestamp \in Nat
        /\ second.price \in Nat /\ second.timestamp \in Nat
    BY <1>3, <2>2, <2>4
  <2> HIDE DEF first, second
  <2>6. /\ lower \in Nat /\ higher \in Nat
        /\ lower <= first.price /\ lower <= second.price
        /\ first.price <= higher /\ second.price <= higher
    BY <2>5, LowerAndHigher
  <2> HIDE DEF lower, higher
  <2>7. /\ p.price = lower
        /\ p.timestamp <= first.timestamp /\ p.timestamp <= second.timestamp
        /\ p.timestamp = first.timestamp \/ p.timestamp = second.timestamp
    BY <2>2, <2>5, LowerAndHigher
  <2>8. ASSUME NEW x \in Nat, x <= higher
        PROVE  (x - lower) * BpsDenominator <= lower * maxBps
    <3>1. (x - lower) * 10000 <= (higher - lower) * 10000
      BY <2>6, <2>8
    <3>2. lower * maxBps \in Nat /\ (higher - lower) * 10000 \in Int /\ (x - lower) * 10000 \in Int
      BY <1>2, <2>6, <2>8, SMT
    <3> QED
      BY <2>3, <3>1, <3>2 DEF BpsDenominator
  <2>9. \A s \in Configured :
           /\ Of(s) # None /\ p.price <= Of(s).price /\ p.timestamp <= Of(s).timestamp
           /\ (Of(s).price - p.price) * BpsDenominator <= p.price * maxBps
    BY <2>2, <2>4, <2>5, <2>6, <2>7, <2>8 DEF first, second
  <2>10. \E s \in Configured : p.timestamp = Of(s).timestamp
    BY <2>4, <2>7 DEF first, second
  <2>11. p.price \in Nat
    BY <2>6, <2>7
  <2> HIDE DEF p
  <2> QED
    BY <1>1, <1>2, <2>4, <2>9, <2>10, <2>11 DEF p, Of
<1> QED
  BY <1>4, <1>5

\* What nav answers, when it does.
LEMMA NavIs ==
    ASSUME NEW held, Nav(held) # None
    PROVE  /\ EffectivePrice # None
           /\ Nav(held).value = (held * EffectivePrice.price)
                                     \div Pow10[UnderlyingDecimals]
           /\ Nav(held).timestamp = EffectivePrice.timestamp
BY DEF Nav

LEMMA FreshPricesHold ==
    ASSUME QueryInv
    PROVE  NavRestsOnFreshPrices
<1> SUFFICES ASSUME NEW held \in HeldInputs, Nav(held) # None
             PROVE  /\ Configured # {}
                    /\ \A s \in Configured :
                          LET data == LastPrice(s)
                          IN  /\ data # None /\ data.price > 0
                              /\ Nav(held).timestamp <= data.timestamp
                              /\ data.timestamp <= now
                              /\ s \in AssetIds =>
                                   \E e \in series[s] :
                                       /\ e.price = data.price
                                       /\ now - e.published <= oracles.max_staleness_secs
                    /\ now - Nav(held).timestamp <= oracles.max_staleness_secs
  BY DEF NavRestsOnFreshPrices
<1> DEFINE p == EffectivePrice
           st == oracles.max_staleness_secs
<1>1. p # None /\ Nav(held).timestamp = p.timestamp
  BY NavIs
<1>2. /\ st \in Nat /\ Configured # {} /\ Configured \subseteq Sources
      /\ \A s \in Configured :
            Fetch(s, st) # None /\ p.timestamp <= Fetch(s, st).timestamp
      /\ \E s \in Configured : p.timestamp = Fetch(s, st).timestamp
  BY <1>1, EffectivePriceIs
<1> HIDE DEF p, st
<1>3. ASSUME NEW s \in Configured
      PROVE  /\ LastPrice(s) # None /\ LastPrice(s).price \in Nat \ {0}
             /\ LastPrice(s).timestamp \in Nat
             /\ LastPrice(s).timestamp <= now /\ now - LastPrice(s).timestamp <= st
             /\ Fetch(s, st).timestamp = LastPrice(s).timestamp
  BY <1>2, Fetched
<1>4. now \in Nat
  BY NumbersAre DEF QueryInv
<1>5. ASSUME NEW s \in Configured
      PROVE  LET data == LastPrice(s)
             IN  /\ data # None /\ data.price > 0
                 /\ p.timestamp <= data.timestamp /\ data.timestamp <= now
                 /\ s \in AssetIds =>
                      \E e \in series[s] : e.price = data.price /\ now - e.published <= st
  <2> DEFINE data == LastPrice(s)
  <2>1. /\ data # None /\ data.price \in Nat \ {0} /\ data.timestamp \in Nat
        /\ data.timestamp <= now /\ now - data.timestamp <= st
        /\ p.timestamp <= data.timestamp
    BY <1>2, <1>3
  <2>2. ASSUME s \in AssetIds
        PROVE  \E e \in series[s] : e.price = data.price /\ now - e.published <= st
    <3>1. PICK e \in series[s] : /\ e.price = data.price
                                 /\ e.published \in Nat /\ data.timestamp <= e.published
      BY <1>2, <2>1, <2>2, SourceAnswers
    <3> HIDE DEF data
    <3>2. now - e.published <= st
      BY <1>2, <1>4, <2>1, <3>1
    <3> QED
      BY <3>1, <3>2
  <2> HIDE DEF data
  <2>3. data.price > 0
    BY <2>1
  <2> QED
    BY <2>1, <2>2, <2>3 DEF data
<1>6. now - p.timestamp <= st
  BY <1>2, <1>3
<1> QED
  BY <1>1, <1>2, <1>5, <1>6 DEF st

(***************************************************************************)
(* Whatever the sources do, the value reported rests on all those          *)
(* configured at once, none stale nor dated ahead, and on what an          *)
(* oracle-adapter published within the limit (fetch_source_price).         *)
(***************************************************************************)
THEOREM VaultNavIsFresh ==
    NavSpec => []NavRestsOnFreshPrices
<1>1. QueryInv => NavRestsOnFreshPrices
  BY FreshPricesHold
<1>2. NavInit => QueryInv
  BY QueryInvInit
<1>3. QueryInv /\ [NavNext]_navVars => QueryInv'
  BY QueryInvStep
<1> QED
  BY <1>1, <1>2, <1>3, PTL DEF NavSpec

\* A quotient rounded down, times what it was divided by.
LEMMA RoundedDown ==
    ASSUME NEW x \in Nat, NEW d \in Nat \ {0}
    PROVE  x \div d \in Nat /\ (x \div d) * d <= x
BY SMT

LEMMA Scaled ==
    ASSUME NEW x \in Nat, NEW y \in Nat, x <= y, NEW k \in Nat
    PROVE  x * k \in Nat /\ y * k \in Nat /\ x * k <= y * k
BY SMT

LEMMA ClaimsHold ==
    ASSUME QueryInv
    PROVE  NavClaimsNoMore
<1> SUFFICES ASSUME NEW s \in Configured, NEW held \in HeldInputs, NEW rate \in RateInputs
             PROVE  LET data == LastPrice(s)
                        exact == held * data.price * Pow10[NavDecimals]
                        scale == Pow10[Decimals[OracleOf[s]]]
                    IN  /\ Nav(held) # None =>
                              Nav(held).value * Pow10[UnderlyingDecimals] * scale <= exact
                        /\ NavPerShare(rate) # None =>
                              held * rate * NavPerShare(rate).value * scale <= exact
  BY DEF NavClaimsNoMore
<1> DEFINE price == EffectivePrice.price
           one == LastPrice(s).price
           unit == Pow10[NavDecimals]
           scale == Pow10[Decimals[OracleOf[s]]]
           digits == Pow10[UnderlyingDecimals]
<1>1. held \in Nat /\ rate \in Nat \ {0}
  BY NavQueries
<1>2. scale \in Nat /\ unit \in Nat /\ digits \in Nat \ {0}
  <2>1. s \in Sources
    BY NavInputs DEF QueryInv, Configured
  <2>2. Decimals[OracleOf[s]] \in Nat /\ NavDecimals \in Nat /\ UnderlyingDecimals \in Nat
    BY <2>1, NavBounds
  <2> QED
    BY <2>2, PowerIsPositive
<1> HIDE DEF scale, unit, digits, one, price
<1>3. ASSUME EffectivePrice # None
      PROVE  price \in Nat /\ one \in Nat /\ price * scale <= one * unit
  <2> DEFINE st == oracles.max_staleness_secs
             own == Fetch(s, st).price
  <2>1. st \in Nat /\ s \in Sources /\ Fetch(s, st) # None
        /\ price \in Nat /\ price <= own
    BY <1>3, EffectivePriceIs DEF price
  <2>2. own \in Nat /\ one \in Nat /\ own * scale <= one * unit
    BY <2>1, Fetched DEF one, scale, unit
  <2> HIDE DEF own
  <2>3. price * scale \in Nat /\ own * scale \in Nat /\ price * scale <= own * scale
    BY <1>2, <2>1, <2>2, Scaled
  <2>4. one * unit \in Nat
    BY <1>2, <2>2, SMT
  <2> QED
    BY <2>1, <2>2, <2>3, <2>4
\* The units at the price used are worth no more than at the exact price.
<1>4. ASSUME EffectivePrice # None
      PROVE  held * price \in Nat /\ (held * price) * scale <= (held * one) * unit
  <2>1. /\ (price * scale) * held <= (one * unit) * held
        /\ price * scale \in Nat /\ one * unit \in Nat
    <3>1. price * scale \in Nat /\ one * unit \in Nat
      BY <1>2, <1>3, <1>4, SMT
    <3> QED
      BY <1>1, <1>3, <1>4, <3>1, Scaled
  <2>2. \A i, j, k \in Nat : (k * i) * j = (i * j) * k /\ k * i \in Nat
    BY SMT
  <2> QED
    BY <1>1, <1>2, <1>3, <1>4, <2>1, <2>2
<1>5. ASSUME Nav(held) # None
      PROVE  Nav(held).value * digits * scale <= held * one * unit
  <2> DEFINE value == Nav(held).value
  <2>1. EffectivePrice # None /\ value = (held * price) \div digits
    BY <1>5, NavIs DEF price, digits
  <2> HIDE DEF value
  <2>2. value \in Nat /\ value * digits <= held * price
    BY <1>2, <1>4, <2>1, RoundedDown
  <2>3. value * digits \in Nat
    BY <1>2, <2>2, SMT
  <2>4. (value * digits) * scale <= (held * price) * scale
        /\ (value * digits) * scale \in Nat /\ (held * price) * scale \in Nat
    BY <1>2, <1>4, <2>1, <2>2, <2>3, Scaled
  <2>5. (held * one) * unit \in Nat
    BY <1>1, <1>2, <1>3, <2>1, SMT
  <2> QED
    BY <1>4, <2>1, <2>4, <2>5 DEF value
<1>6. ASSUME NavPerShare(rate) # None
      PROVE  held * rate * NavPerShare(rate).value * scale <= held * one * unit
  <2> DEFINE value == NavPerShare(rate).value
  <2>1. EffectivePrice # None /\ value = price \div rate
    BY <1>6 DEF NavPerShare, price
  <2> HIDE DEF value
  <2>2. value \in Nat /\ value * rate <= price /\ value * rate \in Nat
    <3>1. value \in Nat /\ value * rate <= price
      BY <1>1, <1>3, <2>1, RoundedDown
    <3>2. value * rate \in Nat
      BY <1>1, <3>1, SMT
    <3> QED
      BY <3>1, <3>2
  <2>3. (value * rate) * held <= price * held
        /\ (value * rate) * held \in Nat /\ price * held \in Nat
    BY <1>1, <1>3, <2>1, <2>2, Scaled
  <2>4. \A i, j, k \in Nat : (k * j) * i = (i * j) * k
    BY SMT
  <2>5. (held * rate) * value = (value * rate) * held /\ held * price = price * held
    <3>1. held * price = price * held
      BY <1>1, <1>3, <2>1, SMT
    <3> QED
      BY <1>1, <2>2, <2>4, <3>1
  <2>6. ((held * rate) * value) * scale <= (held * price) * scale
        /\ ((held * rate) * value) * scale \in Nat /\ (held * price) * scale \in Nat
    BY <1>2, <2>3, <2>5, Scaled
  <2>7. (held * one) * unit \in Nat
    BY <1>1, <1>2, <1>3, <2>1, SMT
  <2> QED
    BY <1>4, <2>1, <2>6, <2>7 DEF value
<1> QED
  BY <1>5, <1>6 DEF one, unit, scale, digits

(***************************************************************************)
(* No rounding, change of decimals or choice between sources makes nav or  *)
(* nav_per_share claim more than the units are worth at any configured     *)
(* source's exact price.                                                   *)
(***************************************************************************)
THEOREM VaultNavClaimsNoMore ==
    ASSUME NavQueries
    PROVE  NavSpec => []NavClaimsNoMore
<1>1. QueryInv => NavClaimsNoMore
  BY ClaimsHold
<1>2. NavInit => QueryInv
  BY QueryInvInit
<1>3. QueryInv /\ [NavNext]_navVars => QueryInv'
  BY QueryInvStep
<1> QED
  BY <1>1, <1>2, <1>3, PTL DEF NavSpec

LEMMA SourcesHold ==
    ASSUME QueryInv
    PROVE  SourcesHoldEachOther
<1> SUFFICES ASSUME oracles # None, oracles.secondary # None
             PROVE  /\ OracleOf[oracles.primary] # OracleOf[oracles.secondary]
                    /\ Base[OracleOf[oracles.primary]] = Base[OracleOf[oracles.secondary]]
                    /\ EffectivePrice # None =>
                          \A s \in Configured :
                              LET other == Normalize(LastPrice(s).price,
                                                       Decimals[OracleOf[s]])
                              IN  /\ EffectivePrice.price <= other
                                  /\ (other - EffectivePrice.price) * BpsDenominator
                                        <= EffectivePrice.price * oracles.max_divergence_bps
  BY DEF SourcesHoldEachOther
<1>1. /\ OracleOf[oracles.primary] # OracleOf[oracles.secondary]
      /\ Base[OracleOf[oracles.primary]] = Base[OracleOf[oracles.secondary]]
  BY DEF QueryInv, ValidOracles
<1>2. ASSUME EffectivePrice # None, NEW s \in Configured
      PROVE  LET other == Normalize(LastPrice(s).price, Decimals[OracleOf[s]])
             IN  /\ EffectivePrice.price <= other
                 /\ (other - EffectivePrice.price) * BpsDenominator
                       <= EffectivePrice.price * oracles.max_divergence_bps
  <2> DEFINE st == oracles.max_staleness_secs
             own == Fetch(s, st)
  <2>1. /\ st \in Nat /\ s \in Sources /\ own # None
        /\ EffectivePrice.price <= own.price
        /\ (own.price - EffectivePrice.price) * BpsDenominator
              <= EffectivePrice.price * oracles.max_divergence_bps
    BY <1>2, EffectivePriceIs
  <2>2. own.price = Normalize(LastPrice(s).price, Decimals[OracleOf[s]])
    BY <2>1, Fetched
  <2> HIDE DEF own
  <2> QED
    BY <2>1, <2>2
<1> QED
  BY <1>1, <1>2

(***************************************************************************)
(* Two sources are two contracts of one currency, and the price used is    *)
(* the lower one, within the divergence limit of the other.                *)
(***************************************************************************)
THEOREM VaultSourcesHoldEachOther ==
    NavSpec => []SourcesHoldEachOther
<1>1. QueryInv => SourcesHoldEachOther
  BY SourcesHold
<1>2. NavInit => QueryInv
  BY QueryInvInit
<1>3. QueryInv /\ [NavNext]_navVars => QueryInv'
  BY QueryInvStep
<1> QED
  BY <1>1, <1>2, <1>3, PTL DEF NavSpec
=============================================================================
