-------------------------------- MODULE Vault --------------------------------
(***************************************************************************)
(* The fractionalization vault (contracts/vault/src/lib.rs): it takes in   *)
(* units of one underlying asset, mints a fixed number of shares for each, *)
(* and pays the units out again when shares are redeemed.  The shares are  *)
(* a token themselves, with lock-ups, screening and remembered balances.   *)
(*                                                                         *)
(* One invocation is one step, as in RwaAsset.  The underlying contract is *)
(* modelled by what the vault uses of it: a transfer either moves the      *)
(* amount or fails, and then the whole call rolls back and is no step.     *)
(* Units also move without the vault: sent to it directly, or taken from   *)
(* it by a forced transfer.  Decimals and the oracles, which no deposit or *)
(* redemption reads, are in VaultNav.                                      *)
(*                                                                         *)
(* balance and totalSupply are the shares, kept as TokenLedger says; every *)
(* log of checkpoints is as CheckpointLog says.                            *)
(***************************************************************************)
EXTENDS TokenLedger, CheckpointLog

CONSTANTS
    vault,             \* env.current_contract_address(); it can own shares too
    MaxLedger,         \* bound: the model stops closing ledgers here
    MaxTime            \* u64::MAX, for timestamps

\* What callers pass, and what the environment does.
CONSTANTS
    Deployers, Configs, Successors, PauseInputs, Amounts, Spenders,
    ApprovalInputs, Wallets, CloseTimes, Seizers, StandingInputs

MaxLockupSecs == 315360000
MaxComplianceLevel == 3
Levels == 0 .. MaxComplianceLevel

\* A contract signs nothing but its own calls.
Signers == Accounts \ {vault}

ASSUME VaultAssumption == vault \in Accounts
ASSUME VaultBounds == MaxLedger \in Nat /\ MaxTime \in Nat
ASSUME VaultInputs ==
    /\ Deployers \subseteq Signers /\ Successors \subseteq Signers
    /\ Spenders \subseteq Signers /\ Seizers \subseteq Signers
    /\ PauseInputs \subseteq BOOLEAN
    /\ Amounts \subseteq Int
    /\ Configs \subseteq [exchange_rate : Int, max_share_supply : Int, lockup_secs : Nat,
                          screening : BOOLEAN, min_level : Nat]
    /\ \A c \in Configs : c.exchange_rate <= IMax /\ c.max_share_supply <= IMax
    /\ Wallets \subseteq [Accounts -> Amount]
    /\ CloseTimes \subseteq Nat
    /\ ApprovalInputs \subseteq [amount : Int, live_until_ledger : Nat]
    /\ \A p \in ApprovalInputs : p.amount <= IMax
    /\ StandingInputs \subseteq Levels \cup {-1}

VARIABLES
    ledger, timestamp, \* env.ledger().sequence() and .timestamp()
    admin, paused, config,
    underlyingHeld,    \* UnderlyingHeld: units the vault accounts for
    units,             \* balances in the underlying contract, the vault's included
    lockedUntil,       \* LockedUntil
    allowance,         \* owner |-> spender |-> amount and expiry
    checkpoints,       \* holder |-> its balance checkpoints
    supplyCheckpoints,
    standing,          \* the level below or at which screening passes an address
    seized             \* history: units were taken from the vault without a redemption

clockVars == <<ledger, timestamp>>
adminVars == <<admin, paused>>
shareVars == <<balance, totalSupply, checkpoints, supplyCheckpoints>>
backVars  == <<underlyingHeld, units>>
worldVars == <<standing, seized>>
vars == <<clockVars, adminVars, config, shareVars, backVars, lockedUntil, allowance,
          worldVars>>

NoAllowance == [amount |-> 0, live_until_ledger |-> 0]
Checkpoint == [ledger : 0 .. MaxLedger, balance : Amount]

-----------------------------------------------------------------------------
(* Checks *)

RequireAuth(addrs) == addrs \subseteq Signers
RequirePositive(n) == n > 0
Compliant(party) == config.screening => standing[party] >= config.min_level
Unlocked(holder) == timestamp >= lockedUntil[holder]

ValidConfig(c) ==
    /\ c.exchange_rate >= 1
    /\ c.max_share_supply >= 0
    /\ c.lockup_secs <= MaxLockupSecs
    /\ c.min_level <= MaxComplianceLevel

-----------------------------------------------------------------------------
(* Bookkeeping *)

\* The allowance as it reads at this ledger: nothing once it has lapsed.
ReadAllowance(owner, spender) ==
    IF allowance[owner][spender].live_until_ledger >= ledger
      THEN allowance[owner][spender]
      ELSE NoAllowance

SpendAllowance(owner, spender, n) ==
    LET current == ReadAllowance(owner, spender)
    IN  /\ current.amount >= n
        /\ allowance' = [allowance EXCEPT ![owner][spender] =
                            [current EXCEPT !.amount = @ - n]]

\* write_balance, for each of the holders whose balance the call writes.
WriteShares(new, holders) ==
    /\ balance' = new
    /\ checkpoints' = [a \in Accounts |->
          IF a \in holders THEN Record(checkpoints[a], ledger, new[a])
                           ELSE checkpoints[a]]

\* Mutant of WriteTotalSupply: the supply is written without a checkpoint.
WriteTotalSupply_Unrecorded(new) ==
    /\ totalSupply' = new
    /\ UNCHANGED supplyCheckpoints

\* write_total_supply.
WriteTotalSupply(new) ==
    /\ totalSupply' = new
    /\ supplyCheckpoints' = Record(supplyCheckpoints, ledger, new)

\* Mutant of MintShares: the cap is compared with the supply before the mint.
MintShares_CapLate(to, shares) ==
    /\ totalSupply + shares <= IMax
    /\ config.max_share_supply > 0 => totalSupply < config.max_share_supply
    /\ balance[to] + shares <= IMax
    /\ WriteShares([balance EXCEPT ![to] = @ + shares], {to})
    /\ WriteTotalSupply(totalSupply + shares)

MintShares(to, shares) ==
    /\ totalSupply + shares <= IMax
    /\ config.max_share_supply > 0 => totalSupply + shares <= config.max_share_supply
    /\ balance[to] + shares <= IMax
    /\ WriteShares([balance EXCEPT ![to] = @ + shares], {to})
    /\ WriteTotalSupply(totalSupply + shares)

BurnShares(from, shares) ==
    /\ balance[from] >= shares
    /\ WriteShares([balance EXCEPT ![from] = @ - shares], {from})
    /\ WriteTotalSupply(totalSupply - shares)

\* Mutant of MoveShares: both legs of a transfer to oneself are written, the
\* credit last.
MoveShares_SelfCredits(from, to, n) ==
    /\ balance[from] >= n
    /\ balance[to] + n <= IMax
    /\ WriteShares([[balance EXCEPT ![from] = @ - n] EXCEPT ![to] = balance[to] + n],
                   {from, to})
    /\ UNCHANGED <<totalSupply, supplyCheckpoints>>

\* What transfer and transfer_from share; a transfer to oneself writes nothing.
MoveShares(from, to, n) ==
    /\ balance[from] >= n
    /\ \/ from = to /\ UNCHANGED shareVars
       \/ /\ from # to
          /\ balance[to] + n <= IMax
          /\ WriteShares([balance EXCEPT ![from] = @ - n, ![to] = @ + n], {from, to})
          /\ UNCHANGED <<totalSupply, supplyCheckpoints>>

\* A transfer in the underlying contract, if it has the units.
MoveUnits(from, to, n) ==
    /\ from # to
    /\ units[from] >= n
    /\ units[to] + n <= IMax
    /\ units' = [units EXCEPT ![from] = @ - n, ![to] = @ + n]

\* A deposit extends the lock of everything the holder owns, never shortens it.
Relock(holder) ==
    LET target == timestamp + config.lockup_secs
    IN  /\ target <= MaxTime
        /\ lockedUntil' =
             IF config.lockup_secs = 0 \/ lockedUntil[holder] > target
               THEN lockedUntil
               ELSE [lockedUntil EXCEPT ![holder] = target]

-----------------------------------------------------------------------------
Init ==
    /\ admin \in Deployers
    /\ config \in {c \in Configs : ValidConfig(c)}
    /\ paused = FALSE
    /\ LedgerInit
    /\ underlyingHeld = 0
    /\ units \in {w \in Wallets : w[vault] = 0}
    /\ lockedUntil = [a \in Accounts |-> 0]
    /\ allowance = [a \in Accounts |-> [s \in Accounts |-> NoAllowance]]
    /\ checkpoints = [a \in Accounts |-> <<>>]
    /\ supplyCheckpoints = <<>>
    /\ standing = [a \in Accounts |-> -1]
    /\ seized = FALSE
    /\ ledger = 0 /\ timestamp = 0

(* Deposits and redemptions *)

\* Mutant of Deposit: shares are minted for units that are never pulled in.
Deposit_NotPulled(from, amount) ==
    LET shares == amount * config.exchange_rate
    IN  /\ RequireAuth({from}) /\ ~paused /\ RequirePositive(amount)
        /\ shares <= IMax
        /\ underlyingHeld + amount <= IMax
        /\ underlyingHeld' = underlyingHeld + amount
        /\ MintShares(from, shares)
        /\ Relock(from)
        /\ UNCHANGED <<clockVars, adminVars, config, allowance, worldVars, units>>

Deposit(from, amount) ==
    LET shares == amount * config.exchange_rate
    IN  /\ RequireAuth({from})
        /\ ~paused
        /\ RequirePositive(amount)
        /\ shares <= IMax
        /\ MoveUnits(from, vault, amount)
        /\ underlyingHeld + amount <= IMax
        /\ underlyingHeld' = underlyingHeld + amount
        /\ MintShares(from, shares)
        /\ Relock(from)
        /\ UNCHANGED <<clockVars, adminVars, config, allowance, worldVars>>

\* Mutant of Redeem: a remainder of the division is burned for nothing.
Redeem_AnyShares(holder, shares) ==
    LET paid == shares \div config.exchange_rate
    IN  /\ RequireAuth({holder}) /\ ~paused /\ RequirePositive(shares)
        /\ Unlocked(holder)
        /\ underlyingHeld >= paid
        /\ BurnShares(holder, shares)
        /\ underlyingHeld' = underlyingHeld - paid
        /\ MoveUnits(vault, holder, paid)
        /\ UNCHANGED <<clockVars, adminVars, config, lockedUntil, allowance, worldVars>>
Redeem(holder, shares) ==
    LET paid == shares \div config.exchange_rate
    IN  /\ RequireAuth({holder})
        /\ ~paused
        /\ RequirePositive(shares)
        /\ shares % config.exchange_rate = 0
        /\ Unlocked(holder)
        /\ underlyingHeld >= paid
        /\ BurnShares(holder, shares)
        /\ underlyingHeld' = underlyingHeld - paid
        /\ MoveUnits(vault, holder, paid)
        /\ UNCHANGED <<clockVars, adminVars, config, lockedUntil, allowance, worldVars>>

\* What redeemable() answers.
Redeemable(holder) ==
    IF paused \/ ~Unlocked(holder) THEN 0
    ELSE balance[holder] - (balance[holder] % config.exchange_rate)

(* The share token *)

Transfer(from, to, n) ==
    /\ RequireAuth({from})
    /\ ~paused
    /\ RequirePositive(n)
    /\ Unlocked(from)
    /\ Compliant(from) /\ Compliant(to)
    /\ MoveShares(from, to, n)
    /\ UNCHANGED <<clockVars, adminVars, config, backVars, lockedUntil, allowance, worldVars>>

\* Mutants of TransferFrom: the spender's lock is checked; the recipient is not
\* screened.
TransferFrom_SpendersLock(spender, from, to, n) ==
    /\ RequireAuth({spender}) /\ ~paused /\ RequirePositive(n)
    /\ Unlocked(spender)
    /\ Compliant(from) /\ Compliant(to)
    /\ SpendAllowance(from, spender, n)
    /\ MoveShares(from, to, n)
    /\ UNCHANGED <<clockVars, adminVars, config, backVars, lockedUntil, worldVars>>
TransferFrom_Unscreened(spender, from, to, n) ==
    /\ RequireAuth({spender}) /\ ~paused /\ RequirePositive(n)
    /\ Unlocked(from) /\ Compliant(from)
    /\ SpendAllowance(from, spender, n)
    /\ MoveShares(from, to, n)
    /\ UNCHANGED <<clockVars, adminVars, config, backVars, lockedUntil, worldVars>>

TransferFrom(spender, from, to, n) ==
    /\ RequireAuth({spender})
    /\ ~paused
    /\ RequirePositive(n)
    /\ Unlocked(from)
    /\ Compliant(from) /\ Compliant(to)
    /\ SpendAllowance(from, spender, n)
    /\ MoveShares(from, to, n)
    /\ UNCHANGED <<clockVars, adminVars, config, backVars, lockedUntil, worldVars>>

Approve(owner, spender, grant) ==
    /\ RequireAuth({owner})
    /\ ~paused
    /\ grant.amount >= 0
    /\ grant.amount > 0 => grant.live_until_ledger >= ledger
    /\ allowance' = [allowance EXCEPT ![owner][spender] = grant]
    /\ UNCHANGED <<clockVars, adminVars, config, shareVars, backVars, lockedUntil, worldVars>>

(* Administration *)

SetPaused(p) ==
    /\ RequireAuth({admin})
    /\ paused' = p
    /\ UNCHANGED <<clockVars, admin, config, shareVars, backVars, lockedUntil, allowance,
                   worldVars>>

\* In one transaction, with both signatures.
TransferAdmin(newAdmin) ==
    /\ RequireAuth({admin, newAdmin})
    /\ admin' = newAdmin
    /\ UNCHANGED <<clockVars, paused, config, shareVars, backVars, lockedUntil, allowance,
                   worldVars>>

(* The environment *)

\* The network closes a ledger, some seconds after the one before.
CloseLedger ==
    /\ ledger < MaxLedger
    /\ ledger' = ledger + 1
    /\ \E seconds \in CloseTimes :
          timestamp + seconds <= MaxTime /\ timestamp' = timestamp + seconds
    /\ UNCHANGED <<adminVars, config, shareVars, backVars, lockedUntil, allowance, worldVars>>

\* Units are sent to the vault without a deposit.
Donate(from, n) ==
    /\ n > 0
    /\ MoveUnits(from, vault, n)
    /\ UNCHANGED <<clockVars, adminVars, config, shareVars, underlyingHeld, lockedUntil,
                   allowance, worldVars>>

\* The underlying asset's forced_transfer takes units from the vault.
Seize(to, n) ==
    /\ n > 0
    /\ MoveUnits(vault, to, n)
    /\ seized' = TRUE
    /\ UNCHANGED <<clockVars, adminVars, config, shareVars, underlyingHeld, lockedUntil,
                   allowance, standing>>

\* Nobody reads a standing, and the model keeps it, where nothing is screened.
StandingChanges(addr, level) ==
    /\ config.screening
    /\ standing' = [standing EXCEPT ![addr] = level]
    /\ UNCHANGED <<clockVars, adminVars, config, shareVars, backVars, lockedUntil, allowance,
                   seized>>

-----------------------------------------------------------------------------
ValueCall ==
    \E a \in Accounts, n \in Amounts :
        \/ Deposit(a, n)
        \/ Redeem(a, n)
        \/ \E b \in Accounts :
              \/ Transfer(a, b, n)
              \/ \E s \in Spenders : TransferFrom(s, a, b, n)

OtherCall ==
    \/ \E a \in Accounts, s \in Spenders, g \in ApprovalInputs : Approve(a, s, g)
    \/ \E p \in PauseInputs : SetPaused(p)
    \/ \E a \in Successors : TransferAdmin(a)

Environment ==
    \/ CloseLedger
    \/ \E a \in Signers, n \in Amounts : Donate(a, n)
    \/ \E a \in Seizers, n \in Amounts : Seize(a, n)
    \/ \E a \in Accounts, l \in StandingInputs : StandingChanges(a, l)

Next == ValueCall \/ OtherCall \/ Environment

Spec == Init /\ [][Next]_vars

-----------------------------------------------------------------------------
(* Properties *)

\* Every variable holds a value of its type.
TypeOK ==
    /\ ledger \in 0 .. MaxLedger /\ timestamp \in 0 .. MaxTime
    /\ admin \in Signers
    /\ paused \in BOOLEAN
    /\ config \in [exchange_rate : Amount \ {0}, max_share_supply : Amount,
                   lockup_secs : 0 .. MaxLockupSecs, screening : BOOLEAN, min_level : Levels]
    /\ balance \in [Accounts -> Amount]
    /\ totalSupply \in Amount
    /\ underlyingHeld \in Amount
    /\ units \in [Accounts -> Amount]
    /\ lockedUntil \in [Accounts -> 0 .. MaxTime]
    /\ allowance \in [Accounts -> [Accounts ->
                      [amount : Amount, live_until_ledger : Nat]]]
    /\ checkpoints \in [Accounts -> Seq(Checkpoint)]
    /\ supplyCheckpoints \in Seq(Checkpoint)
    /\ standing \in [Accounts -> Levels \cup {-1}]
    /\ seized \in BOOLEAN

(***************************************************************************)
(* The shares in circulation are exactly what the accounted units are      *)
(* worth at the fixed rate, after every call (ADR-006, first invariant),   *)
(* and within the configured cap: no sequence of deposits and redemptions, *)
(* with the overflow and cap checks spread over two functions, mints a     *)
(* share without a unit or strands a unit without shares.                  *)
(***************************************************************************)
SharesAreBacked ==
    /\ totalSupply = underlyingHeld * config.exchange_rate
    /\ config.max_share_supply > 0 => totalSupply <= config.max_share_supply

(***************************************************************************)
(* A deposit or a redemption makes nobody richer or poorer: counted in     *)
(* shares, what an account owns in units and in shares together stays the  *)
(* same for everybody; the integer division of redeem loses nothing.       *)
(***************************************************************************)
DepositAndRedeemAtPar ==
    [][totalSupply' # totalSupply =>
          \A a \in Signers :
              units'[a] * config.exchange_rate + balance'[a]
                = units[a] * config.exchange_rate + balance[a]]_vars

(***************************************************************************)
(* Shares leave a holder neither by transfer, nor by an allowance, nor by  *)
(* redemption while the holder is locked, and no later deposit shortens a  *)
(* lock.  The lock is the owner's, whoever signs.                          *)
(***************************************************************************)
LockHolds ==
    [][\A a \in Accounts :
          /\ lockedUntil'[a] >= lockedUntil[a]
          /\ balance'[a] < balance[a] => timestamp >= lockedUntil[a]]_vars

(***************************************************************************)
(* Shares move between two holders only if both pass the screening at that *)
(* step (ADR-006, section 6).                                              *)
(***************************************************************************)
MovedSharesAreScreened ==
    [][\A a \in Accounts :
          balance'[a] # balance[a] /\ totalSupply' = totalSupply => Compliant(a)]_vars

(***************************************************************************)
(* What redeemable() promises can be paid: the accounted units cover what  *)
(* all holders together could redeem now, and the vault owns at least the  *)
(* units it accounts for (ADR-006, third invariant), as long as the        *)
(* underlying asset is taken from it only by its own redemptions.  Then    *)
(* redeem's look at the units held never fails a holder.                   *)
(***************************************************************************)
RedeemableCanBePaid ==
    /\ Total([a \in Accounts |-> Redeemable(a) \div config.exchange_rate])
          <= underlyingHeld
    /\ underlyingHeld <= units[vault] \/ seized

(***************************************************************************)
(* The balances recorded for a closed ledger add up to the supply recorded *)
(* for it, whatever was written in that ledger and since: a distribution   *)
(* that pays every holder by balance_at pays out total_supply_at.          *)
(***************************************************************************)
RecordedSharesAddUp ==
    \A l \in 0 .. MaxLedger : l < ledger =>
        Total([a \in Accounts |-> ReadAt(checkpoints[a], l)])
            = ReadAt(supplyCheckpoints, l)

(***************************************************************************)
(* What balance_at and total_supply_at answer for a ledger is what it      *)
(* closed with, and stays so whatever is written later: the search finds   *)
(* the right checkpoint in every log the vault's writes can produce.       *)
(***************************************************************************)
PastBalancesStay ==
    [][/\ \A l \in 0 .. ledger - 1 :
            /\ \A a \in Accounts : ReadAt(checkpoints'[a], l) = ReadAt(checkpoints[a], l)
            /\ ReadAt(supplyCheckpoints', l) = ReadAt(supplyCheckpoints, l)
       /\ ledger' # ledger =>
            /\ \A a \in Accounts : ReadAt(checkpoints'[a], ledger) = balance[a]
            /\ ReadAt(supplyCheckpoints', ledger) = totalSupply]_vars

\* The shares are a token ledger.
ImplementsLedger == LedgerSpec
=============================================================================
