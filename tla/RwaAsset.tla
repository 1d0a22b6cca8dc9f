------------------------------ MODULE RwaAsset ------------------------------
(***************************************************************************)
(* The asset contract: a SEP-41 token with an issuance cap, a limit on the *)
(* number of holders, compliance screening, freezes, lock-ups and a court- *)
(* ordered transfer (contracts/rwa-asset/src/lib.rs).                      *)
(*                                                                         *)
(* One invocation is one step: Soroban executes it atomically and rolls    *)
(* back a call that panics, so an action's guard is the conjunction of     *)
(* the checks that would panic.  Storage lifetimes are left out: a write   *)
(* extends them and an archived entry is restored when it is touched.      *)
(* `signer` records whose signature the last invocation carried.           *)
(*                                                                         *)
(* balance and totalSupply are those of TokenLedger, whose specification   *)
(* this one implements; the admin variables are those of AdminHandover.    *)
(***************************************************************************)
EXTENDS TokenLedger

CONSTANTS
    None,              \* Option::None
    MaxVersion,        \* u32::MAX, for the metadata version
    MaxLedger,         \* bound: the model stops closing ledgers here
    ValidDocs          \* name, symbol, class and hash that pass validation

\* What callers pass to the entry points.
CONSTANTS
    Deployers, Metadatas, Successors, PauseInputs, Issuers, Operators, Targets,
    LockupInputs, HolderCapInputs, CapInputs, GovernanceInputs, ComplianceInputs,
    Amounts, Spenders, ApprovalInputs, StandingInputs

MaxDecimals == 18
MaxComplianceLevel == 3
Levels == 0 .. MaxComplianceLevel

ASSUME NoneAssumption == None \notin Accounts /\ None \notin Int
ASSUME BoundsAssumption ==
    MaxVersion \in Nat \ {0} /\ MaxLedger \in Nat
ASSUME InputsAssumption ==
    /\ Deployers \subseteq Accounts /\ Successors \subseteq Accounts
    /\ Issuers \subseteq Accounts /\ Operators \subseteq Accounts
    /\ Targets \subseteq Accounts /\ Spenders \subseteq Accounts
    /\ GovernanceInputs \subseteq Accounts \cup {None}
    /\ PauseInputs \subseteq BOOLEAN
    /\ HolderCapInputs \subseteq Nat \cup {None}
    /\ LockupInputs \subseteq Nat
    /\ Amounts \subseteq Int /\ (\A n \in Amounts : n <= IMax)
    /\ CapInputs \subseteq Int /\ (\A n \in CapInputs : n <= IMax)
    /\ Metadatas \subseteq [decimals : Nat, max_supply : Int, doc : ValidDocs \cup {None}]
    /\ \A m \in Metadatas : m.max_supply <= IMax
    /\ ComplianceInputs \subseteq [screening : BOOLEAN, min_level : Nat]
    /\ ApprovalInputs \subseteq [amount : Int, live_until_ledger : Nat]
    /\ \A p \in ApprovalInputs : p.amount <= IMax
    /\ StandingInputs \subseteq Levels \cup {-1}

VARIABLES
    ledger,            \* env.ledger().sequence()
    admin, pendingAdmin, proposedBy, signer,
    paused,
    holderCount,
    allowance,         \* owner |-> spender |-> amount and expiry
    metadata, metadataVersion,
    pendingCap,        \* PendingCapIncrease, or None
    governance,        \* GOVERNANCE_KEY, or None
    holderCap,         \* HOLDER_CAP_KEY, or None
    issuers, operators, frozen,   \* the addresses whose flag is true
    lockup,            \* LockupDate
    policy,            \* is a compliance contract configured, and min_level
    standing           \* the compliance contract's answers: the level below
                       \* or at which it passes an address, -1 for no level

adminVars   == <<admin, pendingAdmin, proposedBy>>
tokenVars   == <<balance, totalSupply, holderCount>>
metaVars    == <<metadata, metadataVersion, pendingCap>>
roleVars    == <<issuers, operators, frozen, lockup>>
configVars  == <<governance, holderCap, policy>>
vars == <<ledger, signer, paused, allowance, standing,
          adminVars, tokenVars, metaVars, roleVars, configVars>>

Handover == INSTANCE AdminHandover

NoAllowance == [amount |-> 0, live_until_ledger |-> 0]

-----------------------------------------------------------------------------
(* Checks *)

RequireAuth(addr) == signer' = addr
RequireAdmin == RequireAuth(admin)
RequirePositive(n) == n > 0

Compliant(party) == policy.screening => standing[party] >= policy.min_level

Locked(addr) == lockup[addr] > ledger

\* `from` may send: neither frozen nor locked up.
Unrestricted(from) == from \notin frozen /\ ~Locked(from)

\* One more holder is allowed.
HolderCapNotExceeded_OffByOne == holderCap # None => holderCount <= holderCap
HolderCapNotExceeded == holderCap # None => holderCount < holderCap

ValidMetadata(m) ==
    /\ m.decimals <= MaxDecimals
    /\ m.max_supply >= 0
    /\ m.doc \in ValidDocs

\* Replacing a cap of `from` by `to` lets more be issued.
Loosens(from, to) == from > 0 /\ (to = 0 \/ to > from)

\* Mutant of ValidMetadataChange: the cap may be raised.
ValidMetadataChange_MayLoosen(m) ==
    /\ m.decimals = metadata.decimals
    /\ m.max_supply > 0 => m.max_supply >= totalSupply

ValidMetadataChange(m) ==
    /\ m.decimals = metadata.decimals
    /\ ~Loosens(metadata.max_supply, m.max_supply)
    /\ m.max_supply > 0 => m.max_supply >= totalSupply

-----------------------------------------------------------------------------
(* Bookkeeping *)

\* The allowance as it reads at this ledger: nothing once it has lapsed.
ReadAllowance(owner, spender) ==
    IF allowance[owner][spender].live_until_ledger >= ledger
      THEN allowance[owner][spender]
      ELSE NoAllowance

\* Mutant of SpendAllowance: the stored amount is spent whether or not it lapsed.
SpendAllowance_Lapsed(owner, spender, n) ==
    /\ allowance[owner][spender].amount >= n
    /\ allowance' = [allowance EXCEPT ![owner][spender].amount = @ - n]

SpendAllowance(owner, spender, n) ==
    LET current == ReadAllowance(owner, spender)
    IN  /\ current.amount >= n
        /\ allowance' = [allowance EXCEPT ![owner][spender] =
                            [current EXCEPT !.amount = @ - n]]

\* The holder count after an account was filled (0 -> positive) or emptied;
\* the decrement saturates at zero.
Recount_IgnoresEmptied(filled, emptied) ==
    holderCount' = IF filled THEN holderCount + 1 ELSE holderCount
Recount(filled, emptied) ==
    LET grown == IF filled THEN holderCount + 1 ELSE holderCount
    IN  holderCount' = IF emptied /\ grown > 0 THEN grown - 1 ELSE grown

\* The part burn and burn_from share, and a mutant that leaves the supply alone.
Debit_KeepsSupply(from, n) ==
    /\ balance[from] >= n
    /\ balance' = [balance EXCEPT ![from] = @ - n]
    /\ Recount(FALSE, balance[from] = n)
    /\ UNCHANGED totalSupply
Debit(from, n) ==
    /\ balance[from] >= n
    /\ balance' = [balance EXCEPT ![from] = @ - n]
    /\ totalSupply' = totalSupply - n
    /\ Recount(FALSE, balance[from] = n)

\* Mutant of Move: both legs of a self-transfer are written to the same key, the
\* credit last.
Move_SelfCredits(from, to, n) ==
    /\ balance[from] >= n
    /\ balance[to] + n <= IMax
    /\ balance[to] = 0 => HolderCapNotExceeded
    /\ balance' = [[balance EXCEPT ![from] = @ - n] EXCEPT ![to] = balance[to] + n]
    /\ Recount(balance[to] = 0, balance[from] = n)
    /\ UNCHANGED totalSupply

\* The part the three transfers share.  A self-transfer writes nothing.
Move(from, to, n) ==
    /\ balance[from] >= n
    /\ \/ from = to /\ UNCHANGED tokenVars
       \/ /\ from # to
          /\ balance[to] + n <= IMax
          /\ balance[to] = 0 => HolderCapNotExceeded
          /\ balance' = [balance EXCEPT ![from] = @ - n, ![to] = @ + n]
          /\ Recount(balance[to] = 0, balance[from] = n)
          /\ UNCHANGED totalSupply

-----------------------------------------------------------------------------
(* The constructor *)

Init ==
    /\ \E a \in Deployers : Handover!HandoverInit(a)
    /\ metadata \in {m \in Metadatas : ValidMetadata(m)}
    /\ metadataVersion = 1
    /\ pendingCap = None
    /\ paused = FALSE
    /\ balance = [a \in Accounts |-> 0]
    /\ totalSupply = 0
    /\ holderCount = 0
    /\ allowance = [a \in Accounts |-> [s \in Accounts |-> NoAllowance]]
    /\ governance = None
    /\ holderCap = None
    /\ issuers = {} /\ operators = {} /\ frozen = {}
    /\ lockup = [a \in Accounts |-> 0]
    /\ policy = [screening |-> FALSE, min_level |-> 0]
    /\ standing = [a \in Accounts |-> -1]
    /\ ledger = 0

(* Issuing, burning and moving value *)

Mint(issuer, to, n) ==
    /\ RequireAuth(issuer)
    /\ ~paused
    /\ issuer \in issuers
    /\ RequirePositive(n)
    /\ Compliant(to)
    /\ totalSupply + n <= IMax
    /\ metadata.max_supply > 0 => totalSupply + n <= metadata.max_supply
    /\ balance[to] + n <= IMax
    /\ balance[to] = 0 => HolderCapNotExceeded
    /\ balance' = [balance EXCEPT ![to] = @ + n]
    /\ totalSupply' = totalSupply + n
    /\ Recount(balance[to] = 0, FALSE)
    /\ UNCHANGED <<ledger, paused, allowance, standing, adminVars, metaVars,
                   roleVars, configVars>>

Burn(from, n) ==
    /\ RequireAuth(from)
    /\ ~paused
    /\ RequirePositive(n)
    /\ Debit(from, n)
    /\ UNCHANGED <<ledger, paused, allowance, standing, adminVars, metaVars,
                   roleVars, configVars>>

BurnFrom(spender, from, n) ==
    /\ RequireAuth(spender)
    /\ ~paused
    /\ RequirePositive(n)
    /\ SpendAllowance(from, spender, n)
    /\ Debit(from, n)
    /\ UNCHANGED <<ledger, paused, standing, adminVars, metaVars,
                   roleVars, configVars>>

Transfer(from, to, n) ==
    /\ RequireAuth(from)
    /\ ~paused
    /\ RequirePositive(n)
    /\ Compliant(from) /\ Compliant(to)
    /\ Unrestricted(from)
    /\ Move(from, to, n)
    /\ UNCHANGED <<ledger, paused, allowance, standing, adminVars, metaVars,
                   roleVars, configVars>>

\* Mutants of TransferFrom: the restrictions of the owner, the recipient's
\* screening or the allowance left unchecked.
TransferFrom_Restricted(spender, from, to, n) ==
    /\ RequireAuth(spender) /\ ~paused /\ RequirePositive(n)
    /\ Compliant(from) /\ Compliant(to)
    /\ SpendAllowance(from, spender, n)
    /\ Move(from, to, n)
    /\ UNCHANGED <<ledger, paused, standing, adminVars, metaVars,
                   roleVars, configVars>>

TransferFrom_Unscreened(spender, from, to, n) ==
    /\ RequireAuth(spender) /\ ~paused /\ RequirePositive(n)
    /\ Compliant(from) /\ Unrestricted(from)
    /\ SpendAllowance(from, spender, n)
    /\ Move(from, to, n)
    /\ UNCHANGED <<ledger, paused, standing, adminVars, metaVars,
                   roleVars, configVars>>

\* The spender used its authorisation even when the transfer moves nothing.
TransferFrom(spender, from, to, n) ==
    /\ RequireAuth(spender)
    /\ ~paused
    /\ RequirePositive(n)
    /\ Compliant(from) /\ Compliant(to)
    /\ Unrestricted(from)
    /\ SpendAllowance(from, spender, n)
    /\ Move(from, to, n)
    /\ UNCHANGED <<ledger, paused, standing, adminVars, metaVars,
                   roleVars, configVars>>

\* A court-ordered transfer: screened, but neither a pause nor a freeze nor a
\* lock-up stops it, and `from` does not sign.  The hash of the order, refused
\* if it is empty and otherwise only logged, is left out.
ForcedTransfer(operator, from, to, n) ==
    /\ RequireAuth(operator)
    /\ operator \in operators
    /\ RequirePositive(n)
    /\ Compliant(from) /\ Compliant(to)
    /\ Move(from, to, n)
    /\ UNCHANGED <<ledger, paused, allowance, standing, adminVars, metaVars,
                   roleVars, configVars>>

Approve(owner, spender, grant) ==
    /\ RequireAuth(owner)
    /\ ~paused
    /\ grant.amount >= 0
    /\ grant.amount > 0 => grant.live_until_ledger >= ledger
    /\ allowance' = [allowance EXCEPT ![owner][spender] = grant]
    /\ UNCHANGED <<ledger, paused, standing, adminVars, tokenVars, metaVars,
                   roleVars, configVars>>

-----------------------------------------------------------------------------
(* Administration *)

\* `flags` with addr's flag set to `on`.
Flagged(flags, addr, on) == IF on THEN flags \cup {addr} ELSE flags \ {addr}

SetIssuer(addr, approved) ==
    /\ RequireAdmin
    /\ issuers' = Flagged(issuers, addr, approved)
    /\ UNCHANGED <<ledger, paused, allowance, standing, adminVars, tokenVars,
                   metaVars, operators, frozen, lockup, configVars>>

SetForcedTransferRole(addr, approved) ==
    /\ RequireAdmin
    /\ operators' = Flagged(operators, addr, approved)
    /\ UNCHANGED <<ledger, paused, allowance, standing, adminVars, tokenVars,
                   metaVars, issuers, frozen, lockup, configVars>>

SetFrozen(addr, on) ==
    /\ RequireAdmin
    /\ frozen' = Flagged(frozen, addr, on)
    /\ UNCHANGED <<ledger, paused, allowance, standing, adminVars, tokenVars,
                   metaVars, issuers, operators, lockup, configVars>>

SetLockupDate(addr, until) ==
    /\ RequireAdmin
    /\ lockup' = [lockup EXCEPT ![addr] = until]
    /\ UNCHANGED <<ledger, paused, allowance, standing, adminVars, tokenVars,
                   metaVars, issuers, operators, frozen, configVars>>

SetPaused(p) ==
    /\ RequireAdmin
    /\ paused' = p
    /\ UNCHANGED <<ledger, allowance, standing, adminVars, tokenVars, metaVars,
                   roleVars, configVars>>

SetHolderCap(cap) ==
    /\ RequireAdmin
    /\ holderCap' = cap
    /\ UNCHANGED <<ledger, paused, allowance, standing, adminVars, tokenVars,
                   metaVars, roleVars, governance, policy>>

SetCompliance(p) ==
    /\ RequireAdmin
    /\ p.min_level <= MaxComplianceLevel
    /\ policy' = p
    /\ UNCHANGED <<ledger, paused, allowance, standing, adminVars, tokenVars,
                   metaVars, roleVars, governance, holderCap>>

SetGovernance(addr) ==
    /\ RequireAdmin
    /\ governance' = addr
    /\ UNCHANGED <<ledger, paused, allowance, standing, adminVars, tokenVars,
                   metaVars, roleVars, holderCap, policy>>

\* The three calls of the handover.
ProposeAdmin(addr) ==
    /\ Handover!ProposeAdmin(addr)
    /\ UNCHANGED <<ledger, paused, allowance, standing, tokenVars, metaVars,
                   roleVars, configVars>>

AcceptAdmin ==
    /\ Handover!AcceptAdmin
    /\ UNCHANGED <<ledger, paused, allowance, standing, tokenVars, metaVars,
                   roleVars, configVars>>

CancelAdminTransfer ==
    /\ Handover!CancelAdminTransfer
    /\ UNCHANGED <<ledger, paused, allowance, standing, tokenVars, metaVars,
                   roleVars, configVars>>

(* Metadata and the issuance cap *)

\* The only writer of metadata after construction: it counts every write.
ReplaceMetadata(m) ==
    /\ metadataVersion < MaxVersion
    /\ metadata' = m
    /\ metadataVersion' = metadataVersion + 1

UpdateMetadata(m) ==
    /\ RequireAdmin
    /\ ValidMetadata(m)
    /\ ValidMetadataChange(m)
    /\ ReplaceMetadata(m)
    /\ UNCHANGED <<ledger, paused, allowance, standing, adminVars, tokenVars,
                   pendingCap, roleVars, configVars>>

ProposeCapIncrease(cap) ==
    /\ RequireAdmin
    /\ cap >= 0
    /\ Loosens(metadata.max_supply, cap)
    /\ pendingCap' = cap
    /\ UNCHANGED <<ledger, paused, allowance, standing, adminVars, tokenVars,
                   metadata, metadataVersion, roleVars, configVars>>

\* Mutant of ApproveCapIncrease: the proposal stays pending.
ApproveCapIncrease_KeepsPending ==
    /\ governance # None /\ RequireAuth(governance)
    /\ pendingCap # None
    /\ pendingCap > 0 => pendingCap >= totalSupply
    /\ ReplaceMetadata([metadata EXCEPT !.max_supply = pendingCap])
    /\ UNCHANGED <<ledger, paused, allowance, standing, adminVars, tokenVars,
                   pendingCap, roleVars, configVars>>

ApproveCapIncrease ==
    /\ governance # None
    /\ RequireAuth(governance)
    /\ pendingCap # None
    /\ pendingCap > 0 => pendingCap >= totalSupply
    /\ pendingCap' = None
    /\ ReplaceMetadata([metadata EXCEPT !.max_supply = pendingCap])
    /\ UNCHANGED <<ledger, paused, allowance, standing, adminVars, tokenVars,
                   roleVars, configVars>>

CancelCapIncrease ==
    /\ RequireAdmin
    /\ pendingCap # None
    /\ pendingCap' = None
    /\ UNCHANGED <<ledger, paused, allowance, standing, adminVars, tokenVars,
                   metadata, metadataVersion, roleVars, configVars>>

(* The environment *)

\* The network closes a ledger.
CloseLedger ==
    /\ ledger < MaxLedger
    /\ ledger' = ledger + 1
    /\ UNCHANGED <<signer, paused, allowance, standing, adminVars, tokenVars,
                   metaVars, roleVars, configVars>>

\* What the compliance contract answers for `addr` changes: a record written,
\* revoked or expired, or its jurisdiction denied.
StandingChanges(addr, level) ==
    /\ standing' = [standing EXCEPT ![addr] = level]
    /\ UNCHANGED <<ledger, signer, paused, allowance, adminVars, tokenVars,
                   metaVars, roleVars, configVars>>

-----------------------------------------------------------------------------
TokenCall ==
    \E a \in Accounts, n \in Amounts :
        \/ \E i \in Issuers : Mint(i, a, n)
        \/ Burn(a, n)
        \/ \E s \in Spenders : BurnFrom(s, a, n)
        \/ \E b \in Accounts :
              \/ Transfer(a, b, n)
              \/ \E s \in Spenders : TransferFrom(s, a, b, n)
              \/ \E o \in Operators : ForcedTransfer(o, a, b, n)

HolderCall ==
    \E a \in Accounts, s \in Spenders, g \in ApprovalInputs : Approve(a, s, g)

PolicyCall ==
    \/ \E a \in Issuers, on \in BOOLEAN : SetIssuer(a, on)
    \/ \E a \in Operators, on \in BOOLEAN : SetForcedTransferRole(a, on)
    \/ \E a \in Targets, on \in BOOLEAN : SetFrozen(a, on)
    \/ \E a \in Targets, l \in LockupInputs : SetLockupDate(a, l)
    \/ \E p \in PauseInputs : SetPaused(p)
    \/ \E c \in HolderCapInputs : SetHolderCap(c)
    \/ \E p \in ComplianceInputs : SetCompliance(p)

CapCall ==
    \/ \E g \in GovernanceInputs : SetGovernance(g)
    \/ \E m \in Metadatas : UpdateMetadata(m)
    \/ \E c \in CapInputs : ProposeCapIncrease(c)
    \/ ApproveCapIncrease
    \/ CancelCapIncrease

HandoverCall ==
    \/ \E a \in Successors : ProposeAdmin(a)
    \/ AcceptAdmin
    \/ CancelAdminTransfer

Environment ==
    \/ CloseLedger
    \/ \E a \in Accounts, l \in StandingInputs : StandingChanges(a, l)

Next == TokenCall \/ HolderCall \/ PolicyCall \/ CapCall \/ HandoverCall \/ Environment

Spec == Init /\ [][Next]_vars

-----------------------------------------------------------------------------
(* Properties *)

\* Every variable holds a value of its type.
TypeOK ==
    /\ Handover!HandoverTypeOK
    /\ ledger \in 0 .. MaxLedger
    /\ paused \in BOOLEAN
    /\ balance \in [Accounts -> Amount]
    /\ totalSupply \in Amount
    /\ holderCount \in Nat
    /\ allowance \in [Accounts -> [Accounts ->
                      [amount : Amount, live_until_ledger : Nat]]]
    /\ metadata \in [decimals : 0 .. MaxDecimals, max_supply : Amount, doc : ValidDocs]
    /\ metadataVersion \in 1 .. MaxVersion
    /\ pendingCap \in Amount \cup {None}
    /\ governance \in Accounts \cup {None}
    /\ holderCap \in Nat \cup {None}
    /\ issuers \subseteq Accounts /\ operators \subseteq Accounts
    /\ frozen \subseteq Accounts
    /\ lockup \in [Accounts -> Nat]
    /\ policy \in [screening : BOOLEAN, min_level : Levels]
    /\ standing \in [Accounts -> Levels \cup {-1}]

(***************************************************************************)
(* holder_count() is kept up to date by increments and decrements spread   *)
(* over six entry points; it always equals the number of addresses that    *)
(* own something, so its saturation at zero is never needed.               *)
(***************************************************************************)
HolderCountExact == holderCount = Cardinality(Holders(balance))

(***************************************************************************)
(* A finite cap is never below what is in circulation, whichever way it    *)
(* was written: by construction, update_metadata or approve_cap_increase.  *)
(* And a pending increase still is an increase of the cap in force, and    *)
(* still covers the supply, whatever mints, burns and update_metadata did  *)
(* since it was proposed: approving it never tightens the cap, and the     *)
(* second look at the supply in approve_cap_increase never fails.          *)
(***************************************************************************)
CapCoversSupply ==
    /\ metadata.max_supply > 0 => totalSupply <= metadata.max_supply
    /\ pendingCap # None =>
          /\ Loosens(metadata.max_supply, pendingCap)
          /\ pendingCap > 0 => totalSupply <= pendingCap

(***************************************************************************)
(* The cap is loosened only with the signature of the configured           *)
(* governance address, and only to the value the admin proposed: the       *)
(* admin's own path, update_metadata, cannot raise or lift it (#148).      *)
(***************************************************************************)
CapLoosensOnlyWithGovernance ==
    [][Loosens(metadata.max_supply, metadata'.max_supply) =>
          /\ governance # None /\ signer' = governance
          /\ metadata'.max_supply = pendingCap /\ pendingCap' = None]_vars

(***************************************************************************)
(* No step adds a holder beyond the limit.  The limit may be set below the *)
(* present count (which evicts nobody), so this is a property of steps and *)
(* not of states.                                                          *)
(***************************************************************************)
HolderLimitBindsGrowth ==
    [][holderCount' > holderCount =>
          holderCap = None \/ holderCount' <= holderCap]_vars

(***************************************************************************)
(* A balance falls only with the holder's signature, within an allowance   *)
(* the holder granted that has not lapsed (and which pays for it exactly), *)
(* or by an address with the forced-transfer role.                         *)
(***************************************************************************)
BalanceFallsOnlyByConsent ==
    [][\A a \in Accounts : balance'[a] < balance[a] =>
          \/ signer' = a
          \/ signer' \in operators
          \/ LET drop  == balance[a] - balance'[a]
                 grant == allowance[a][signer']
             IN  /\ grant.live_until_ledger >= ledger
                 /\ allowance'[a][signer'].amount = grant.amount - drop
                 /\ grant.amount >= drop]_vars

(***************************************************************************)
(* While the contract is paused nothing but a forced transfer moves value, *)
(* and a frozen or locked-up holder loses value only by a burn or a forced *)
(* transfer, whoever else signs.                                           *)
(***************************************************************************)
RestrictedHolderKeepsTokens ==
    [][\A a \in Accounts :
          balance'[a] < balance[a] /\ (paused \/ ~Unrestricted(a)) =>
              \/ signer' \in operators
              \/ ~paused /\ totalSupply' < totalSupply]_vars

(***************************************************************************)
(* With a compliance contract configured, whoever receives value, and      *)
(* whoever sends it, passed the screening at that very step: a standing    *)
(* lost between two calls takes effect at once on all four ways to be      *)
(* credited.  Only a burn is not screened (ADR-004).                       *)
(***************************************************************************)
MovedValueIsScreened ==
    [][\A a \in Accounts :
          balance'[a] # balance[a] /\ totalSupply' >= totalSupply => Compliant(a)]_vars

\* The asset keeps its books as the abstract ledger does.
ImplementsLedger == LedgerSpec

\* The asset's admin role passes on as the two-step handover says.
ImplementsHandover == Handover!HandoverSpec
=============================================================================
