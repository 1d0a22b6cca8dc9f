--------------------------- MODULE RwaAssetProofs ---------------------------
(***************************************************************************)
(* The asset contract, for every set of accounts, every width of the       *)
(* amounts and every choice of the inputs.                                 *)
(***************************************************************************)
EXTENDS RwaAsset, TokenLedgerProofs

-----------------------------------------------------------------------------
(* What a step does to the books *)

\* The calls that are not about value leave the books alone.
LEMMA QuietCalls ==
    HolderCall \/ PolicyCall \/ CapCall \/ HandoverCall \/ Environment
        => UNCHANGED tokenVars
<1>1. HolderCall => UNCHANGED tokenVars
  BY DEF HolderCall, Approve
<1>2. PolicyCall => UNCHANGED tokenVars
  BY DEF PolicyCall, SetIssuer, SetForcedTransferRole, SetFrozen, SetLockupDate,
         SetPaused, SetHolderCap, SetCompliance
<1>3. CapCall => UNCHANGED tokenVars
  BY DEF CapCall, SetGovernance, UpdateMetadata, ProposeCapIncrease,
         ApproveCapIncrease, CancelCapIncrease
<1>4. HandoverCall => UNCHANGED tokenVars
  BY DEF HandoverCall, ProposeAdmin, AcceptAdmin, CancelAdminTransfer
<1>5. Environment => UNCHANGED tokenVars
  BY DEF Environment, CloseLedger, StandingChanges
<1> QED
  BY <1>1, <1>2, <1>3, <1>4, <1>5

\* A call about value is one of the ledger's steps with the matching change of
\* the holder count, or (a self-transfer) touches no balance.
Booked(a, n) ==
    \/ Create(a, n) /\ Recount(balance[a] = 0, FALSE)
    \/ Destroy(a, n) /\ Recount(FALSE, balance[a] = n)
    \/ \E b \in Accounts : Pass(a, b, n) /\ Recount(balance[b] = 0, balance[a] = n)

LEMMA InputAmounts ==
    ASSUME NEW n \in Amounts, RequirePositive(n)
    PROVE  n \in Amount \ {0}
BY InputsAssumption, IMaxAssumption DEF RequirePositive, Amount

LEMMA MoveBooked ==
    ASSUME NEW a \in Accounts, NEW b \in Accounts, NEW n, Move(a, b, n)
    PROVE  UNCHANGED tokenVars \/ Booked(a, n)
BY DEF Move, Booked, Pass

LEMMA TokenCallBooked ==
    ASSUME LedgerInv, TokenCall
    PROVE  \/ UNCHANGED tokenVars
           \/ \E a \in Accounts, n \in Amount \ {0} : Booked(a, n)
<1> PICK a \in Accounts, n \in Amounts :
        \/ \E i \in Issuers : Mint(i, a, n)
        \/ Burn(a, n)
        \/ \E s \in Spenders : BurnFrom(s, a, n)
        \/ \E b \in Accounts :
              \/ Transfer(a, b, n)
              \/ \E s \in Spenders : TransferFrom(s, a, b, n)
              \/ \E o \in Operators : ForcedTransfer(o, a, b, n)
  BY DEF TokenCall
<1>1. RequirePositive(n)
  BY DEF Mint, Burn, BurnFrom, Transfer, TransferFrom, ForcedTransfer
<1>2. n \in Amount \ {0}
  BY <1>1, InputAmounts
<1>3. CASE \E i \in Issuers : Mint(i, a, n)
  <2>1. totalSupply \in Amount /\ IMax \in Nat
    BY IMaxAssumption DEF LedgerInv, LedgerTypeOK
  <2>2. totalSupply + n \in Amount
    BY <1>2, <1>3, <2>1 DEF Mint, Amount
  <2>3. Booked(a, n)
    BY <1>3, <2>2 DEF Mint, Booked, Create
  <2> QED
    BY <1>2, <2>3
<1>4. CASE Burn(a, n) \/ \E s \in Spenders : BurnFrom(s, a, n)
  <2>1. Debit(a, n)
    BY <1>4 DEF Burn, BurnFrom
  <2>2. Booked(a, n)
    BY <2>1 DEF Debit, Booked, Destroy
  <2> QED
    BY <1>2, <2>2
<1>5. CASE \E b \in Accounts :
              \/ Transfer(a, b, n)
              \/ \E s \in Spenders : TransferFrom(s, a, b, n)
              \/ \E o \in Operators : ForcedTransfer(o, a, b, n)
  <2>1. \E b \in Accounts : Move(a, b, n)
    BY <1>5 DEF Transfer, TransferFrom, ForcedTransfer
  <2> QED
    BY <1>2, <2>1, MoveBooked
<1> QED
  BY <1>3, <1>4, <1>5

LEMMA StepBooked ==
    ASSUME LedgerInv, [Next]_vars
    PROVE  \/ UNCHANGED tokenVars
           \/ \E a \in Accounts, n \in Amount \ {0} : Booked(a, n)
<1>1. CASE TokenCall
  BY <1>1, TokenCallBooked
<1>2. CASE HolderCall \/ PolicyCall \/ CapCall \/ HandoverCall \/ Environment
  BY <1>2, QuietCalls
<1>3. CASE UNCHANGED vars
  BY <1>3 DEF vars
<1> QED
  BY <1>1, <1>2, <1>3 DEF Next

LEMMA LedgerStep == LedgerInv /\ [Next]_vars => [LedgerNext]_ledgerVars
<1> SUFFICES ASSUME LedgerInv, [Next]_vars
             PROVE  [LedgerNext]_ledgerVars
  OBVIOUS
<1>1. CASE UNCHANGED tokenVars
  BY <1>1 DEF tokenVars, ledgerVars
<1>2. CASE \E a \in Accounts, n \in Amount \ {0} : Booked(a, n)
  BY <1>2 DEF Booked, LedgerNext
<1> QED
  BY <1>1, <1>2, StepBooked

(***************************************************************************)
(* The asset keeps its books as the abstract ledger does: a paused, frozen *)
(* or screened transfer is no step of the ledger, an accepted one is       *)
(* exactly one, and a self-transfer none.                                  *)
(***************************************************************************)
THEOREM AssetImplementsLedger == Spec => ImplementsLedger
<1>1. Init => LedgerInit
  BY DEF Init, LedgerInit
<1> QED
  BY <1>1, LedgerInvInit, LedgerStep, LedgerInvStep, PTL
     DEF Spec, ImplementsLedger, LedgerSpec

(***************************************************************************)
(* total_supply() always is the sum of the balances.                       *)
(***************************************************************************)
THEOREM AssetConserves == Spec => []Conservation
<1>1. LedgerTypeOK /\ Conservation /\ CreditFits => Conservation
  OBVIOUS
<1> QED
  BY AssetImplementsLedger, LedgerConserves, <1>1, PTL DEF ImplementsLedger

-----------------------------------------------------------------------------
(* The holder count *)

\* Counting and books together: each needs the other's types.
CountInv == LedgerInv /\ HolderCountExact

LEMMA CountStep == CountInv /\ [Next]_vars => CountInv'
<1> SUFFICES ASSUME CountInv, [Next]_vars
             PROVE  CountInv'
  OBVIOUS
<1> USE AccountsAssumption, IMaxAssumption
<1>1. LedgerInv'
  BY LedgerStep, LedgerInvStep DEF CountInv
<1>2. /\ IMax \in Nat
      /\ balance \in [Accounts -> 0 .. IMax]
      /\ balance' \in [Accounts -> 0 .. IMax]
      /\ holderCount = Cardinality(Holders(balance))
  BY <1>1 DEF CountInv, LedgerInv, LedgerTypeOK, HolderCountExact, Amount
<1>3. Cardinality(Holders(balance)) \in Nat /\ Cardinality(Holders(balance')) \in Nat
  BY <1>2, HoldersFinite
<1>4. CASE UNCHANGED tokenVars
  BY <1>1, <1>2, <1>4 DEF tokenVars, CountInv, HolderCountExact
<1>5. ASSUME NEW a \in Accounts, NEW n \in Amount \ {0},
             Create(a, n), Recount(balance[a] = 0, FALSE)
      PROVE  holderCount' = Cardinality(Holders(balance'))
  <2>1. /\ n \in Nat \ {0}
        /\ balance'[a] = balance[a] + n
        /\ \A c \in Accounts : c # a => balance'[c] = balance[c]
    BY <1>2, <1>5 DEF Create, Amount
  <2>2. CASE balance[a] = 0
    <3>1. balance'[a] > 0 /\ (\A c \in Accounts : c # a => (balance'[c] > 0 <=> balance[c] > 0))
      BY <1>2, <2>1
    <3>2. Cardinality(Holders(balance')) = Cardinality(Holders(balance)) + 1
      BY <1>2, <2>2, <3>1, HoldersGain
    <3> QED
      BY <1>2, <1>5, <2>2, <3>2 DEF Recount
  <2>3. CASE balance[a] # 0
    <3>1. \A c \in Accounts : balance'[c] > 0 <=> balance[c] > 0
      BY <1>2, <2>1, <2>3
    <3>2. Holders(balance') = Holders(balance)
      BY <1>2, <3>1 DEF Holders
    <3> QED
      BY <1>2, <1>5, <2>3, <3>2 DEF Recount
  <2> QED
    BY <2>2, <2>3
<1>6. ASSUME NEW a \in Accounts, NEW n \in Amount \ {0},
             Destroy(a, n), Recount(FALSE, balance[a] = n)
      PROVE  holderCount' = Cardinality(Holders(balance'))
  <2>1. /\ n \in Nat \ {0} /\ balance[a] >= n
        /\ balance'[a] = balance[a] - n
        /\ \A c \in Accounts : c # a => balance'[c] = balance[c]
    BY <1>2, <1>6 DEF Destroy, Amount
  <2>2. CASE balance[a] = n
    <3>1. /\ balance'[a] = 0 /\ balance[a] > 0
          /\ \A c \in Accounts : c # a => (balance[c] > 0 <=> balance'[c] > 0)
      BY <1>2, <2>1, <2>2
    <3>2. Cardinality(Holders(balance)) = Cardinality(Holders(balance')) + 1
      BY <1>2, <3>1, HoldersGain
    <3> QED
      BY <1>2, <1>3, <1>6, <2>2, <3>2 DEF Recount
  <2>3. CASE balance[a] # n
    <3>1. \A c \in Accounts : balance'[c] > 0 <=> balance[c] > 0
      BY <1>2, <2>1, <2>3
    <3>2. Holders(balance') = Holders(balance)
      BY <1>2, <3>1 DEF Holders
    <3> QED
      BY <1>2, <1>6, <2>3, <3>2 DEF Recount
  <2> QED
    BY <2>2, <2>3
<1>7. ASSUME NEW a \in Accounts, NEW b \in Accounts, NEW n \in Amount \ {0},
             Pass(a, b, n), Recount(balance[b] = 0, balance[a] = n)
      PROVE  holderCount' = Cardinality(Holders(balance'))
  \* The sender's side first: a table in which only the sender has paid.
  <2> DEFINE mid == [balance EXCEPT ![a] = @ - n]
  <2>1. /\ a # b /\ n \in Nat \ {0} /\ balance[a] >= n
        /\ balance'[a] = balance[a] - n
        /\ balance'[b] = balance[b] + n
        /\ \A c \in Accounts : c # a /\ c # b => balance'[c] = balance[c]
    BY <1>2, <1>7 DEF Pass, Amount
  <2>2. /\ mid \in [Accounts -> 0 .. IMax]
        /\ mid[a] = balance[a] - n
        /\ \A c \in Accounts : c # a => mid[c] = balance[c]
    BY <1>2, <2>1
  <2> HIDE DEF mid
  <2>0. IMax \in Nat /\ IsFiniteSet(Accounts) /\ mid \in [Accounts -> 0 .. IMax]
    BY <1>2, <2>2
  <2>3. Cardinality(Holders(mid)) \in Nat
    BY <2>0, HoldersFinite
  <2>4. Cardinality(Holders(balance)) =
            IF balance[a] = n THEN Cardinality(Holders(mid)) + 1
                              ELSE Cardinality(Holders(mid))
    <3>1. CASE balance[a] = n
      <4>1. /\ mid[a] = 0 /\ balance[a] > 0
            /\ \A c \in Accounts : c # a => (balance[c] > 0 <=> mid[c] > 0)
        BY <1>2, <2>1, <2>2, <3>1
      <4>2. Cardinality(Holders(balance)) = Cardinality(Holders(mid)) + 1
        <5>1. balance \in [Accounts -> 0 .. IMax]
          BY <1>2
        <5> QED
          BY <2>0, <4>1, <5>1, HoldersGain
      <4> QED
        BY <3>1, <4>2
    <3>2. CASE balance[a] # n
      <4>1. \A c \in Accounts : balance[c] > 0 <=> mid[c] > 0
        BY <1>2, <2>1, <2>2, <3>2
      <4>2. Holders(balance) = Holders(mid)
        BY <1>2, <2>0, <4>1 DEF Holders
      <4> QED
        BY <3>2, <4>2
    <3> QED
      BY <3>1, <3>2
  <2>5. Cardinality(Holders(balance')) =
            IF balance[b] = 0 THEN Cardinality(Holders(mid)) + 1
                              ELSE Cardinality(Holders(mid))
    <3>1. CASE balance[b] = 0
      <4>1. /\ mid[b] = 0 /\ balance'[b] > 0
            /\ \A c \in Accounts : c # b => (balance'[c] > 0 <=> mid[c] > 0)
        BY <1>2, <2>1, <2>2, <3>1
      <4>2. Cardinality(Holders(balance')) = Cardinality(Holders(mid)) + 1
        <5>1. balance' \in [Accounts -> 0 .. IMax]
          BY <1>2
        <5> QED
          BY <2>0, <4>1, <5>1, HoldersGain
      <4> QED
        BY <3>1, <4>2
    <3>2. CASE balance[b] # 0
      <4>1. \A c \in Accounts : balance'[c] > 0 <=> mid[c] > 0
        BY <1>2, <2>1, <2>2, <3>2
      <4>2. Cardinality(Holders(balance')) = Cardinality(Holders(mid))
        <5>1. balance' \in [Accounts -> 0 .. IMax]
          BY <1>2
        <5>2. Holders(balance') = Holders(mid)
          BY <2>0, <4>1, <5>1 DEF Holders
        <5> QED
          BY <5>2
      <4> QED
        BY <3>2, <4>2
    <3> QED
      BY <3>1, <3>2
  <2> QED
    BY <1>2, <1>7, <2>3, <2>4, <2>5 DEF Recount
<1>8. CASE \E a \in Accounts, n \in Amount \ {0} : Booked(a, n)
  BY <1>1, <1>5, <1>6, <1>7, <1>8 DEF Booked, CountInv, HolderCountExact
<1> QED
  BY <1>4, <1>8, StepBooked DEF CountInv

(***************************************************************************)
(* holder_count() always is the number of addresses with a positive        *)
(* balance: the saturating decrement never saturates.                      *)
(***************************************************************************)
THEOREM AssetCountsHolders == Spec => []HolderCountExact
<1>1. Init => CountInv
  <2> SUFFICES ASSUME Init PROVE CountInv
    OBVIOUS
  <2>1. LedgerInv
    BY LedgerInvInit DEF Init, LedgerInit
  <2>2. Holders(balance) = {}
    BY DEF Init, Holders
  <2>3. Cardinality(Holders(balance)) = 0
    BY <2>2, FS_EmptySet
  <2> QED
    BY <2>1, <2>3 DEF Init, CountInv, HolderCountExact
<1>2. CountInv => HolderCountExact
  BY DEF CountInv
<1> QED
  BY <1>1, <1>2, CountStep, PTL DEF Spec

-----------------------------------------------------------------------------
(* The admin role *)

\* Every invocation is a step of the handover, signed by some account.
LEMMA HandoverStep ==
    ASSUME TypeOK, [Next]_vars
    PROVE  [Handover!HandoverNext]_(Handover!handoverVars)
<1> USE DEF RequireAdmin, RequireAuth, adminVars
<1>0. admin \in Accounts /\ (governance # None => governance \in Accounts)
  BY DEF TypeOK, Handover!HandoverTypeOK
<1>1. CASE \E a \in Accounts : signer' = a /\ UNCHANGED adminVars
  BY <1>1 DEF Handover!HandoverNext, Handover!OtherCall, Handover!RequireAuth
<1>2. CASE TokenCall
  <2>1. Issuers \subseteq Accounts /\ Spenders \subseteq Accounts
        /\ Operators \subseteq Accounts
    BY InputsAssumption
  <2>2. ASSUME NEW a \in Accounts, NEW n \in Amounts,
               \/ \E i \in Issuers : Mint(i, a, n)
               \/ Burn(a, n)
               \/ \E s \in Spenders : BurnFrom(s, a, n)
        PROVE  signer' \in Accounts /\ UNCHANGED adminVars
    BY <2>1, <2>2 DEF Mint, Burn, BurnFrom
  <2>3. ASSUME NEW a \in Accounts, NEW b \in Accounts, NEW n \in Amounts,
               \/ Transfer(a, b, n)
               \/ \E s \in Spenders : TransferFrom(s, a, b, n)
               \/ \E o \in Operators : ForcedTransfer(o, a, b, n)
        PROVE  signer' \in Accounts /\ UNCHANGED adminVars
    BY <2>1, <2>3 DEF Transfer, TransferFrom, ForcedTransfer
  <2> QED
    BY <1>1, <1>2, <2>2, <2>3 DEF TokenCall
<1>3. CASE HolderCall
  BY <1>1, <1>3 DEF HolderCall, Approve
<1>4. CASE PolicyCall
  <2>1. signer' = admin /\ UNCHANGED adminVars
    BY <1>4 DEF PolicyCall, SetIssuer, SetForcedTransferRole, SetFrozen,
       SetLockupDate, SetPaused, SetHolderCap, SetCompliance
  <2> QED
    BY <1>0, <1>1, <2>1
<1>5. CASE CapCall
  <2>1. signer' \in {admin, governance} /\ signer' # None /\ UNCHANGED adminVars
    BY <1>0, <1>5, NoneAssumption DEF CapCall, SetGovernance, UpdateMetadata,
       ProposeCapIncrease, ApproveCapIncrease, CancelCapIncrease
  <2> QED
    BY <1>0, <1>1, <2>1
<1>6. CASE HandoverCall
  BY <1>6, InputsAssumption DEF HandoverCall, ProposeAdmin, AcceptAdmin,
     CancelAdminTransfer, Handover!HandoverNext
<1>7. CASE Environment \/ UNCHANGED vars
  BY <1>7 DEF Environment, CloseLedger, StandingChanges, vars,
     Handover!handoverVars
<1> QED
  BY <1>2, <1>3, <1>4, <1>5, <1>6, <1>7 DEF Next

\* The admin variables keep their types.
LEMMA HandoverTypeStep ==
    ASSUME TypeOK, [Next]_vars
    PROVE  Handover!HandoverTypeOK'
<1>1. [Handover!HandoverNext]_(Handover!handoverVars)
  BY HandoverStep
<1> QED
  BY <1>1, NoneAssumption DEF TypeOK, Handover!HandoverTypeOK, Handover!HandoverNext,
     Handover!handoverVars, Handover!ProposeAdmin, Handover!AcceptAdmin,
     Handover!CancelAdminTransfer, Handover!OtherCall, Handover!RequireAdmin,
     Handover!RequireAuth

-----------------------------------------------------------------------------
(* Types *)

\* A spent allowance still is an amount: it covered what was spent.
LEMMA SpentAllowance ==
    ASSUME TypeOK, NEW o \in Accounts, NEW s \in Accounts, NEW n \in Nat,
           SpendAllowance(o, s, n)
    PROVE  allowance' \in [Accounts -> [Accounts ->
                              [amount : Amount, live_until_ledger : Nat]]]
<1> DEFINE R == [amount : Amount, live_until_ledger : Nat]
           current == ReadAllowance(o, s)
<1>1. IMax \in Nat /\ allowance \in [Accounts -> [Accounts -> R]]
  BY IMaxAssumption DEF TypeOK
<1>2. allowance[o][s] \in R /\ NoAllowance \in R
  BY <1>1 DEF NoAllowance, Amount
<1>3. current \in R
  BY <1>2 DEF ReadAllowance
<1>4. current.amount >= n
      /\ allowance' = [allowance EXCEPT ![o][s] = [current EXCEPT !.amount = @ - n]]
  BY DEF SpendAllowance
<1> HIDE DEF current
<1>5. [current EXCEPT !.amount = @ - n] \in R
  <2>1. current.amount \in Amount
    BY <1>3
  <2>2. current.amount - n \in Amount
    BY <1>1, <1>4, <2>1 DEF Amount
  <2> QED
    BY <1>3, <2>2
<1> HIDE DEF R
<1>6. allowance' \in [Accounts -> [Accounts -> R]]
  BY <1>1, <1>4, <1>5
<1> QED
  BY <1>6 DEF R

LEMMA AllowanceTypeStep ==
    ASSUME TypeOK, [Next]_vars
    PROVE  allowance' \in [Accounts -> [Accounts ->
                              [amount : Amount, live_until_ledger : Nat]]]
<1> DEFINE R == [amount : Amount, live_until_ledger : Nat]
<1>1. IMax \in Nat /\ allowance \in [Accounts -> [Accounts -> R]]
  BY IMaxAssumption DEF TypeOK
<1>2. CASE UNCHANGED allowance
  BY <1>1, <1>2
<1>3. CASE HolderCall
  <2> PICK a \in Accounts, s \in Spenders, g \in ApprovalInputs : Approve(a, s, g)
    BY <1>3 DEF HolderCall
  <2>1. g \in [amount : Int, live_until_ledger : Nat] /\ g.amount <= IMax
        /\ s \in Accounts
    BY InputsAssumption
  <2>2. g.amount >= 0 /\ allowance' = [allowance EXCEPT ![a][s] = g]
    BY DEF Approve
  <2>3. g \in R
    BY <1>1, <2>1, <2>2 DEF Amount
  <2> HIDE DEF R
  <2>4. allowance' \in [Accounts -> [Accounts -> R]]
    BY <1>1, <2>1, <2>2, <2>3
  <2> QED
    BY <2>4 DEF R
<1>4. CASE TokenCall
  <2> SUFFICES ASSUME ~ UNCHANGED allowance
               PROVE  allowance' \in [Accounts -> [Accounts -> R]]
    BY <1>1
  <2>1. PICK a \in Accounts, n \in Amounts, s \in Spenders :
            SpendAllowance(a, s, n) /\ RequirePositive(n)
    <3>1. \A a \in Accounts, n \in Amounts : ~ Burn(a, n)
      BY DEF Burn
    <3>2. \A i \in Issuers, a \in Accounts, n \in Amounts : ~ Mint(i, a, n)
      BY DEF Mint
    <3>3. \A a, b \in Accounts, n \in Amounts : ~ Transfer(a, b, n)
      BY DEF Transfer
    <3>4. \A o \in Operators, a, b \in Accounts, n \in Amounts : ~ ForcedTransfer(o, a, b, n)
      BY DEF ForcedTransfer
    <3>5. ASSUME NEW s \in Spenders, NEW a \in Accounts, NEW n \in Amounts, BurnFrom(s, a, n)
          PROVE  SpendAllowance(a, s, n) /\ RequirePositive(n)
      BY <3>5 DEF BurnFrom
    <3>6. ASSUME NEW s \in Spenders, NEW a \in Accounts, NEW b \in Accounts,
                 NEW n \in Amounts, TransferFrom(s, a, b, n)
          PROVE  SpendAllowance(a, s, n) /\ RequirePositive(n)
      BY <3>6 DEF TransferFrom
    <3> HIDE DEF R
    <3> QED
      BY <1>4, <3>1, <3>2, <3>3, <3>4, <3>5, <3>6 DEF TokenCall
  <2>2. n \in Nat /\ s \in Accounts
    BY <2>1, InputsAssumption DEF RequirePositive
  <2> QED
    BY <2>1, <2>2, SpentAllowance
<1>5. CASE PolicyCall \/ CapCall \/ HandoverCall \/ Environment \/ UNCHANGED vars
  <2>1. UNCHANGED allowance
    BY <1>5 DEF PolicyCall, SetIssuer, SetForcedTransferRole, SetFrozen, SetLockupDate,
       SetPaused, SetHolderCap, SetCompliance, CapCall, SetGovernance, UpdateMetadata,
       ProposeCapIncrease, ApproveCapIncrease, CancelCapIncrease, HandoverCall,
       ProposeAdmin, AcceptAdmin, CancelAdminTransfer, Environment, CloseLedger,
       StandingChanges, vars
  <2> QED
    BY <1>2, <2>1
<1> QED
  BY <1>3, <1>4, <1>5 DEF Next

\* Only the calls about the metadata and the cap write these variables.
LEMMA CapFrame ==
    ASSUME [Next]_vars, ~CapCall
    PROVE  UNCHANGED <<metadata, metadataVersion, pendingCap, governance>>
<1> USE DEF metaVars, configVars
<1> DEFINE Kept == UNCHANGED <<metadata, metadataVersion, pendingCap, governance>>
<1>1. CASE TokenCall
  <2>1. \A a \in Accounts, n \in Amounts : Burn(a, n) => Kept
    BY DEF Burn
  <2>2. \A i \in Issuers, a \in Accounts, n \in Amounts : Mint(i, a, n) => Kept
    BY DEF Mint
  <2>3. \A a, b \in Accounts, n \in Amounts : Transfer(a, b, n) => Kept
    BY DEF Transfer
  <2>4. \A o \in Operators, a, b \in Accounts, n \in Amounts :
            ForcedTransfer(o, a, b, n) => Kept
    BY DEF ForcedTransfer
  <2>5. \A s \in Spenders, a \in Accounts, n \in Amounts : BurnFrom(s, a, n) => Kept
    BY DEF BurnFrom
  <2>6. \A s \in Spenders, a, b \in Accounts, n \in Amounts :
            TransferFrom(s, a, b, n) => Kept
    BY DEF TransferFrom
  <2> HIDE DEF Kept
  <2>7. Kept
    BY <1>1, <2>1, <2>2, <2>3, <2>4, <2>5, <2>6 DEF TokenCall
  <2> QED
    BY <2>7 DEF Kept
<1>2. CASE HolderCall \/ HandoverCall \/ Environment
  BY <1>2 DEF HolderCall, Approve, HandoverCall, ProposeAdmin, AcceptAdmin,
     CancelAdminTransfer, Environment, CloseLedger, StandingChanges
<1>3. CASE PolicyCall
  BY <1>3 DEF PolicyCall, SetIssuer, SetForcedTransferRole, SetFrozen, SetLockupDate,
     SetPaused, SetHolderCap, SetCompliance
<1>4. CASE UNCHANGED vars
  BY <1>4 DEF vars
<1> QED
  BY <1>1, <1>2, <1>3, <1>4 DEF Next

MetaTypes ==
    /\ metadata \in [decimals : 0 .. MaxDecimals, max_supply : Amount, doc : ValidDocs]
    /\ metadataVersion \in 1 .. MaxVersion
    /\ pendingCap \in Amount \cup {None}
    /\ governance \in Accounts \cup {None}

\* The part of the types the calls about metadata and cap answer for.
LEMMA MetaTypeStep ==
    ASSUME MetaTypes, [Next]_vars
    PROVE  MetaTypes'
<1> DEFINE D == [decimals : 0 .. MaxDecimals, max_supply : Amount, doc : ValidDocs]
<1> USE DEF MetaTypes
<1>1. CASE UNCHANGED <<metadata, metadataVersion, pendingCap, governance>>
  BY <1>1
<1>2. ASSUME NEW m \in D, ReplaceMetadata(m)
      PROVE  metadata' \in D /\ metadataVersion' \in 1 .. MaxVersion
  BY <1>2, BoundsAssumption DEF ReplaceMetadata
<1>3. ASSUME NEW m \in Metadatas, UpdateMetadata(m) PROVE MetaTypes'
  <2>1. m \in [decimals : Nat, max_supply : Int, doc : ValidDocs \cup {None}]
        /\ m.max_supply <= IMax
    BY InputsAssumption
  <2>2. m.decimals \in 0 .. MaxDecimals /\ m.max_supply \in Amount /\ m.doc \in ValidDocs
    BY <1>3, <2>1, IMaxAssumption DEF UpdateMetadata, ValidMetadata, Amount
  <2>3. m \in D
    BY <2>1, <2>2
  <2>4. UNCHANGED <<pendingCap, governance>> /\ ReplaceMetadata(m)
    BY <1>3 DEF UpdateMetadata, configVars
  <2> QED
    BY <1>2, <2>3, <2>4
<1>4. ASSUME NEW c \in CapInputs, ProposeCapIncrease(c) PROVE MetaTypes'
  <2>1. c \in Amount
    BY <1>4, InputsAssumption, IMaxAssumption DEF ProposeCapIncrease, Amount
  <2> QED
    BY <1>4, <2>1 DEF ProposeCapIncrease, configVars
<1>5. ASSUME ApproveCapIncrease PROVE MetaTypes'
  <2>1. [metadata EXCEPT !.max_supply = pendingCap] \in D
    BY <1>5 DEF ApproveCapIncrease
  <2>2. /\ UNCHANGED governance /\ pendingCap' = None
        /\ ReplaceMetadata([metadata EXCEPT !.max_supply = pendingCap])
    BY <1>5 DEF ApproveCapIncrease, configVars
  <2> QED
    BY <1>2, <2>1, <2>2
<1>6. ASSUME CancelCapIncrease \/ \E g \in GovernanceInputs : SetGovernance(g)
      PROVE  MetaTypes'
  BY <1>6, InputsAssumption DEF CancelCapIncrease, SetGovernance, configVars, metaVars
<1> QED
  BY <1>1, <1>3, <1>4, <1>5, <1>6, CapFrame DEF CapCall

MiscTypes ==
    /\ ledger \in 0 .. MaxLedger
    /\ paused \in BOOLEAN
    /\ holderCap \in Nat \cup {None}
    /\ issuers \subseteq Accounts /\ operators \subseteq Accounts
    /\ frozen \subseteq Accounts
    /\ lockup \in [Accounts -> Nat]
    /\ policy \in [screening : BOOLEAN, min_level : Levels]
    /\ standing \in [Accounts -> Levels \cup {-1}]

\* The part policy settings and the environment answer for.
LEMMA MiscTypeStep ==
    ASSUME MiscTypes, [Next]_vars
    PROVE  MiscTypes'
<1> USE DEF MiscTypes, roleVars, configVars
<1>1. CASE UNCHANGED <<ledger, paused, holderCap, policy, standing, roleVars>>
  BY <1>1
<1>2. CASE TokenCall
  <2>1. ASSUME NEW a \in Accounts, NEW n \in Amounts,
               \/ \E i \in Issuers : Mint(i, a, n)
               \/ Burn(a, n)
               \/ \E s \in Spenders : BurnFrom(s, a, n)
        PROVE  MiscTypes'
    BY <1>1, <2>1 DEF Mint, Burn, BurnFrom
  <2>2. ASSUME NEW a \in Accounts, NEW b \in Accounts, NEW n \in Amounts,
               \/ Transfer(a, b, n)
               \/ \E s \in Spenders : TransferFrom(s, a, b, n)
               \/ \E o \in Operators : ForcedTransfer(o, a, b, n)
        PROVE  MiscTypes'
    BY <1>1, <2>2 DEF Transfer, TransferFrom, ForcedTransfer
  <2> QED
    BY <1>2, <2>1, <2>2 DEF TokenCall
<1>3. CASE HolderCall \/ HandoverCall
  BY <1>1, <1>3 DEF HolderCall, Approve, HandoverCall, ProposeAdmin, AcceptAdmin,
     CancelAdminTransfer
<1>4. CASE CapCall
  BY <1>1, <1>4 DEF CapCall, SetGovernance, UpdateMetadata, ProposeCapIncrease,
     ApproveCapIncrease, CancelCapIncrease
<1>5. CASE PolicyCall
  <2>1. Issuers \subseteq Accounts /\ Operators \subseteq Accounts
        /\ Targets \subseteq Accounts /\ PauseInputs \subseteq BOOLEAN
        /\ HolderCapInputs \subseteq Nat \cup {None} /\ LockupInputs \subseteq Nat
        /\ ComplianceInputs \subseteq [screening : BOOLEAN, min_level : Nat]
    BY InputsAssumption
  <2>2. ASSUME NEW a \in Issuers, NEW on \in BOOLEAN, SetIssuer(a, on) PROVE MiscTypes'
    BY <2>1, <2>2 DEF SetIssuer, Flagged
  <2>3. ASSUME NEW a \in Operators, NEW on \in BOOLEAN, SetForcedTransferRole(a, on)
        PROVE  MiscTypes'
    BY <2>1, <2>3 DEF SetForcedTransferRole, Flagged
  <2>4. ASSUME NEW a \in Targets, NEW on \in BOOLEAN, SetFrozen(a, on) PROVE MiscTypes'
    BY <2>1, <2>4 DEF SetFrozen, Flagged
  <2>5. ASSUME NEW a \in Targets, NEW l \in LockupInputs, SetLockupDate(a, l)
        PROVE  MiscTypes'
    BY <2>1, <2>5 DEF SetLockupDate
  <2>6. ASSUME NEW p \in PauseInputs, SetPaused(p) PROVE MiscTypes'
    BY <2>1, <2>6 DEF SetPaused
  <2>7. ASSUME NEW c \in HolderCapInputs, SetHolderCap(c) PROVE MiscTypes'
    BY <2>1, <2>7 DEF SetHolderCap
  <2>8. ASSUME NEW p \in ComplianceInputs, SetCompliance(p) PROVE MiscTypes'
    <3>1. p \in [screening : BOOLEAN, min_level : Levels]
      BY <2>1, <2>8 DEF SetCompliance, Levels
    <3> QED
      BY <2>8, <3>1 DEF SetCompliance
  <2> QED
    BY <1>5, <2>2, <2>3, <2>4, <2>5, <2>6, <2>7, <2>8 DEF PolicyCall
<1>6. CASE Environment
  <2>1. StandingInputs \subseteq Levels \cup {-1} /\ MaxLedger \in Nat
    BY InputsAssumption, BoundsAssumption
  <2>2. CASE CloseLedger
    BY <2>1, <2>2 DEF CloseLedger
  <2>3. ASSUME NEW a \in Accounts, NEW l \in StandingInputs, StandingChanges(a, l)
        PROVE  MiscTypes'
    BY <2>1, <2>3 DEF StandingChanges
  <2> QED
    BY <1>6, <2>2, <2>3 DEF Environment
<1>7. CASE UNCHANGED vars
  BY <1>1, <1>7 DEF vars
<1> QED
  BY <1>2, <1>3, <1>4, <1>5, <1>6, <1>7 DEF Next

\* A saturating count of holders stays a natural number.
LEMMA CountTypeStep ==
    ASSUME LedgerInv, holderCount \in Nat, [Next]_vars
    PROVE  holderCount' \in Nat
BY StepBooked DEF Booked, Recount, tokenVars

\* A burn takes no more than the supply, and a transfer's credit fits, because
\* the books add up: the types need the conservation of value.
AssetInv == TypeOK /\ LedgerInv

LEMMA AssetInvStep == AssetInv /\ [Next]_vars => AssetInv'
<1> SUFFICES ASSUME AssetInv, [Next]_vars
             PROVE  AssetInv'
  OBVIOUS
<1>1. TypeOK /\ LedgerInv
  BY DEF AssetInv
<1>2. LedgerInv'
  BY <1>1, LedgerStep, LedgerInvStep
<1>3. MetaTypes' /\ MiscTypes'
  BY <1>1, MetaTypeStep, MiscTypeStep DEF TypeOK, MetaTypes, MiscTypes
<1>4. holderCount' \in Nat
  BY <1>1, CountTypeStep DEF TypeOK
<1>5. Handover!HandoverTypeOK'
  BY <1>1, HandoverTypeStep
<1>6. allowance' \in [Accounts -> [Accounts ->
                         [amount : Amount, live_until_ledger : Nat]]]
  BY <1>1, AllowanceTypeStep
<1> QED
  BY <1>2, <1>3, <1>4, <1>5, <1>6
     DEF AssetInv, TypeOK, MetaTypes, MiscTypes, LedgerInv, LedgerTypeOK

LEMMA AssetInvInit == Init => AssetInv
<1> SUFFICES ASSUME Init PROVE AssetInv
  OBVIOUS
<1>1. LedgerInv
  BY LedgerInvInit DEF Init, LedgerInit
<1>2. PICK d \in Deployers : Handover!HandoverInit(d)
  BY DEF Init
<1>3. Handover!HandoverTypeOK
  BY <1>2, InputsAssumption DEF Handover!HandoverInit, Handover!HandoverTypeOK
<1>4. MetaTypes
  <2>1. metadata \in Metadatas /\ ValidMetadata(metadata)
    BY DEF Init
  <2>2. metadata \in [decimals : Nat, max_supply : Int, doc : ValidDocs \cup {None}]
        /\ metadata.max_supply <= IMax
    BY <2>1, InputsAssumption
  <2>3. metadata.decimals \in 0 .. MaxDecimals /\ metadata.max_supply \in Amount
        /\ metadata.doc \in ValidDocs
    BY <2>1, <2>2, IMaxAssumption DEF ValidMetadata, Amount
  <2> QED
    BY <2>2, <2>3, BoundsAssumption DEF Init, MetaTypes
<1>5. MiscTypes
  <2>1. 0 \in Levels /\ MaxLedger \in Nat
    BY BoundsAssumption DEF Levels, MaxComplianceLevel
  <2>2. ledger \in 0 .. MaxLedger /\ lockup \in [Accounts -> Nat]
    BY <2>1 DEF Init
  <2>3. policy \in [screening : BOOLEAN, min_level : Levels]
    BY <2>1 DEF Init
  <2>4. standing \in [Accounts -> Levels \cup {-1}]
    BY DEF Init
  <2> QED
    BY <2>2, <2>3, <2>4 DEF Init, MiscTypes
<1>6. holderCount \in Nat /\ allowance \in [Accounts -> [Accounts ->
                         [amount : Amount, live_until_ledger : Nat]]]
  BY IMaxAssumption DEF Init, NoAllowance, Amount
<1> QED
  BY <1>1, <1>3, <1>4, <1>5, <1>6
     DEF AssetInv, TypeOK, MetaTypes, MiscTypes, LedgerInv, LedgerTypeOK

(***************************************************************************)
(* Every stored amount stays representable and every role an account: the  *)
(* checks of the entry points suffice, whatever the callers pass.          *)
(***************************************************************************)
THEOREM AssetTypes == Spec => []TypeOK
<1>1. AssetInv => TypeOK
  BY DEF AssetInv
<1> QED
  BY <1>1, AssetInvInit, AssetInvStep, PTL DEF Spec

(***************************************************************************)
(* The admin role passes on by the two-step handover, whatever the asset's *)
(* other thirty entry points do.                                           *)
(***************************************************************************)
THEOREM AssetImplementsHandover == Spec => ImplementsHandover
<1>1. Init => \E a \in Accounts : Handover!HandoverInit(a)
  BY InputsAssumption DEF Init
<1>2. AssetInv /\ [Next]_vars => [Handover!HandoverNext]_(Handover!handoverVars)
  BY HandoverStep DEF AssetInv
<1> QED
  BY <1>1, <1>2, AssetInvInit, AssetInvStep, PTL
     DEF Spec, ImplementsHandover, Handover!HandoverSpec

-----------------------------------------------------------------------------
(* The issuance cap *)

\* The half of CapCoversSupply about the cap in force.
CapInForceCovers == metadata.max_supply > 0 => totalSupply <= metadata.max_supply

\* What a call about value may do to the supply, seen from the cap.
LEMMA SupplyUnderCap ==
    ASSUME AssetInv, CapInForceCovers, TokenCall
    PROVE  /\ UNCHANGED <<metadata, pendingCap>>
           /\ CapInForceCovers'
<1> PICK a \in Accounts, n \in Amounts :
        \/ \E i \in Issuers : Mint(i, a, n)
        \/ Burn(a, n)
        \/ \E s \in Spenders : BurnFrom(s, a, n)
        \/ \E b \in Accounts :
              \/ Transfer(a, b, n)
              \/ \E s \in Spenders : TransferFrom(s, a, b, n)
              \/ \E o \in Operators : ForcedTransfer(o, a, b, n)
  BY DEF TokenCall
<1>1. metadata.max_supply \in Nat /\ totalSupply \in Nat
  BY IMaxAssumption DEF AssetInv, TypeOK, Amount
<1>2. n \in Int
  BY InputsAssumption
<1>3. CASE \E i \in Issuers : Mint(i, a, n)
  BY <1>3 DEF Mint, metaVars, CapInForceCovers
<1>4. CASE Burn(a, n) \/ \E s \in Spenders : BurnFrom(s, a, n)
  <2>1. UNCHANGED <<metadata, pendingCap>> /\ n > 0 /\ totalSupply' = totalSupply - n
    BY <1>4 DEF Burn, BurnFrom, Debit, RequirePositive, metaVars
  <2> QED
    BY <1>1, <1>2, <2>1 DEF CapInForceCovers
<1>5. CASE \E b \in Accounts :
              \/ Transfer(a, b, n)
              \/ \E s \in Spenders : TransferFrom(s, a, b, n)
              \/ \E o \in Operators : ForcedTransfer(o, a, b, n)
  <2>1. UNCHANGED <<metadata, pendingCap>> /\ \E b \in Accounts : Move(a, b, n)
    BY <1>5 DEF Transfer, TransferFrom, ForcedTransfer, metaVars
  <2>2. UNCHANGED totalSupply
    BY <2>1 DEF Move, tokenVars
  <2> QED
    BY <2>1, <2>2 DEF CapInForceCovers
<1> QED
  BY <1>3, <1>4, <1>5

LEMMA CapInvStep == AssetInv /\ CapCoversSupply /\ [Next]_vars => CapCoversSupply'
<1> SUFFICES ASSUME AssetInv, CapCoversSupply, [Next]_vars
             PROVE  CapCoversSupply'
  OBVIOUS
<1> USE DEF CapCoversSupply, CapInForceCovers, Loosens
<1>1. /\ metadata.max_supply \in Nat /\ totalSupply \in Nat
      /\ pendingCap # None => pendingCap \in Nat
      /\ None \notin Int
  BY IMaxAssumption, NoneAssumption DEF AssetInv, TypeOK, Amount
<1>2. /\ totalSupply' \in Nat
  BY AssetInvStep, IMaxAssumption DEF AssetInv, TypeOK, Amount
<1>3. CASE TokenCall
  <2>1. UNCHANGED <<metadata, pendingCap>> /\ CapInForceCovers'
    BY <1>3, SupplyUnderCap
  <2> QED
    BY <1>1, <1>2, <2>1
<1>4. ASSUME NEW m \in Metadatas, UpdateMetadata(m) PROVE CapCoversSupply'
  <2>1. m.max_supply \in Int /\ m.max_supply >= 0
    BY <1>4, InputsAssumption DEF UpdateMetadata, ValidMetadata
  <2>2. /\ metadata' = m /\ UNCHANGED <<totalSupply, pendingCap>>
        /\ ValidMetadataChange(m)
    BY <1>4 DEF UpdateMetadata, ReplaceMetadata, tokenVars
  <2> QED
    BY <1>1, <2>1, <2>2 DEF ValidMetadataChange
<1>5. ASSUME NEW c \in CapInputs, ProposeCapIncrease(c) PROVE CapCoversSupply'
  <2>1. c \in Int
    BY InputsAssumption
  <2> QED
    BY <1>1, <1>5, <2>1 DEF ProposeCapIncrease, tokenVars
<1>6. ASSUME ApproveCapIncrease PROVE CapCoversSupply'
  <2>1. /\ metadata' = [metadata EXCEPT !.max_supply = pendingCap]
        /\ pendingCap # None /\ pendingCap' = None /\ UNCHANGED totalSupply
    BY <1>6 DEF ApproveCapIncrease, ReplaceMetadata, tokenVars
  <2>2. metadata'.max_supply = pendingCap
    BY <2>1 DEF AssetInv, TypeOK
  <2> QED
    BY <1>1, <2>1, <2>2
<1>7. ASSUME CancelCapIncrease \/ \E g \in GovernanceInputs : SetGovernance(g)
      PROVE  CapCoversSupply'
  BY <1>7 DEF CancelCapIncrease, SetGovernance, tokenVars, metaVars
<1>8. CASE ~CapCall /\ ~TokenCall
  <2>1. UNCHANGED <<metadata, pendingCap>>
    BY <1>8, CapFrame
  <2>2. UNCHANGED totalSupply
    BY <1>8, QuietCalls DEF Next, vars, tokenVars
  <2> QED
    BY <2>1, <2>2
<1> QED
  BY <1>3, <1>4, <1>5, <1>6, <1>7, <1>8 DEF CapCall

LEMMA CapInvInit == Init => CapCoversSupply
<1> SUFFICES ASSUME Init PROVE CapCoversSupply
  OBVIOUS
<1>1. metadata.max_supply \in Nat
  BY AssetInvInit, IMaxAssumption DEF AssetInv, TypeOK, Amount
<1> QED
  BY <1>1 DEF Init, CapCoversSupply

(***************************************************************************)
(* A finite issuance cap is never below what is in circulation, and a cap  *)
(* increase awaiting approval never stops being one.                       *)
(***************************************************************************)
THEOREM AssetCapCoversSupply == Spec => []CapCoversSupply
<1> QED
  BY AssetInvInit, AssetInvStep, CapInvInit, CapInvStep, PTL DEF Spec

(***************************************************************************)
(* The cap is loosened only with the governance signature and only to the  *)
(* value proposed.                                                         *)
(***************************************************************************)
THEOREM AssetCapNeedsGovernance == Spec => CapLoosensOnlyWithGovernance
<1>1. ASSUME AssetInv, [Next]_vars
      PROVE  [Loosens(metadata.max_supply, metadata'.max_supply) =>
                 /\ governance # None /\ signer' = governance
                 /\ metadata'.max_supply = pendingCap /\ pendingCap' = None]_vars
  <2>1. metadata.max_supply \in Nat
    BY <1>1, IMaxAssumption DEF AssetInv, TypeOK, Amount
  <2>2. CASE UNCHANGED metadata
    BY <2>1, <2>2 DEF Loosens
  <2>3. ASSUME NEW m \in Metadatas, UpdateMetadata(m)
        PROVE  ~Loosens(metadata.max_supply, metadata'.max_supply)
    BY <2>3 DEF UpdateMetadata, ValidMetadataChange, ReplaceMetadata
  <2>4. CASE ApproveCapIncrease
    <3>1. metadata' = [metadata EXCEPT !.max_supply = pendingCap]
      BY <2>4 DEF ApproveCapIncrease, ReplaceMetadata
    <3>2. metadata'.max_supply = pendingCap
      BY <1>1, <3>1 DEF AssetInv, TypeOK
    <3> QED
      BY <2>4, <3>2 DEF ApproveCapIncrease, RequireAuth
  <2>5. CASE CapCall
    BY <2>2, <2>3, <2>4, <2>5 DEF CapCall, ProposeCapIncrease, CancelCapIncrease,
       SetGovernance, metaVars
  <2> QED
    BY <1>1, <2>2, <2>5, CapFrame
<1> QED
  BY <1>1, AssetInvInit, AssetInvStep, PTL DEF Spec, CapLoosensOnlyWithGovernance

-----------------------------------------------------------------------------
(* Who may move value *)

\* The steps that touch a balance, and all others.
LEMMA TokenCases ==
    ASSUME [Next]_vars
    PROVE  \/ \E i \in Issuers, a \in Accounts, n \in Amounts : Mint(i, a, n)
           \/ \E a \in Accounts, n \in Amounts : Burn(a, n)
           \/ \E s \in Spenders, a \in Accounts, n \in Amounts : BurnFrom(s, a, n)
           \/ \E a, b \in Accounts, n \in Amounts : Transfer(a, b, n)
           \/ \E s \in Spenders, a, b \in Accounts, n \in Amounts :
                 TransferFrom(s, a, b, n)
           \/ \E o \in Operators, a, b \in Accounts, n \in Amounts :
                 ForcedTransfer(o, a, b, n)
           \/ UNCHANGED tokenVars
<1>1. CASE TokenCall
  BY <1>1 DEF TokenCall
<1>2. CASE HolderCall \/ PolicyCall \/ CapCall \/ HandoverCall \/ Environment
  BY <1>2, QuietCalls
<1>3. CASE UNCHANGED vars
  BY <1>3 DEF vars
<1> QED
  BY <1>1, <1>2, <1>3 DEF Next

\* The balances and the supply after each kind of movement.
LEMMA MintMoves ==
    ASSUME TypeOK, NEW i \in Issuers, NEW a \in Accounts, NEW n \in Amounts, Mint(i, a, n)
    PROVE  /\ Compliant(a)
           /\ \A c \in Accounts : ~(balance'[c] < balance[c])
           /\ \A c \in Accounts : balance'[c] # balance[c] => c = a
<1>1. n \in Nat /\ balance \in [Accounts -> 0 .. IMax] /\ IMax \in Nat
  BY InputsAssumption, IMaxAssumption DEF Mint, RequirePositive, TypeOK, Amount
<1>2. balance' = [balance EXCEPT ![a] = balance[a] + n] /\ Compliant(a)
  BY DEF Mint
<1> QED
  BY <1>1, <1>2

LEMMA DebitMoves ==
    ASSUME TypeOK, NEW a \in Accounts, NEW n \in Amounts, n > 0, Debit(a, n)
    PROVE  /\ totalSupply' < totalSupply
           /\ balance[a] - balance'[a] = n
           /\ \A c \in Accounts : c # a => balance'[c] = balance[c]
<1>1. /\ n \in Nat \ {0} /\ balance \in [Accounts -> 0 .. IMax]
      /\ totalSupply \in 0 .. IMax /\ IMax \in Nat
  BY InputsAssumption, IMaxAssumption DEF TypeOK, Amount
<1>2. balance' = [balance EXCEPT ![a] = balance[a] - n] /\ totalSupply' = totalSupply - n
  BY DEF Debit
<1> QED
  BY <1>1, <1>2

LEMMA MoveMoves ==
    ASSUME TypeOK, NEW a \in Accounts, NEW b \in Accounts, NEW n \in Amounts, n > 0,
           Move(a, b, n)
    PROVE  /\ \A c \in Accounts : balance'[c] # balance[c] => c = a \/ c = b
           /\ \A c \in Accounts :
                 balance'[c] < balance[c] => c = a /\ balance[c] - balance'[c] = n
<1>1. n \in Nat \ {0} /\ balance \in [Accounts -> 0 .. IMax] /\ IMax \in Nat
  BY InputsAssumption, IMaxAssumption DEF TypeOK, Amount
<1>2. CASE UNCHANGED tokenVars
  BY <1>1, <1>2 DEF tokenVars
<1>3. CASE /\ a # b
           /\ balance' = [balance EXCEPT ![a] = balance[a] - n, ![b] = balance[b] + n]
  BY <1>1, <1>3
<1> QED
  BY <1>2, <1>3 DEF Move

\* An allowance that pays is in force and pays exactly.
LEMMA SpendPays ==
    ASSUME TypeOK, NEW a \in Accounts, NEW s \in Accounts, NEW n \in Nat \ {0},
           SpendAllowance(a, s, n)
    PROVE  LET grant == allowance[a][s]
           IN  /\ grant.live_until_ledger >= ledger /\ grant.amount >= n
               /\ allowance'[a][s].amount = grant.amount - n
<1> DEFINE R == [amount : Amount, live_until_ledger : Nat]
           grant == allowance[a][s]
<1>1. allowance \in [Accounts -> [Accounts -> R]]
  BY DEF TypeOK
<1>2. grant.live_until_ledger >= ledger
  BY DEF SpendAllowance, ReadAllowance, NoAllowance
<1>3. grant.amount >= n
      /\ allowance' = [allowance EXCEPT ![a][s] = [grant EXCEPT !.amount = grant.amount - n]]
  BY <1>2 DEF SpendAllowance, ReadAllowance
<1>4. grant \in R
  BY <1>1
<1> HIDE DEF grant
<1>5. allowance'[a][s] = [grant EXCEPT !.amount = grant.amount - n]
  BY <1>1, <1>3
<1>6. [grant EXCEPT !.amount = grant.amount - n].amount = grant.amount - n
  BY <1>4
<1> QED
  BY <1>2, <1>3, <1>5, <1>6 DEF grant

\* Calls that ask for a positive amount have one.
LEMMA AmountsAre ==
    ASSUME NEW n \in Amounts, RequirePositive(n) PROVE n > 0 /\ n \in Nat \ {0}
BY InputsAssumption DEF RequirePositive

(***************************************************************************)
(* Nobody's balance falls without the holder's signature, a live allowance *)
(* that pays for it, or the forced-transfer role, whatever is approved,    *)
(* lapses or is granted in between.                                        *)
(***************************************************************************)
THEOREM AssetMovesByConsent == Spec => BalanceFallsOnlyByConsent
<1> DEFINE Consent ==
      \A a \in Accounts : balance'[a] < balance[a] =>
          \/ signer' = a
          \/ signer' \in operators
          \/ LET drop  == balance[a] - balance'[a]
                 grant == allowance[a][signer']
             IN  /\ grant.live_until_ledger >= ledger
                 /\ allowance'[a][signer'].amount = grant.amount - drop
                 /\ grant.amount >= drop
<1>1. ASSUME AssetInv, [Next]_vars
      PROVE  Consent
  <2>0. TypeOK /\ Spenders \subseteq Accounts
    BY <1>1, InputsAssumption DEF AssetInv
  <2>1. ASSUME NEW i \in Issuers, NEW a \in Accounts, NEW n \in Amounts, Mint(i, a, n)
        PROVE  Consent
    BY <2>0, <2>1, MintMoves
  <2>2. ASSUME NEW a \in Accounts, NEW n \in Amounts, Burn(a, n)
        PROVE  Consent
    <3>1. n > 0 /\ Debit(a, n) /\ signer' = a
      BY <2>2, AmountsAre DEF Burn, RequireAuth
    <3>2. \A c \in Accounts : c # a => balance'[c] = balance[c]
      BY <2>0, <3>1, DebitMoves
    <3>3. \A c \in Accounts : ~(balance[c] < balance[c])
      BY <2>0, IMaxAssumption DEF TypeOK, Amount
    <3> QED
      BY <3>1, <3>2, <3>3
  <2>3. ASSUME NEW s \in Spenders, NEW a \in Accounts, NEW n \in Amounts,
               BurnFrom(s, a, n)
        PROVE  Consent
    <3>1. /\ n > 0 /\ n \in Nat \ {0} /\ Debit(a, n)
          /\ SpendAllowance(a, s, n) /\ signer' = s
      BY <2>3, AmountsAre DEF BurnFrom, RequireAuth
    <3>2. /\ \A c \in Accounts : c # a => balance'[c] = balance[c]
          /\ balance[a] - balance'[a] = n
      BY <2>0, <3>1, DebitMoves
    <3>3. \A c \in Accounts : ~(balance[c] < balance[c])
      BY <2>0, IMaxAssumption DEF TypeOK, Amount
    <3>4. /\ allowance[a][s].live_until_ledger >= ledger /\ allowance[a][s].amount >= n
          /\ allowance'[a][s].amount = allowance[a][s].amount - n
      BY <2>0, <3>1, SpendPays
    <3> QED
      BY <3>1, <3>2, <3>3, <3>4
  <2>4. ASSUME NEW a \in Accounts, NEW b \in Accounts, NEW n \in Amounts,
               Transfer(a, b, n)
        PROVE  Consent
    <3>1. n > 0 /\ Move(a, b, n) /\ signer' = a
      BY <2>4, AmountsAre DEF Transfer, RequireAuth
    <3> QED
      BY <2>0, <3>1, MoveMoves
  <2>5. ASSUME NEW s \in Spenders, NEW a \in Accounts, NEW b \in Accounts,
               NEW n \in Amounts, TransferFrom(s, a, b, n)
        PROVE  Consent
    <3>1. /\ n > 0 /\ n \in Nat \ {0} /\ Move(a, b, n)
          /\ SpendAllowance(a, s, n) /\ signer' = s
      BY <2>5, AmountsAre DEF TransferFrom, RequireAuth
    <3>2. \A c \in Accounts :
             balance'[c] < balance[c] => c = a /\ balance[c] - balance'[c] = n
      BY <2>0, <3>1, MoveMoves
    <3>3. /\ allowance[a][s].live_until_ledger >= ledger /\ allowance[a][s].amount >= n
          /\ allowance'[a][s].amount = allowance[a][s].amount - n
      BY <2>0, <3>1, SpendPays
    <3> QED
      BY <3>1, <3>2, <3>3
  <2>6. ASSUME NEW o \in Operators, NEW a \in Accounts, NEW b \in Accounts,
               NEW n \in Amounts, ForcedTransfer(o, a, b, n)
        PROVE  Consent
    BY <2>6 DEF ForcedTransfer, RequireAuth
  <2>7. CASE UNCHANGED tokenVars
    <3>1. \A c \in Accounts : ~(balance[c] < balance[c])
      BY <2>0, IMaxAssumption DEF TypeOK, Amount
    <3> QED
      BY <2>7, <3>1 DEF tokenVars
  <2> QED
    BY <1>1, <2>1, <2>2, <2>3, <2>4, <2>5, <2>6, <2>7, TokenCases
<1> QED
  BY <1>1, AssetInvInit, AssetInvStep, PTL DEF Spec, BalanceFallsOnlyByConsent

(***************************************************************************)
(* A pause, a freeze and a lock-up hold a balance against everything but a *)
(* burn and a forced transfer, and a pause against burns as well.          *)
(***************************************************************************)
THEOREM AssetKeepsRestricted == Spec => RestrictedHolderKeepsTokens
<1> DEFINE Kept ==
      \A a \in Accounts :
          balance'[a] < balance[a] /\ (paused \/ ~Unrestricted(a)) =>
              \/ signer' \in operators
              \/ ~paused /\ totalSupply' < totalSupply
<1>1. ASSUME AssetInv, [Next]_vars
      PROVE  Kept
  <2>0. TypeOK
    BY <1>1 DEF AssetInv
  <2>1. ASSUME NEW i \in Issuers, NEW a \in Accounts, NEW n \in Amounts, Mint(i, a, n)
        PROVE  Kept
    BY <2>0, <2>1, MintMoves
  <2>2. ASSUME NEW a \in Accounts, NEW n \in Amounts, n > 0, Debit(a, n), ~paused
        PROVE  Kept
    BY <2>0, <2>2, DebitMoves
  <2>3. ASSUME NEW a \in Accounts, NEW b \in Accounts, NEW n \in Amounts, n > 0,
               Move(a, b, n), ~paused, Unrestricted(a)
        PROVE  Kept
    BY <2>0, <2>3, MoveMoves
  <2>4. ASSUME NEW a \in Accounts, NEW n \in Amounts,
               Burn(a, n) \/ \E s \in Spenders : BurnFrom(s, a, n)
        PROVE  Kept
    <3>1. n > 0 /\ Debit(a, n) /\ ~paused
      BY <2>4, AmountsAre DEF Burn, BurnFrom
    <3> QED
      BY <2>2, <3>1
  <2>5. ASSUME NEW a \in Accounts, NEW b \in Accounts, NEW n \in Amounts,
               Transfer(a, b, n) \/ \E s \in Spenders : TransferFrom(s, a, b, n)
        PROVE  Kept
    <3>1. n > 0 /\ Move(a, b, n) /\ ~paused /\ Unrestricted(a)
      BY <2>5, AmountsAre DEF Transfer, TransferFrom
    <3> QED
      BY <2>3, <3>1
  <2>6. ASSUME NEW o \in Operators, NEW a \in Accounts, NEW b \in Accounts,
               NEW n \in Amounts, ForcedTransfer(o, a, b, n)
        PROVE  Kept
    BY <2>6 DEF ForcedTransfer, RequireAuth
  <2>7. CASE UNCHANGED tokenVars
    <3>1. \A c \in Accounts : ~(balance[c] < balance[c])
      BY <2>0, IMaxAssumption DEF TypeOK, Amount
    <3> QED
      BY <2>7, <3>1 DEF tokenVars
  <2> QED
    BY <1>1, <2>1, <2>4, <2>5, <2>6, <2>7, TokenCases
<1> QED
  BY <1>1, AssetInvInit, AssetInvStep, PTL DEF Spec, RestrictedHolderKeepsTokens

(***************************************************************************)
(* Whoever receives or sends value passes the screening at that step, in   *)
(* every way to be credited.                                               *)
(***************************************************************************)
THEOREM AssetScreensMoved == Spec => MovedValueIsScreened
<1> DEFINE Screened ==
      \A a \in Accounts :
          balance'[a] # balance[a] /\ totalSupply' >= totalSupply => Compliant(a)
<1>1. ASSUME AssetInv, [Next]_vars
      PROVE  Screened
  <2>0. TypeOK
    BY <1>1 DEF AssetInv
  <2>1. ASSUME NEW i \in Issuers, NEW a \in Accounts, NEW n \in Amounts, Mint(i, a, n)
        PROVE  Screened
    BY <2>0, <2>1, MintMoves
  <2>2. ASSUME NEW a \in Accounts, NEW n \in Amounts,
               Burn(a, n) \/ \E s \in Spenders : BurnFrom(s, a, n)
        PROVE  Screened
    <3>1. n > 0 /\ Debit(a, n)
      BY <2>2, AmountsAre DEF Burn, BurnFrom
    <3>2. totalSupply' < totalSupply
      BY <2>0, <3>1, DebitMoves
    <3>3. totalSupply \in Int /\ totalSupply' \in Int
      <4>1. totalSupply \in Int /\ n \in Int
        BY <2>0, InputsAssumption, IMaxAssumption DEF TypeOK, Amount
      <4> QED
        BY <3>1, <4>1 DEF Debit
    <3> QED
      BY <3>2, <3>3
  <2>3. ASSUME NEW a \in Accounts, NEW b \in Accounts, NEW n \in Amounts,
               \/ Transfer(a, b, n)
               \/ \E s \in Spenders : TransferFrom(s, a, b, n)
               \/ \E o \in Operators : ForcedTransfer(o, a, b, n)
        PROVE  Screened
    <3>1. n > 0 /\ Move(a, b, n) /\ Compliant(a) /\ Compliant(b)
      BY <2>3, AmountsAre DEF Transfer, TransferFrom, ForcedTransfer
    <3> QED
      BY <2>0, <3>1, MoveMoves
  <2>4. CASE UNCHANGED tokenVars
    BY <2>4 DEF tokenVars
  <2> QED
    BY <1>1, <2>1, <2>2, <2>3, <2>4, TokenCases
<1> QED
  BY <1>1, AssetInvInit, AssetInvStep, PTL DEF Spec, MovedValueIsScreened

(***************************************************************************)
(* No call adds a holder beyond the limit in force, whatever the limit was *)
(* when the others came.                                                   *)
(***************************************************************************)
THEOREM AssetHolderLimitBinds == Spec => HolderLimitBindsGrowth
<1> DEFINE Bound == holderCount' > holderCount =>
                       holderCap = None \/ holderCount' <= holderCap
<1>1. ASSUME AssetInv, [Next]_vars
      PROVE  Bound
  <2>0. holderCount \in Nat /\ holderCap \in Nat \cup {None}
    BY <1>1 DEF AssetInv, TypeOK
  <2>1. ASSUME NEW filled \in BOOLEAN, NEW emptied \in BOOLEAN, Recount(filled, emptied),
               filled => HolderCapNotExceeded
        PROVE  Bound
    <3>1. CASE filled
      <4>1. holderCount' <= holderCount + 1
        BY <2>0, <2>1, <3>1 DEF Recount
      <4>2. holderCap # None => holderCount < holderCap /\ holderCap \in Nat
        BY <2>0, <2>1, <3>1 DEF HolderCapNotExceeded
      <4>3. holderCount' \in Nat
        BY <2>0, <2>1, <3>1 DEF Recount
      <4> QED
        BY <2>0, <4>1, <4>2, <4>3
    <3>2. CASE ~filled
      BY <2>0, <2>1, <3>2 DEF Recount
    <3> QED
      BY <3>1, <3>2
  <2>2. ASSUME NEW i \in Issuers, NEW a \in Accounts, NEW n \in Amounts, Mint(i, a, n)
        PROVE  Bound
    <3>1. Recount(balance[a] = 0, FALSE) /\ (balance[a] = 0 => HolderCapNotExceeded)
      BY <2>2 DEF Mint
    <3> QED
      BY <2>1, <3>1
  <2>3. ASSUME NEW a \in Accounts, NEW n \in Amounts, Debit(a, n)
        PROVE  Bound
    <3>1. Recount(FALSE, balance[a] = n)
      BY <2>3 DEF Debit
    <3> QED
      BY <2>1, <3>1
  <2>4. CASE UNCHANGED tokenVars
    BY <2>0, <2>4 DEF tokenVars
  <2>5. ASSUME NEW a \in Accounts, NEW b \in Accounts, NEW n \in Amounts, Move(a, b, n)
        PROVE  Bound
    <3>1. CASE UNCHANGED tokenVars
      BY <2>4, <3>1
    <3>2. CASE /\ Recount(balance[b] = 0, balance[a] = n)
               /\ balance[b] = 0 => HolderCapNotExceeded
      BY <2>1, <3>2
    <3> QED
      BY <2>5, <3>1, <3>2 DEF Move
  <2>6. ASSUME NEW a \in Accounts, NEW n \in Amounts,
               Burn(a, n) \/ \E s \in Spenders : BurnFrom(s, a, n)
        PROVE  Debit(a, n)
    BY <2>6 DEF Burn, BurnFrom
  <2>7. ASSUME NEW a \in Accounts, NEW b \in Accounts, NEW n \in Amounts,
               \/ Transfer(a, b, n)
               \/ \E s \in Spenders : TransferFrom(s, a, b, n)
               \/ \E o \in Operators : ForcedTransfer(o, a, b, n)
        PROVE  Move(a, b, n)
    BY <2>7 DEF Transfer, TransferFrom, ForcedTransfer
  <2> QED
    BY <1>1, <2>2, <2>3, <2>4, <2>5, <2>6, <2>7, TokenCases
<1> QED
  BY <1>1, AssetInvInit, AssetInvStep, PTL DEF Spec, HolderLimitBindsGrowth
=============================================================================
