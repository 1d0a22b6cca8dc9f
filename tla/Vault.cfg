\* Deposits, redemptions, the share token and what is remembered of it, lock-ups,
\* screening and units that move without the vault, over three ledgers.
CONSTANTS
    alice = alice
    bob = bob
    vault = vault
    Accounts = {alice, bob, vault}
    IMax = 2
    MaxLedger = 2
    MaxTime = 7
    Deployers = {alice}
    Configs <- SomeConfigs
    Successors = {bob}
    PauseInputs = {TRUE, FALSE}
    Amounts <- AnyAmount
    Spenders = {bob}
    ApprovalInputs <- SomeApprovals
    Wallets <- OneEach
    CloseTimes = {3}
    Seizers = {bob}
    StandingInputs <- SomeStandings
SPECIFICATION Spec
INVARIANTS
    SharesAreBacked
    RedeemableCanBePaid
    RecordedSharesAddUp
PROPERTIES
    DepositAndRedeemAtPar
    LockHolds
    MovedSharesAreScreened
    ImplementsLedger
    PastBalancesStay
