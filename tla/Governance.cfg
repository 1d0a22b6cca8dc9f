\* Two proposals, their contents, deposits and votes, while the deposit, the quorum,
\* the threshold, the balances that weigh votes and the admin change.
CONSTANTS
    alice = alice
    bob = bob
    carol = carol
    gold = gold
    coin = coin
    A = A
    B = B
    C = C
    None = None
    Accounts = {alice, bob}
    Tokens = {gold}
    LedgerMax = 9
    MinVotingPeriod = 1
    MaxVotingPeriod = 2
    IMax = 35000
    LastLedger = 2
    MaxProposals = 2
    MaxBallots = 2
    Deployers = {alice}
    Successors = {alice}
    Voters = {alice, bob}
    Contents <- TwoContents
    PeriodInputs = {0, 1}
    WeightInputs = {0, 2}
    QuorumInputs <- SomeQuorums
    ThresholdInputs = {0, 6667}
    SourceInputs = {TRUE}
    DepositInputs <- OneDeposit
    PowerInputs <- SomePowers
SPECIFICATION Spec
INVARIANTS
    OpenProposalHoldsItsSlot
    EscrowCoversOpenDeposits
    TalliesAreBallots
PROPERTIES
    ClosedProposalsAreFinal
    PassesOnSupport
