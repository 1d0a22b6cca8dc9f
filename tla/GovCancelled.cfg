\* Whether a cancelled proposal is released as a decided one is.
CONSTANTS
    alice = alice
    bob = bob
    carol = carol
    gold = gold
    coin = coin
    A = A
    B = B
    C = C
    None = None
    Accounts = {alice, bob, carol}
    Tokens = {gold, coin}
    LedgerMax = 9
    MinVotingPeriod = 1
    MaxVotingPeriod = 2
    IMax = 3
    LastLedger = 2
    MaxProposals = 2
    MaxBallots = 2
    Deployers = {alice}
    Successors = {}
    Voters = {alice, bob}
    Contents <- OneContent
    PeriodInputs = {1}
    WeightInputs = {1}
    QuorumInputs = {}
    ThresholdInputs = {}
    SourceInputs = {}
    DepositInputs <- OneDeposit
    PowerInputs = {}
SPECIFICATION Spec
INVARIANTS
    CancelReleasesTheProposal
