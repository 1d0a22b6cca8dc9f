\* Who may move it: pause, freeze, lock-up, screening, roles and allowances that
\* lapse, with two accounts.
CONSTANTS
    alice = alice
    bob = bob
    carol = carol
    doc1 = doc1
    None = None
    Accounts = {alice, bob}
    IMax = 2
    MaxVersion = 1
    MaxLedger = 2
    ValidDocs = {doc1}
    Deployers = {alice}
    Metadatas <- PlainMetadata
    Successors = {alice}
    PauseInputs = {TRUE, FALSE}
    Issuers = {alice}
    Operators = {bob}
    Targets = {alice}
    LockupInputs = {0, 1}
    HolderCapInputs = {}
    CapInputs = {}
    GovernanceInputs = {}
    ComplianceInputs <- ScreenInputs
    Amounts <- AnyAmount
    Spenders = {bob}
    ApprovalInputs <- SomeApprovals
    StandingInputs <- SomeStandings
SPECIFICATION Spec
PROPERTIES
    BalanceFallsOnlyByConsent
    RestrictedHolderKeepsTokens
    MovedValueIsScreened
