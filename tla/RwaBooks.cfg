\* Who owns what and how much may exist: minting, burning, the transfers, an
\* allowance, the limit on holders, and the issuance cap and its governance.
CONSTANTS
    alice = alice
    bob = bob
    carol = carol
    doc1 = doc1
    None = None
    Accounts = {alice, bob, carol}
    IMax = 3
    MaxVersion = 3
    MaxLedger = 0
    ValidDocs = {doc1}
    Deployers = {alice}
    Metadatas <- BookMetadata
    Successors = {}
    PauseInputs = {}
    Issuers = {alice}
    Operators = {carol}
    Targets = {}
    LockupInputs = {}
    HolderCapInputs = {1, 2}
    CapInputs = {0, 2, 3}
    GovernanceInputs = {bob}
    ComplianceInputs = {}
    Amounts <- AnyAmount
    Spenders = {bob}
    ApprovalInputs <- OneApproval
    StandingInputs = {}
SPECIFICATION Spec
INVARIANTS
    Conservation
    HolderCountExact
    CapCoversSupply
PROPERTIES
    HolderLimitBindsGrowth
    CapLoosensOnlyWithGovernance
    ImplementsLedger
