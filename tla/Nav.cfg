\* What the vault reports as its value, from an oracle-adapter and another oracle
\* that may answer anything, over four seconds.
CONSTANTS
    own = own
    ownOther = ownOther
    market = market
    foreign = foreign
    None = None
    AssetIds = {own}
    Others = {ownOther, market, foreign}
    Moments = {0, 1, 2, 3}
    Prices = {85, 120, 265}
    OracleOf <- SomeOracleOf
    Base <- SomeBase
    Decimals <- SomeDecimals
    UnderlyingDecimals = 1
    NavDecimals = 1
    I128Max = 150000
    alice = alice
    bob = bob
    Admin = alice
    Callers = {alice, bob}
    OracleInputs <- SomeOracles
    Answers <- SomeAnswers
    HeldInputs = {0, 1, 7, 10000}
    RateInputs = {1, 3}
SPECIFICATION NavSpec
INVARIANTS
    NavRestsOnFreshPrices
    NavClaimsNoMore
    SourcesHoldEachOther
