\* A feed of three assets, two of which may be listed and one priced: reports in
\* and out of order, overrides, limits that change and reporters that come and go,
\* over five seconds in ticks of two.
CONSTANTS
    alice = alice
    bob = bob
    gold = gold
    land = land
    farm = farm
    Accounts = {alice, bob}
    None = None
    AssetIds = {gold, land, farm}
    Resolution = 2
    MaxAssets = 2
    MaxRecords = 2
    IMax = 1200000
    MaxTime = 4
    Priced = {gold}
    PriceInputs = {0, 100, 111}
    TimeInputs = {0, 1, 3, 4}
    LimitInputs = {0, 1000, 20000}
    Reporters = {bob}
    Successors = {bob}
    PauseInputs = {TRUE, FALSE}
SPECIFICATION Spec
INVARIANTS
    HistoryIsLinked
    PricesAreNewestFirst
PROPERTIES
    OnlyAdminMovesBeyondLimit
    ImplementsFeed
