\* The directory of up to four assets, registered, changed and walked in pages of
\* two while the admin role is handed over.
CONSTANTS
    alice = alice
    bob = bob
    Accounts = {alice, bob}
    None = None
    Contracts = {gold, land, farm, mine, wood}
    MaxCount = 4
    PageSize = 2
    ClassInputs = {"x"}
    Successors = {bob}
SPECIFICATION Spec
INVARIANTS
    DirectoryIsABijection
    WalkIsExact
PROPERTIES
    WalkReturns
