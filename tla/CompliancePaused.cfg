\* Whether the pause stops every change of a record.
CONSTANTS
    alice = alice
    bob = bob
    carol = carol
    us = us
    fr = fr
    usa = usa
    None = None
    Accounts = {alice, bob, carol}
    Codes = {us, fr}
    MaxBatchSize = 2
    MaxTime = 3
    Subjects = {bob, carol}
    RecordInputs <- SomeRecords
    BatchInputs <- SomeBatches
    JurisdictionInputs = {us, usa}
    PauseInputs = {TRUE, FALSE}
    Successors = {alice, bob}
SPECIFICATION Spec
PROPERTY PauseBlocksRecords
