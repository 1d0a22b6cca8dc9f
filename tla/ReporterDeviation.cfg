\* Whether a deviation beyond the feed's limit stops the pre-flight.
CONSTANTS
    None = None
    Attempts = 1
    MaxTime = 3
    MaxPolls = 1
    TransportFails = FALSE
    Appraisals <- SomeAppraisals
    Prices = {5}
    Limit = 2
SPECIFICATION Spec
PROPERTY PreflightRefusesDeviation
