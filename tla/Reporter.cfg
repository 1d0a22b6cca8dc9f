\* Two submissions of appraisals over four seconds, with a lagging node, requests
\* that fail, and others who report to the same feed.
CONSTANTS
    None = None
    Attempts = 2
    MaxTime = 3
    MaxPolls = 2
    TransportFails = TRUE
    Appraisals <- SomeAppraisals
    Prices = {5}
    Limit = 2
SPECIFICATION Spec
INVARIANTS
    AnswersAreTrue
    SuccessMeansRecorded
PROPERTIES
    EveryRunEnds
