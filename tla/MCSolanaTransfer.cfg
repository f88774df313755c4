\* Three runs of three attempts, on a cluster whose blockhashes expire after two blocks.
CONSTANTS
    maxRetries = 3
    Validity = 2
    Funds = 0
    Airdrop = 2
    MaxHeight = 5
    MaxRuns = 3
    None = None
SPECIFICATION FairSpec
INVARIANTS TypeOK ReportedSignatureMoved
PROPERTIES ReportIsFinal RunEnds
CHECK_DEADLOCK FALSE
