\* Two accounts, two options, two proposals; ids and counts far from u32's limit.
CONSTANTS
    Accounts = {a1, a2}
    MaxOptions = 2
    MaxDescriptionLength = 0
    MinVotingPeriod = 1
    MaxVotingPeriod = 1
    U32Max = 3
    MaxBlock = 3
    MaxProposals = 2
    None = None
SYMMETRY Symmetry
SPECIFICATION Spec
INVARIANTS TypeOK
PROPERTIES ClosedIsFinal WritesArePaid ImplementsBallot
