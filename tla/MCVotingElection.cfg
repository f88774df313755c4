\* One proposal, three voters, three options and a u32 that ends at 2: every shape of a result;
\* blocks go on and somebody keeps calling end_proposal.
CONSTANTS
    Accounts = {a1, a2, a3}
    MaxOptions = 3
    MaxDescriptionLength = 0
    MinVotingPeriod = 1
    MaxVotingPeriod = 1
    U32Max = 2
    MaxBlock = 2
    MaxProposals = 1
    None = None
SPECIFICATION FairSpec
INVARIANTS TallyMatchesVotes WinnerIsPlurality
PROPERTIES EveryProposalCloses
