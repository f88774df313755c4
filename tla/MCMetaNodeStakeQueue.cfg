\* One staker, lock periods of zero and two blocks that the administrator swaps, and an end of the
\* rewards, before the last lock, that the administrator moves.
CONSTANTS
    Users = {u1}
    ETH = ETH
    StakeTokens = {}
    MetaNode = MetaNode
    Ether = 1000
    Wallet = 3
    RewardFund = 100
    Amounts = {1, 2}
    PoolWeights = {1}
    MinDeposits = {1}
    LockBlocks = {0, 2}
    Rates = {1}
    StartBlocks = {1}
    EndBlocks = {2, 3}
    MaxPools = 1
    MaxBlock = 4
SPECIFICATION FairSpec
INVARIANTS UserFundsConserved
PROPERTIES LockRespected QueueDrains
