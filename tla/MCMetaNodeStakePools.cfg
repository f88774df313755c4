\* Two users, an ETH pool and a pool of the reward token, whose fund is small enough for
\* claims to be paid out of stakes; weights change with and without an update.
CONSTANTS
    Users = {u1, u2}
    ETH = ETH
    StakeTokens = {MetaNode}
    MetaNode = MetaNode
    Ether = 1000
    Wallet = 1
    RewardFund = 1
    Amounts = {1}
    PoolWeights = {0, 2}
    MinDeposits = {0}
    LockBlocks = {0}
    Rates = {2}
    StartBlocks = {0}
    EndBlocks = {4}
    MaxPools = 2
    MaxBlock = 1
SYMMETRY Symmetry
SPECIFICATION Spec
INVARIANTS StakeAccounting BooksBalance
