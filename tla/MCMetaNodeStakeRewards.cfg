\* Two stakers in the ETH pool; the administrator changes the rate, and the fund may run dry.
CONSTANTS
    Users = {u1, u2}
    ETH = ETH
    StakeTokens = {}
    MetaNode = MetaNode
    Ether = 1000
    Wallet = 2
    RewardFund = 8
    Amounts = {0, 1}
    PoolWeights = {1}
    MinDeposits = {0}
    LockBlocks = {0}
    Rates = {2, 5}
    StartBlocks = {0}
    EndBlocks = {2}
    MaxPools = 1
    MaxBlock = 2
SYMMETRY Symmetry
SPECIFICATION Spec
INVARIANTS TypeOK PaidWithinAccrued
PROPERTIES ViewPredictsClaim PendingPaidOrReplaced
