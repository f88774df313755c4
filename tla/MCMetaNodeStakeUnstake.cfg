\* A stake deposited after rewards have accrued.
CONSTANTS
    Users = {u1, u2}
    ETH = ETH
    StakeTokens = {}
    MetaNode = MetaNode
    Ether = 1000
    Wallet = 2
    RewardFund = 100
    Amounts = {1, 2}
    PoolWeights = {1}
    MinDeposits = {1}
    LockBlocks = {1}
    Rates = {2}
    StartBlocks = {1}
    EndBlocks = {3}
    MaxPools = 1
    MaxBlock = 4
SPECIFICATION Spec
INVARIANTS StakersCanUnstake
