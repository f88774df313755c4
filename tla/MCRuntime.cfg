\* Two extrinsics by three accounts over seven blocks; eras of four blocks or immortal ones, five block hashes.
CONSTANTS
    alice = alice
    bob = bob
    charlie = charlie
    Accounts <- MCAccounts
    Root = Root
    None = None
    U32Max = 2
    Preset = "development"
    Endowment = 8
    ExistentialDeposit = 2
    BlockHashCount = 5
    NormalWeight = 3
    Values = {2}
    Signers = {alice, bob}
    Transfers <- MCTransfers
    ClientPeriods = {0}
    Reset = {alice, bob}
    MaxBlock = 7
    MaxBirth = 1
    MaxSigned = 2
SPECIFICATION FairSpec
INVARIANTS LedgerBalanced EachNonceOncePerLife ReplayOnlyWithinEra BirthBlockIsKnown
PROPERTIES PoolDrains
CHECK_DEADLOCK FALSE
