\* A holder and two wallets that the manager may generate, two mints, supplies up to 2.
CONSTANTS
    Keys = {bob, w1, w2}
    Wallets = {w1, w2}
    Default = Default
    Mints = {m1, m2}
    Amounts = {1, 2}
    U64Max = 2
    None = None
    Damaged = Damaged
SYMMETRY Symmetry
SPECIFICATION Spec
INVARIANTS TypeOK RecordedSupplyExact SavedMintIsOurs
PROPERTIES HandoverMovesRecordOnly
