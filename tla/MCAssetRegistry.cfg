\* Two owners with a quota of two, four symbols, and a u32 that ends at 2: the last id is reused.
CONSTANTS
    a1 = a1
    a2 = a2
    ok_name = ok_name
    s1 = s1
    s2 = s2
    s3 = s3
    s4 = s4
    empty = empty
    long = long
    Accounts <- MCAccounts
    Root = Root
    Names <- MCNames
    Symbols <- MCSymbols
    TextLen <- MCTextLen
    MaxAssetNameLength = 1
    MaxAssetSymbolLength = 1
    MaxAssetDescriptionLength = 0
    MaxAssetMetadataLength = 0
    MaxAssetsPerOwner = 2
    U32Max = 2
    MaxAssets = 3
    None = None
SYMMETRY Symmetry
SPECIFICATION Spec
INVARIANTS TypeOK OwnerIndexAgrees SymbolIndexAgrees CountCoversHoldings
PROPERTIES LifecycleRespected WritesArePaid
