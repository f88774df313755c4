-------------------------- MODULE AssetRegistry_proof --------------------------
(* Machine-checked proofs about the asset registry, for every set of accounts, *)
(* names and symbols, every configuration and every value of the bounds.       *)
EXTENDS AssetRegistry, FiniteSetTheorems, TLAPS

-----------------------------------------------------------------------------
(* Facts about the operators. *)

\* The ids of a u32 are finitely many, and so is every owner's list.
LEMMA HoldingsFinite ==
    ASSUME NEW S \in SUBSET Ids
    PROVE  IsFiniteSet(S) /\ Cardinality(S) \in Nat
  <1>1. IsFiniteSet(Ids)
    BY FS_Interval, RegistryAssumption DEF Ids
  <1>2. IsFiniteSet(S)
    BY <1>1, FS_Subset
  <1>3. QED
    BY <1>2, FS_CardinalityType

\* Filing an id under an owner adds at most one to the owner's holdings.
LEMMA InsertBounds ==
    ASSUME NEW S \in SUBSET Ids, NEW id \in Ids
    PROVE  Cardinality(S \cup {id}) <= Cardinality(S) + 1
  <1>1. IsFiniteSet(S) /\ Cardinality(S) \in Nat
    BY HoldingsFinite
  <1>2. Cardinality(S \cup {id}) = IF id \in S THEN Cardinality(S) ELSE Cardinality(S) + 1
    BY <1>1, FS_AddElement
  <1>3. QED
    BY <1>1, <1>2

\* Removing an id that is filed under an owner takes exactly one away.
LEMMA RemoveExact ==
    ASSUME NEW S \in SUBSET Ids, NEW id \in S
    PROVE  Cardinality(S \ {id}) = Cardinality(S) - 1
  BY HoldingsFinite, FS_RemoveElement

\* A registration that passes its checks is signed and has a free symbol.
LEMMA AcceptedRegistration ==
    ASSUME NEW who \in Origins, NEW r \in Registration, RegisterError(who, r) = Ok
    PROVE  /\ who \in Accounts
           /\ r.name \in Names /\ r.symbol \in Symbols
           /\ r.metadata \in 0 .. MaxAssetMetadataLength
           /\ AssetBySymbol[r.symbol] = None
           /\ ~(AssetCountByOwner[who] >= MaxAssetsPerOwner)
  <1>1. /\ r.name \in Names /\ r.symbol \in Symbols
        /\ r.metadata \in 0 .. MaxAssetMetadataLength + 1
    BY DEF Registration
  <1>2. /\ who \in Accounts
        /\ ~(r.metadata > MaxAssetMetadataLength)
        /\ AssetBySymbol[r.symbol] = None
        /\ ~(AssetCountByOwner[who] >= MaxAssetsPerOwner)
    BY DEF RegisterError, Ok
  <1>3. QED
    BY <1>1, <1>2, RegistryAssumption

-----------------------------------------------------------------------------
(* The invariant. *)

IndexInv == NextIdIsFresh /\ OwnerIndexAgrees /\ SymbolIndexAgrees /\ CountCoversHoldings

\* The inductive invariant.  Fresh ids keep a registration from colliding
\* with an index entry; the owner index says that a transferred id really is
\* in its owner's list, which is why decrementing the count is safe.
Inv == TypeOK /\ IndexInv

\* The genesis storage satisfies the invariant.
LEMMA InitInv == Init => Inv
  <1> SUFFICES ASSUME Init PROVE Inv
    OBVIOUS
  <1>1. TypeOK
    BY RegistryAssumption DEF Init, TypeOK, Ids, Deposit
  <1>2. NextIdIsFresh
    BY RegistryAssumption DEF Init, NextIdIsFresh, Ids
  <1>3. OwnerIndexAgrees
    BY DEF Init, OwnerIndexAgrees
  <1>4. SymbolIndexAgrees
    BY RegistryAssumption DEF Init, SymbolIndexAgrees, Ids
  <1>5. CountCoversHoldings
    <2>1. Cardinality({}) = 0
      BY FS_EmptySet
    <2>2. QED
      BY <2>1, RegistryAssumption DEF Init, CountCoversHoldings
  <1>6. QED
    BY <1>1, <1>2, <1>3, <1>4, <1>5 DEF Inv, IndexInv

\* A refused call preserves the invariant.
LEMMA RefuseInv ==
    ASSUME Inv, NEW e \in Errors \cup {Ok}, Refuse(e)
    PROVE  Inv'
  <1>1. TypeOK'
    BY DEF Inv, TypeOK, Refuse, storage, Deposit
  <1>2. IndexInv'
    BY DEF Inv, IndexInv, Refuse, storage, NextIdIsFresh, OwnerIndexAgrees,
           SymbolIndexAgrees, CountCoversHoldings
  <1>3. QED
    BY <1>1, <1>2 DEF Inv

\* A call that rewrites a record but neither its owner nor its symbol, and
\* touches no index, preserves the invariant: the three reviews and the
\* metadata update.
LEMMA RecordUpdateInv ==
    ASSUME Inv, NEW id \in Ids, Assets[id] # None,
           NEW info \in AssetInfo,
           info.owner = Assets[id].owner, info.symbol = Assets[id].symbol,
           Assets' = [Assets EXCEPT ![id] = info],
           UNCHANGED indexes,
           outcome' \in [result: Events \cup Errors \cup {Ok}, who: Accounts \cup {None}]
    PROVE  Inv'
  <1>1. TypeOK'
    BY DEF Inv, TypeOK, indexes
  <1>2. \A k \in Ids : Assets'[k] = IF k = id THEN info ELSE Assets[k]
    BY DEF Inv, TypeOK
  <1>3. info # None
    BY NoneIsNoAsset
  <1>4. NextIdIsFresh'
    BY <1>2 DEF Inv, IndexInv, NextIdIsFresh, indexes
  <1>5. OwnerIndexAgrees'
    BY <1>2, <1>3 DEF Inv, IndexInv, OwnerIndexAgrees, indexes
  <1>6. SymbolIndexAgrees'
    BY <1>2, <1>3 DEF Inv, IndexInv, SymbolIndexAgrees, indexes
  <1>7. CountCoversHoldings'
    BY DEF Inv, IndexInv, CountCoversHoldings, indexes
  <1>8. QED
    BY <1>1, <1>4, <1>5, <1>6, <1>7 DEF Inv, IndexInv

\* An accepted review preserves the invariant.
LEMMA ReviewInv ==
    ASSUME Inv, NEW who \in Accounts, NEW id \in Ids, Assets[id] # None,
           NEW status \in AssetStatus, NEW event \in Events,
           AcceptReview(who, id, status, event)
    PROVE  Inv'
  <1> DEFINE info == [Assets[id] EXCEPT !.status = status]
  <1>1. Assets[id] \in AssetInfo
    BY DEF Inv, TypeOK
  <1>2. /\ info \in AssetInfo
        /\ info.owner = Assets[id].owner /\ info.symbol = Assets[id].symbol
    BY <1>1 DEF AssetInfo
  <1>3. Assets' = [Assets EXCEPT ![id] = info]
    BY DEF AcceptReview, Inv, TypeOK
  <1>4. outcome' \in [result: Events \cup Errors \cup {Ok}, who: Accounts \cup {None}]
    BY DEF AcceptReview, Deposit
  <1>5. UNCHANGED indexes
    BY DEF AcceptReview
  <1> HIDE DEF info
  <1>6. QED
    BY <1>2, <1>3, <1>4, <1>5, RecordUpdateInv

\* approve_asset, reject_asset and suspend_asset preserve the invariant.
LEMMA ReviewsInv ==
    ASSUME Inv, NEW who \in Origins, NEW id \in Ids,
           approve_asset(who, id) \/ reject_asset(who, id) \/ suspend_asset(who, id)
    PROVE  Inv'
  <1> DEFINE pending == ReviewError(who, id, "Pending", "AssetNotPending")
             approved == ReviewError(who, id, "Approved", "AssetNotApproved")
  <1>1. pending \in Errors \cup {Ok} /\ approved \in Errors \cup {Ok}
    BY DEF ReviewError, Errors, Ok
  <1>2. pending = Ok \/ approved = Ok => who \in Accounts /\ Assets[id] # None
    BY DEF ReviewError, Ok
  <1>3. CASE Refuse(pending) \/ Refuse(approved)
    BY <1>1, <1>3, RefuseInv
  <1>4. CASE pending = Ok /\ AcceptReview(who, id, "Approved", "AssetApproved")
    BY <1>2, <1>4, ReviewInv DEF AssetStatus, Events
  <1>5. CASE pending = Ok /\ AcceptReview(who, id, "Rejected", "AssetRejected")
    BY <1>2, <1>5, ReviewInv DEF AssetStatus, Events
  <1>6. CASE approved = Ok /\ AcceptReview(who, id, "Suspended", "AssetSuspended")
    BY <1>2, <1>6, ReviewInv DEF AssetStatus, Events
  <1>7. QED
    BY <1>3, <1>4, <1>5, <1>6 DEF approve_asset, reject_asset, suspend_asset

\* update_asset_metadata preserves the invariant.
LEMMA UpdateInv ==
    ASSUME Inv, NEW who \in Origins, NEW id \in Ids,
           NEW metadata \in 0 .. MaxAssetMetadataLength + 1,
           update_asset_metadata(who, id, metadata)
    PROVE  Inv'
  <1>1. CASE Refuse(UpdateError(who, id, metadata))
    <2>1. UpdateError(who, id, metadata) \in Errors \cup {Ok}
      BY DEF UpdateError, Errors, Ok
    <2>2. QED
      BY <1>1, <2>1, RefuseInv
  <1>2. CASE Accept_update_asset_metadata(who, id, metadata)
    <2> DEFINE info == [Assets[id] EXCEPT !.metadata = metadata]
    <2>1. /\ who \in Accounts /\ Assets[id] # None
          /\ metadata \in 0 .. MaxAssetMetadataLength
      BY <1>2, RegistryAssumption DEF Accept_update_asset_metadata, UpdateError, Ok
    <2>2. Assets[id] \in AssetInfo
      BY <2>1 DEF Inv, TypeOK
    <2>3. /\ info \in AssetInfo
          /\ info.owner = Assets[id].owner /\ info.symbol = Assets[id].symbol
      BY <2>1, <2>2 DEF AssetInfo
    <2>4. Assets' = [Assets EXCEPT ![id] = info]
      BY <1>2 DEF Accept_update_asset_metadata, Inv, TypeOK
    <2>5. outcome' \in [result: Events \cup Errors \cup {Ok}, who: Accounts \cup {None}]
      BY <1>2, <2>1 DEF Accept_update_asset_metadata, Deposit, Events
    <2>6. UNCHANGED indexes
      BY <1>2 DEF Accept_update_asset_metadata
    <2> HIDE DEF info
    <2>7. QED
      BY <2>1, <2>3, <2>4, <2>5, <2>6, RecordUpdateInv
  <1>3. QED
    BY <1>1, <1>2 DEF update_asset_metadata

\* register_asset preserves the invariant.
LEMMA RegisterInv ==
    ASSUME Inv, NEW who \in Origins, NEW r \in Registration, register_asset(who, r)
    PROVE  Inv'
  <1>1. CASE Refuse(RegisterError(who, r))
    <2>1. RegisterError(who, r) \in Errors \cup {Ok}
      BY DEF RegisterError, Errors, Ok
    <2>2. QED
      BY <1>1, <2>1, RefuseInv
  <1>2. CASE Accept_register_asset(who, r)
    <2> DEFINE info == [owner |-> who, name |-> r.name, symbol |-> r.symbol,
                        status |-> "Pending", metadata |-> r.metadata]
               n == NextAssetId
    <2>1. /\ who \in Accounts
          /\ r.name \in Names /\ r.symbol \in Symbols
          /\ r.metadata \in 0 .. MaxAssetMetadataLength
          /\ AssetBySymbol[r.symbol] = None
          /\ ~(AssetCountByOwner[who] >= MaxAssetsPerOwner)
      BY <1>2, AcceptedRegistration DEF Accept_register_asset
    <2>2. info \in AssetInfo /\ info # None
      <3>1. info \in AssetInfo
        BY <2>1 DEF AssetInfo, AssetStatus
      <3>2. QED
        BY <3>1, NoneIsNoAsset
    <2>3. n \in Ids /\ SaturatingAdd(n, 1, U32Max) \in Ids
      BY RegistryAssumption DEF Inv, TypeOK, Ids, SaturatingAdd
    <2>4. /\ AssetCountByOwner[who] \in 0 .. U32Max
          /\ SaturatingAdd(AssetCountByOwner[who], 1, U32Max) = AssetCountByOwner[who] + 1
          /\ AssetCountByOwner[who] + 1 <= MaxAssetsPerOwner
          /\ AssetCountByOwner[who] + 1 \in 0 .. U32Max
      BY <2>1, RegistryAssumption DEF Inv, TypeOK, SaturatingAdd
    <2>5. /\ Assets' = [Assets EXCEPT ![n] = info]
          /\ AssetsByOwner' = [AssetsByOwner EXCEPT ![who] = @ \cup {n}]
          /\ AssetCountByOwner' = [AssetCountByOwner EXCEPT ![who] = @ + 1]
          /\ AssetBySymbol' = [AssetBySymbol EXCEPT ![r.symbol] = n]
          /\ NextAssetId' = SaturatingAdd(n, 1, U32Max)
          /\ outcome' = Deposit("AssetRegistered", who)
      BY <1>2, <2>4 DEF Accept_register_asset, Inv, TypeOK
    <2>6. TypeOK'
      BY <2>1, <2>2, <2>3, <2>4, <2>5 DEF Inv, TypeOK, Deposit, Events
    <2> HIDE DEF info, n
    <2>7. /\ \A k \in Ids : Assets'[k] = IF k = n THEN info ELSE Assets[k]
          /\ \A a \in Accounts : AssetsByOwner'[a] =
                IF a = who THEN AssetsByOwner[a] \cup {n} ELSE AssetsByOwner[a]
          /\ \A a \in Accounts : AssetCountByOwner'[a] =
                IF a = who THEN AssetCountByOwner[a] + 1 ELSE AssetCountByOwner[a]
          /\ \A s \in Symbols : AssetBySymbol'[s] =
                IF s = r.symbol THEN n ELSE AssetBySymbol[s]
      BY <2>5 DEF Inv, TypeOK
    <2>8. /\ info.owner = who /\ info.symbol = r.symbol
          /\ \A k \in Ids, a \in Accounts : k \in AssetsByOwner'[a] <=>
                k \in AssetsByOwner[a] \/ (a = who /\ k = n)
      <3>1. info.owner = who /\ info.symbol = r.symbol
        BY DEF info
      <3>2. ASSUME NEW k \in Ids, NEW a \in Accounts
            PROVE  k \in AssetsByOwner'[a] <=> k \in AssetsByOwner[a] \/ (a = who /\ k = n)
        <4>1. CASE a = who
          BY <2>7, <4>1, ZenonT(40)
        <4>2. CASE a # who
          BY <2>7, <4>2
        <4>3. QED
          BY <4>1, <4>2
      <3>3. QED
        BY <3>1, <3>2
    <2>9. n < U32Max => /\ Assets[n] = None
                        /\ \A a \in Accounts : n \notin AssetsByOwner[a]
                        /\ \A s \in Symbols : AssetBySymbol[s] # n
      BY <2>3 DEF Inv, IndexInv, NextIdIsFresh, n, Ids
    <2>10. NextIdIsFresh'
      <3> SUFFICES ASSUME NEW k \in Ids, k >= NextAssetId', k < U32Max
                   PROVE  /\ Assets'[k] = None
                          /\ \A a \in Accounts : k \notin AssetsByOwner'[a]
                          /\ \A s \in Symbols : AssetBySymbol'[s] # k
        BY DEF NextIdIsFresh
      <3>1. k # n /\ k >= NextAssetId
        BY <2>3, <2>5, RegistryAssumption DEF n, SaturatingAdd, Ids
      <3>2. /\ Assets[k] = None
            /\ \A a \in Accounts : k \notin AssetsByOwner[a]
            /\ \A s \in Symbols : AssetBySymbol[s] # k
        BY <3>1 DEF Inv, IndexInv, NextIdIsFresh
      <3>3. QED
        BY <2>1, <2>7, <2>8, <3>1, <3>2
    <2>11. OwnerIndexAgrees'
      <3> SUFFICES ASSUME NEW k \in Ids
                   PROVE  /\ Assets'[k] # None => k \in AssetsByOwner'[Assets'[k].owner]
                          /\ \A a \in Accounts : k < U32Max /\ k \in AssetsByOwner'[a] =>
                                Assets'[k] # None /\ Assets'[k].owner = a
        BY DEF OwnerIndexAgrees
      <3>1. CASE k = n
        BY <2>1, <2>2, <2>7, <2>8, <2>9, <3>1
      <3>2. CASE k # n
        <4>1. Assets[k] # None => Assets[k].owner \in Accounts
          BY DEF Inv, TypeOK, AssetInfo
        <4>2. /\ Assets[k] # None => k \in AssetsByOwner[Assets[k].owner]
              /\ \A a \in Accounts : k < U32Max /\ k \in AssetsByOwner[a] =>
                    Assets[k] # None /\ Assets[k].owner = a
          BY DEF Inv, IndexInv, OwnerIndexAgrees
        <4>3. QED
          BY <2>7, <2>8, <3>2, <4>1, <4>2
      <3>3. QED
        BY <3>1, <3>2
    <2>12. SymbolIndexAgrees'
      <3> SUFFICES ASSUME NEW k \in Ids, k < U32Max
                   PROVE  /\ Assets'[k] # None => AssetBySymbol'[Assets'[k].symbol] = k
                          /\ \A s \in Symbols : AssetBySymbol'[s] = k =>
                                Assets'[k] # None /\ Assets'[k].symbol = s
        BY DEF SymbolIndexAgrees
      <3>1. CASE k = n
        BY <2>1, <2>2, <2>7, <2>8, <2>9, <3>1
      <3>2. CASE k # n
        <4>1. Assets[k] # None => Assets[k].symbol \in Symbols
          BY DEF Inv, TypeOK, AssetInfo
        <4>2. /\ Assets[k] # None => AssetBySymbol[Assets[k].symbol] = k
              /\ \A s \in Symbols : AssetBySymbol[s] = k =>
                    Assets[k] # None /\ Assets[k].symbol = s
          BY DEF Inv, IndexInv, SymbolIndexAgrees
        <4>3. k # None
          BY RegistryAssumption DEF Ids
        <4>4. QED
          BY <2>1, <2>7, <3>2, <4>1, <4>2, <4>3
      <3>3. QED
        BY <3>1, <3>2
    <2>13. CountCoversHoldings'
      <3> SUFFICES ASSUME NEW a \in Accounts
                   PROVE  /\ Cardinality(AssetsByOwner'[a]) <= AssetCountByOwner'[a]
                          /\ AssetCountByOwner'[a] <= MaxAssetsPerOwner
        BY DEF CountCoversHoldings
      <3>1. /\ Cardinality(AssetsByOwner[a]) <= AssetCountByOwner[a]
            /\ AssetCountByOwner[a] <= MaxAssetsPerOwner
        BY DEF Inv, IndexInv, CountCoversHoldings
      <3>2. AssetsByOwner[a] \in SUBSET Ids
        BY DEF Inv, TypeOK
      <3>3. /\ Cardinality(AssetsByOwner[a]) \in Nat
            /\ Cardinality(AssetsByOwner[a] \cup {n}) <= Cardinality(AssetsByOwner[a]) + 1
            /\ Cardinality(AssetsByOwner[a] \cup {n}) \in Nat
        <4>1. n \in Ids /\ AssetsByOwner[a] \cup {n} \in SUBSET Ids
          BY <2>3, <3>2 DEF n
        <4>2. QED
          BY <3>2, <4>1, HoldingsFinite, InsertBounds
      <3>4. CASE a = who
        BY <2>4, <2>7, <3>1, <3>3, <3>4, RegistryAssumption
      <3>5. CASE a # who
        BY <2>7, <3>1, <3>5
      <3>6. QED
        BY <3>4, <3>5
    <2>14. QED
      BY <2>6, <2>10, <2>11, <2>12, <2>13 DEF Inv, IndexInv
  <1>3. QED
    BY <1>1, <1>2 DEF register_asset

\* transfer_ownership preserves the invariant, a transfer to oneself
\* included: there the count grows by one and the holdings stay.
LEMMA TransferInv ==
    ASSUME Inv, NEW who \in Origins, NEW id \in Ids, NEW to \in Accounts,
           transfer_ownership(who, id, to)
    PROVE  Inv'
  <1>1. CASE Refuse(TransferError(who, id, to))
    <2>1. TransferError(who, id, to) \in Errors \cup {Ok}
      BY DEF TransferError, Errors, Ok
    <2>2. QED
      BY <1>1, <2>1, RefuseInv
  <1>2. CASE Accept_transfer_ownership(who, id, to)
    <2> DEFINE info == [Assets[id] EXCEPT !.owner = to]
    <2>1. /\ who \in Accounts /\ Assets[id] # None /\ Assets[id].owner = who
          /\ ~(AssetCountByOwner[to] >= MaxAssetsPerOwner)
      BY <1>2 DEF Accept_transfer_ownership, TransferError, Ok
    <2>2. Assets[id] \in AssetInfo
      BY <2>1 DEF Inv, TypeOK
    <2>3. info \in AssetInfo /\ info.owner = to /\ info.symbol = Assets[id].symbol
      BY <2>2 DEF AssetInfo
    <2>4. info # None
      BY <2>3, NoneIsNoAsset
    <2>5. Assets' = [Assets EXCEPT ![id] = info]
      BY <1>2 DEF Accept_transfer_ownership, Inv, TypeOK
    <2> HIDE DEF info
    <2>6. \A k \in Ids : Assets'[k] = IF k = id THEN info ELSE Assets[k]
      BY <2>5 DEF Inv, TypeOK
    <2>7. /\ \A a \in Accounts : AssetCountByOwner[a] \in 0 .. U32Max
          /\ SaturatingAdd(AssetCountByOwner[to], 1, U32Max) = AssetCountByOwner[to] + 1
          /\ AssetCountByOwner[to] + 1 <= MaxAssetsPerOwner
          /\ AssetCountByOwner[to] + 1 \in 0 .. U32Max
          /\ SaturatingSub(AssetCountByOwner[who], 1) \in 0 .. U32Max
      BY <2>1, RegistryAssumption DEF Inv, TypeOK, SaturatingAdd, SaturatingSub
    <2>8. /\ AssetsByOwner' = [AssetsByOwner EXCEPT ![who] = @ \ {id}, ![to] = @ \cup {id}]
          /\ AssetCountByOwner' = [AssetCountByOwner EXCEPT
                 ![who] = SaturatingSub(@, 1), ![to] = AssetCountByOwner[to] + 1]
          /\ UNCHANGED <<AssetBySymbol, NextAssetId>>
          /\ outcome' = Deposit("AssetOwnershipTransferred", who)
      BY <1>2, <2>1, <2>7 DEF Accept_transfer_ownership
    <2>9. TypeOK'
      <3>1. AssetsByOwner' \in [Accounts -> SUBSET Ids]
        BY <2>1, <2>8 DEF Inv, TypeOK
      <3>2. AssetCountByOwner' \in [Accounts -> 0 .. U32Max]
        BY <2>1, <2>7, <2>8 DEF Inv, TypeOK
      <3>3. QED
        BY <2>1, <2>3, <2>5, <2>8, <3>1, <3>2 DEF Inv, TypeOK, Deposit, Events
    <2>10. \A a \in Accounts :
             /\ a = to => AssetsByOwner'[a] = AssetsByOwner[a] \cup {id}
             /\ a # to /\ a = who => AssetsByOwner'[a] = AssetsByOwner[a] \ {id}
             /\ a # to /\ a # who => AssetsByOwner'[a] = AssetsByOwner[a]
      BY <2>1, <2>8 DEF Inv, TypeOK
    <2>11. \A a \in Accounts : AssetCountByOwner'[a] =
             IF a = to THEN AssetCountByOwner[a] + 1
             ELSE IF a = who THEN SaturatingSub(AssetCountByOwner[a], 1)
             ELSE AssetCountByOwner[a]
      BY <2>1, <2>8 DEF Inv, TypeOK
    <2>12. id \in AssetsByOwner[who]
      BY <2>1 DEF Inv, IndexInv, OwnerIndexAgrees
    <2>13. \A k \in Ids, a \in Accounts : k \in AssetsByOwner'[a] <=>
             IF k = id /\ a = to THEN TRUE
             ELSE IF k = id /\ a = who THEN FALSE
             ELSE k \in AssetsByOwner[a]
      <3> SUFFICES ASSUME NEW k \in Ids, NEW a \in Accounts
                   PROVE  k \in AssetsByOwner'[a] <=>
                            IF k = id /\ a = to THEN TRUE
                            ELSE IF k = id /\ a = who THEN FALSE
                            ELSE k \in AssetsByOwner[a]
        OBVIOUS
      <3>1. CASE a = to
        BY <2>10, <3>1
      <3>2. CASE a # to /\ a = who
        BY <2>10, <3>2
      <3>3. CASE a # to /\ a # who
        BY <2>10, <3>3
      <3>4. QED
        BY <3>1, <3>2, <3>3
    <2>14. NextIdIsFresh'
      <3> SUFFICES ASSUME NEW k \in Ids, k >= NextAssetId, k < U32Max
                   PROVE  /\ Assets'[k] = None
                          /\ \A a \in Accounts : k \notin AssetsByOwner'[a]
                          /\ \A s \in Symbols : AssetBySymbol[s] # k
        BY <2>8 DEF NextIdIsFresh
      <3>1. /\ Assets[k] = None
            /\ \A a \in Accounts : k \notin AssetsByOwner[a]
            /\ \A s \in Symbols : AssetBySymbol[s] # k
        BY DEF Inv, IndexInv, NextIdIsFresh
      <3>2. k # id
        BY <2>1, <3>1
      <3>3. QED
        BY <2>6, <2>13, <3>1, <3>2
    <2>15. OwnerIndexAgrees'
      <3> SUFFICES ASSUME NEW k \in Ids
                   PROVE  /\ Assets'[k] # None => k \in AssetsByOwner'[Assets'[k].owner]
                          /\ \A a \in Accounts : k < U32Max /\ k \in AssetsByOwner'[a] =>
                                Assets'[k] # None /\ Assets'[k].owner = a
        BY DEF OwnerIndexAgrees
      <3>1. /\ Assets[k] # None => k \in AssetsByOwner[Assets[k].owner]
            /\ \A a \in Accounts : k < U32Max /\ k \in AssetsByOwner[a] =>
                  Assets[k] # None /\ Assets[k].owner = a
        BY DEF Inv, IndexInv, OwnerIndexAgrees
      <3>2. CASE k = id
        BY <2>1, <2>3, <2>4, <2>6, <2>13, <3>1, <3>2
      <3>3. CASE k # id
        <4>1. Assets[k] # None => Assets[k].owner \in Accounts
          BY DEF Inv, TypeOK, AssetInfo
        <4>2. QED
          BY <2>6, <2>13, <3>1, <3>3, <4>1
      <3>4. QED
        BY <3>2, <3>3
    <2>16. SymbolIndexAgrees'
      BY <2>1, <2>3, <2>4, <2>6, <2>8 DEF Inv, IndexInv, SymbolIndexAgrees
    <2>17. CountCoversHoldings'
      <3> SUFFICES ASSUME NEW a \in Accounts
                   PROVE  /\ Cardinality(AssetsByOwner'[a]) <= AssetCountByOwner'[a]
                          /\ AssetCountByOwner'[a] <= MaxAssetsPerOwner
        BY DEF CountCoversHoldings
      <3>1. /\ Cardinality(AssetsByOwner[a]) <= AssetCountByOwner[a]
            /\ AssetCountByOwner[a] <= MaxAssetsPerOwner
        BY DEF Inv, IndexInv, CountCoversHoldings
      <3>2. /\ AssetsByOwner[a] \in SUBSET Ids
            /\ Cardinality(AssetsByOwner[a]) \in Nat
            /\ AssetCountByOwner[a] \in 0 .. U32Max
        BY HoldingsFinite DEF Inv, TypeOK
      <3>3. CASE a = to
        <4>1. AssetsByOwner[a] \cup {id} \in SUBSET Ids
          BY <3>2
        <4>2. /\ Cardinality(AssetsByOwner[a] \cup {id}) \in Nat
              /\ Cardinality(AssetsByOwner[a] \cup {id}) <= Cardinality(AssetsByOwner[a]) + 1
          BY <3>2, <4>1, HoldingsFinite, InsertBounds
        <4>3. AssetsByOwner'[a] = AssetsByOwner[a] \cup {id}
          BY <2>10, <3>3
        <4>4. AssetCountByOwner'[a] = AssetCountByOwner[a] + 1
          BY <2>11, <3>3
        <4>5. QED
          BY <2>7, <3>1, <3>2, <3>3, <4>2, <4>3, <4>4, RegistryAssumption
      <3>4. CASE a # to /\ a = who
        <4>1. AssetsByOwner'[a] = AssetsByOwner[a] \ {id}
          BY <2>10, <3>4
        <4>2. Cardinality(AssetsByOwner[a] \ {id}) = Cardinality(AssetsByOwner[a]) - 1
          BY <2>12, <3>2, <3>4, RemoveExact
        <4>3. AssetCountByOwner'[a] = SaturatingSub(AssetCountByOwner[a], 1)
          BY <2>11, <3>4
        <4>4. QED
          BY <3>1, <3>2, <4>1, <4>2, <4>3, RegistryAssumption DEF SaturatingSub
      <3>5. CASE a # to /\ a # who
        <4>1. AssetsByOwner'[a] = AssetsByOwner[a] /\ AssetCountByOwner'[a] = AssetCountByOwner[a]
          BY <2>10, <2>11, <3>5
        <4>2. QED
          BY <3>1, <4>1
      <3>6. QED
        BY <3>3, <3>4, <3>5
    <2>18. QED
      BY <2>9, <2>14, <2>15, <2>16, <2>17 DEF Inv, IndexInv
  <1>3. QED
    BY <1>1, <1>2 DEF transfer_ownership

\* Every step of the registry preserves the invariant.
LEMMA NextInv == Inv /\ [Next]_vars => Inv'
  <1> SUFFICES ASSUME Inv, [Next]_vars PROVE Inv'
    OBVIOUS
  <1>1. CASE UNCHANGED vars
    <2>1. TypeOK'
      BY <1>1 DEF Inv, TypeOK, vars
    <2>2. IndexInv'
      BY <1>1 DEF Inv, IndexInv, vars, NextIdIsFresh, OwnerIndexAgrees,
                  SymbolIndexAgrees, CountCoversHoldings
    <2>3. QED
      BY <2>1, <2>2 DEF Inv
  <1>2. CASE \E who \in Origins, r \in Registration : register_asset(who, r)
    BY <1>2, RegisterInv
  <1>3. CASE \E who \in Origins, id \in Ids :
               approve_asset(who, id) \/ reject_asset(who, id) \/ suspend_asset(who, id)
    BY <1>3, ReviewsInv
  <1>4. CASE \E who \in Origins, id \in Ids, metadata \in 0 .. MaxAssetMetadataLength + 1 :
               update_asset_metadata(who, id, metadata)
    BY <1>4, UpdateInv
  <1>5. CASE \E who \in Origins, id \in Ids, new_owner \in Accounts :
               transfer_ownership(who, id, new_owner)
    BY <1>5, TransferInv
  <1>6. QED
    BY <1>1, <1>2, <1>3, <1>4, <1>5 DEF Next

\* The invariant holds in every reachable state.
LEMMA Invariance == Spec => []Inv
  BY InitInv, NextInv, PTL DEF Spec

-----------------------------------------------------------------------------
(* The theorems. *)

\* Type correctness of the registry's storage.
THEOREM TypeCorrect == Spec => []TypeOK
  <1>1. Inv => TypeOK
    BY DEF Inv
  <1>2. QED
    BY <1>1, Invariance, PTL

\* The owner index and the asset records agree after any sequence of calls.
THEOREM OwnerIndexCorrect == Spec => []OwnerIndexAgrees
  <1>1. Inv => OwnerIndexAgrees
    BY DEF Inv, IndexInv
  <1>2. QED
    BY <1>1, Invariance, PTL

\* The symbol index and the asset records agree, so symbols are unique.
THEOREM SymbolIndexCorrect == Spec => []SymbolIndexAgrees
  <1>1. Inv => SymbolIndexAgrees
    BY DEF Inv, IndexInv
  <1>2. QED
    BY <1>1, Invariance, PTL

\* The quota bounds what every owner holds, although the count it is checked
\* against may overstate the holdings.
THEOREM QuotaCorrect == Spec => []CountCoversHoldings
  <1>1. Inv => CountCoversHoldings
    BY DEF Inv, IndexInv
  <1>2. QED
    BY <1>1, Invariance, PTL

-----------------------------------------------------------------------------
(* The life of an asset. *)

\* What may happen to the record of an asset in one step.
MovesOn(old, new) ==
    /\ new # None
    /\ new.status # old.status =>
         <<old.status, new.status>> \in {<<"Pending", "Approved">>, <<"Pending", "Rejected">>,
                                         <<"Approved", "Suspended">>}

\* A call that writes one record, and that one rightly, respects the lives of all.
LEMMA OneRecordMoves ==
    ASSUME Inv, NEW id \in Ids, NEW info, MovesOn(Assets[id], info),
           Assets' = [Assets EXCEPT ![id] = info],
           NEW k \in Ids, Assets[k] # None
    PROVE  MovesOn(Assets[k], Assets'[k])
  <1>1. CASE k = id
    <2>1. Assets'[k] = info
      BY <1>1 DEF Inv, TypeOK
    <2> QED BY <1>1, <2>1
  <1>2. CASE k # id
    <2>1. Assets'[k] = Assets[k]
      BY <1>2 DEF Inv, TypeOK
    <2> QED BY <2>1 DEF MovesOn
  <1> QED BY <1>1, <1>2

\* An accepted review moves the status along one of the three edges.
LEMMA ReviewMoves ==
    ASSUME Inv, NEW who, NEW id \in Ids, NEW required, NEW status, NEW event, NEW error,
           error # Ok, ReviewError(who, id, required, error) = Ok,
           <<required, status>> \in {<<"Pending", "Approved">>, <<"Pending", "Rejected">>,
                                     <<"Approved", "Suspended">>},
           AcceptReview(who, id, status, event), NEW k \in Ids, Assets[k] # None
    PROVE  MovesOn(Assets[k], Assets'[k])
  <1> DEFINE info == [Assets[id] EXCEPT !.status = status]
  <1>1. Assets[id] # None /\ Assets[id].status = required
    BY DEF ReviewError, Ok
  <1>2. Assets[id] \in AssetInfo
    BY <1>1 DEF Inv, TypeOK
  <1>3. status \in AssetStatus
    BY DEF AssetStatus
  <1>4. /\ info \in AssetInfo /\ info.name = Assets[id].name
        /\ info.symbol = Assets[id].symbol /\ info.status = status
    BY <1>2, <1>3 DEF AssetInfo
  <1>5. Assets' = [Assets EXCEPT ![id] = info]
    BY DEF AcceptReview, Inv, TypeOK
  <1>6. info # None
    BY <1>4, NoneIsNoAsset
  <1> HIDE DEF info
  <1>7. MovesOn(Assets[id], info)
    BY <1>1, <1>4, <1>6 DEF MovesOn
  <1> QED BY <1>5, <1>7, OneRecordMoves

\* Every step respects the life of every asset below the last id.
LEMMA NextMoves ==
    ASSUME Inv, Next, NEW k \in Ids, k < U32Max, Assets[k] # None
    PROVE  MovesOn(Assets[k], Assets'[k])
  <1>1. ASSUME Assets' = Assets
        PROVE  MovesOn(Assets[k], Assets'[k])
    BY <1>1 DEF MovesOn
  <1>2. ASSUME NEW e, Refuse(e)
        PROVE  MovesOn(Assets[k], Assets'[k])
    BY <1>1, <1>2 DEF Refuse, storage
  <1>3. ASSUME NEW who \in Origins, NEW r \in Registration, Accept_register_asset(who, r)
        PROVE  MovesOn(Assets[k], Assets'[k])
    <2>1. k # NextAssetId
      BY DEF Inv, IndexInv, NextIdIsFresh, TypeOK, Ids
    <2>2. Assets'[k] = Assets[k]
      BY <1>3, <2>1 DEF Accept_register_asset, Inv, TypeOK
    <2> QED BY <2>2 DEF MovesOn
  <1>4. ASSUME NEW who \in Origins, NEW id \in Ids,
               approve_asset(who, id) \/ reject_asset(who, id) \/ suspend_asset(who, id)
        PROVE  MovesOn(Assets[k], Assets'[k])
    <2> DEFINE pending == ReviewError(who, id, "Pending", "AssetNotPending")
               approved == ReviewError(who, id, "Approved", "AssetNotApproved")
    <2>1. "AssetNotPending" # Ok /\ "AssetNotApproved" # Ok
      BY DEF Ok
    <2>2. CASE pending = Ok /\ AcceptReview(who, id, "Approved", "AssetApproved")
      BY <2>1, <2>2, ReviewMoves
    <2>3. CASE pending = Ok /\ AcceptReview(who, id, "Rejected", "AssetRejected")
      BY <2>1, <2>3, ReviewMoves
    <2>4. CASE approved = Ok /\ AcceptReview(who, id, "Suspended", "AssetSuspended")
      BY <2>1, <2>4, ReviewMoves
    <2> QED BY <1>2, <1>4, <2>2, <2>3, <2>4 DEF approve_asset, reject_asset, suspend_asset
  <1>5. ASSUME NEW who \in Origins, NEW id \in Ids,
               NEW metadata \in 0 .. MaxAssetMetadataLength + 1,
               Accept_update_asset_metadata(who, id, metadata)
        PROVE  MovesOn(Assets[k], Assets'[k])
    <2> DEFINE info == [Assets[id] EXCEPT !.metadata = metadata]
    <2>1. Assets[id] # None /\ metadata \in 0 .. MaxAssetMetadataLength
      BY <1>5, RegistryAssumption DEF Accept_update_asset_metadata, UpdateError, Ok
    <2>2. Assets[id] \in AssetInfo
      BY <2>1 DEF Inv, TypeOK
    <2>3. /\ info \in AssetInfo /\ info.name = Assets[id].name
          /\ info.symbol = Assets[id].symbol /\ info.status = Assets[id].status
      BY <2>1, <2>2 DEF AssetInfo
    <2>4. Assets' = [Assets EXCEPT ![id] = info]
      BY <1>5 DEF Accept_update_asset_metadata, Inv, TypeOK
    <2> HIDE DEF info
    <2>5. MovesOn(Assets[id], info)
      BY <2>3, NoneIsNoAsset DEF MovesOn
    <2> QED BY <2>4, <2>5, OneRecordMoves
  <1>6. ASSUME NEW who \in Origins, NEW id \in Ids, NEW to \in Accounts,
               Accept_transfer_ownership(who, id, to)
        PROVE  MovesOn(Assets[k], Assets'[k])
    <2> DEFINE info == [Assets[id] EXCEPT !.owner = to]
    <2>1. Assets[id] # None
      BY <1>6 DEF Accept_transfer_ownership, TransferError, Ok
    <2>2. Assets[id] \in AssetInfo
      BY <2>1 DEF Inv, TypeOK
    <2>3. /\ info \in AssetInfo /\ info.name = Assets[id].name
          /\ info.symbol = Assets[id].symbol /\ info.status = Assets[id].status
      BY <2>2 DEF AssetInfo
    <2>4. Assets' = [Assets EXCEPT ![id] = info]
      BY <1>6 DEF Accept_transfer_ownership, Inv, TypeOK
    <2> HIDE DEF info
    <2>5. MovesOn(Assets[id], info)
      BY <2>3, NoneIsNoAsset DEF MovesOn
    <2> QED BY <2>4, <2>5, OneRecordMoves
  <1> QED BY <1>2, <1>3, <1>4, <1>5, <1>6
      DEF Next, register_asset, update_asset_metadata, transfer_ownership

\* The review of an asset only moves forward: no call takes it back, and
\* register_asset never overwrites it, short of the last id.
THEOREM LivesRespected == Spec => LifecycleRespected
  <1> DEFINE All == \A id \in Ids : id < U32Max /\ Assets[id] # None =>
          /\ Assets'[id] # None
          /\ Assets'[id].status # Assets[id].status =>
               <<Assets[id].status, Assets'[id].status>> \in
                  {<<"Pending", "Approved">>, <<"Pending", "Rejected">>,
                   <<"Approved", "Suspended">>}
  <1>1. Inv /\ [Next]_vars => [All]_vars
    <2> SUFFICES ASSUME Inv, Next PROVE All
      OBVIOUS
    <2>1. \A id \in Ids : id < U32Max /\ Assets[id] # None => MovesOn(Assets[id], Assets'[id])
      BY NextMoves
    <2> QED BY <2>1 DEF MovesOn
  <1> QED BY <1>1, Invariance, PTL DEF Spec, LifecycleRespected

-----------------------------------------------------------------------------
(* Weights. *)

\* The entries of the storage maps that a step changes.
ChangedAssets == {id \in Ids : Assets[id] # Assets'[id]}
ChangedListings ==
    {x \in Accounts \X Ids : (x[2] \in AssetsByOwner[x[1]]) # (x[2] \in AssetsByOwner'[x[1]])}
ChangedCounts == {a \in Accounts : AssetCountByOwner[a] # AssetCountByOwner'[a]}
ChangedSymbols == {t \in Symbols : AssetBySymbol[t] # AssetBySymbol'[t]}

\* The written entries, map by map.
LEMMA WrittenParts ==
    WrittenEntries = Cardinality(ChangedAssets) + Cardinality(ChangedListings)
                       + Cardinality(ChangedCounts) + Cardinality(ChangedSymbols)
                       + IF NextAssetId' = NextAssetId THEN 0 ELSE 1
  BY DEF WrittenEntries, ChangedAssets, ChangedListings, ChangedCounts, ChangedSymbols

\* A set without elements counts nothing, one within a pair at most two.
LEMMA AtMostTwo ==
    ASSUME NEW S, NEW x, NEW y
    PROVE  /\ S = {} => Cardinality(S) = 0
           /\ S \subseteq {x} => Cardinality(S) \in Nat /\ Cardinality(S) <= 1
           /\ S \subseteq {x, y} => Cardinality(S) \in Nat /\ Cardinality(S) <= 2
  <1>1. S = {} => Cardinality(S) = 0
    BY FS_EmptySet
  <1>2. \A z : Cardinality({z}) = 1 /\ IsFiniteSet({z})
    BY FS_Singleton
  <1>3. S \subseteq {x} => Cardinality(S) \in Nat /\ Cardinality(S) <= 1
    <2>1. S \subseteq {x} => S = {} \/ S = {x}
      OBVIOUS
    <2> QED BY <1>1, <1>2, <2>1
  <1>4. IsFiniteSet({x} \cup {y}) /\ Cardinality({x} \cup {y}) \in Nat
        /\ Cardinality({x} \cup {y}) <= 2
    <2>1. /\ IsFiniteSet({x} \cup {y})
          /\ Cardinality({x} \cup {y}) = IF y \in {x} THEN Cardinality({x})
                                         ELSE Cardinality({x}) + 1
      BY <1>2, FS_AddElement
    <2> QED BY <1>2, <2>1
  <1>5. S \subseteq {x, y} => Cardinality(S) \in Nat /\ Cardinality(S) <= 2
    <2> SUFFICES ASSUME S \subseteq {x, y}
                 PROVE  Cardinality(S) \in Nat /\ Cardinality(S) <= 2
      OBVIOUS
    <2>1. S \in SUBSET ({x} \cup {y})
      OBVIOUS
    <2>2. IsFiniteSet(S) /\ Cardinality(S) <= Cardinality({x} \cup {y})
      BY <1>4, <2>1, FS_Subset
    <2>3. Cardinality(S) \in Nat
      BY <2>2, FS_CardinalityType
    <2> QED BY <1>4, <2>2, <2>3
  <1> QED BY <1>1, <1>3, <1>5

\* A fee is paid for a number of writes.
LEMMA PaidIsNat == \A event : PaidWrites(event) \in Nat
  BY DEF PaidWrites


\* A pair that is not listed differently before and after is not a change.
LEMMA OnlyListing ==
    ASSUME NEW L, \A x \in Accounts \X Ids : x \notin L =>
              (x[2] \in AssetsByOwner[x[1]] <=> x[2] \in AssetsByOwner'[x[1]])
    PROVE  ChangedListings \subseteq L
  BY DEF ChangedListings

\* A call that leaves the storage alone writes nothing.
LEMMA NothingWritten ==
    ASSUME UNCHANGED storage
    PROVE  WrittenEntries = 0
  <1>1. ChangedAssets = {} /\ ChangedCounts = {} /\ ChangedSymbols = {}
    BY DEF storage, ChangedAssets, ChangedCounts, ChangedSymbols
  <1>2. ChangedListings = {}
    BY DEF storage, ChangedListings
  <1>3. NextAssetId' = NextAssetId
    BY DEF storage
  <1> QED BY <1>1, <1>2, <1>3, WrittenParts, AtMostTwo

\* A call that only rewrites the record of one asset writes one entry.
LEMMA OneWritten ==
    ASSUME NEW id \in Ids, NEW info, Inv, Assets' = [Assets EXCEPT ![id] = info],
           UNCHANGED indexes
    PROVE  WrittenEntries <= 1
  <1>1. ChangedCounts = {} /\ ChangedSymbols = {} /\ ChangedListings = {}
    BY DEF indexes, ChangedCounts, ChangedSymbols, ChangedListings
  <1>2. ChangedAssets \subseteq {id}
    BY DEF Inv, TypeOK, ChangedAssets
  <1>3. NextAssetId' = NextAssetId
    BY DEF indexes
  <1>4. Cardinality(ChangedAssets) \in Nat /\ Cardinality(ChangedAssets) <= 1
    BY <1>2, AtMostTwo
  <1> QED BY <1>1, <1>3, <1>4, WrittenParts, AtMostTwo

\* Every storage entry that a call changes was paid for with its weight.
THEOREM WritesPaid == Spec => WritesArePaid
  <1> DEFINE Paid == WrittenEntries <= PaidWrites(outcome'.result)
  <1>1. ASSUME NEW e, Refuse(e)
        PROVE  Paid
    BY <1>1, NothingWritten, PaidIsNat DEF Refuse
  <1>2. ASSUME Inv, NEW who \in Origins, NEW r \in Registration, Accept_register_asset(who, r)
        PROVE  Paid
    <2>0. who \in Accounts /\ r.symbol \in Symbols /\ NextAssetId \in Ids
      BY <1>2 DEF Accept_register_asset, RegisterError, Ok, Registration, Inv, TypeOK
    <2>1. ChangedAssets \subseteq {NextAssetId}
      BY <1>2, <2>0 DEF Accept_register_asset, Inv, TypeOK, ChangedAssets
    <2>2. ChangedListings \subseteq {<<who, NextAssetId>>}
      <3> SUFFICES ASSUME NEW x \in Accounts \X Ids, x \notin {<<who, NextAssetId>>}
                   PROVE  x[2] \in AssetsByOwner[x[1]] <=> x[2] \in AssetsByOwner'[x[1]]
        BY OnlyListing
      <3>1. CASE x[1] = who
        <4>1. x[2] # NextAssetId
          BY <3>1
        <4>2. AssetsByOwner'[who] = AssetsByOwner[who] \cup {NextAssetId}
          BY <1>2, <2>0 DEF Accept_register_asset, Inv, TypeOK
        <4> QED BY <3>1, <4>1, <4>2
      <3>2. CASE x[1] # who
        <4>1. AssetsByOwner'[x[1]] = AssetsByOwner[x[1]]
          BY <1>2, <2>0, <3>2 DEF Accept_register_asset, Inv, TypeOK
        <4> QED BY <4>1
      <3> QED BY <3>1, <3>2
    <2>3. ChangedCounts \subseteq {who}
      BY <1>2, <2>0 DEF Accept_register_asset, Inv, TypeOK, ChangedCounts
    <2>4. ChangedSymbols \subseteq {r.symbol}
      BY <1>2, <2>0 DEF Accept_register_asset, Inv, TypeOK, ChangedSymbols
    <2>5. PaidWrites(outcome'.result) = 5
      BY <1>2 DEF Accept_register_asset, Deposit, PaidWrites
    <2>6. /\ Cardinality(ChangedAssets) \in Nat /\ Cardinality(ChangedAssets) <= 1
          /\ Cardinality(ChangedListings) \in Nat /\ Cardinality(ChangedListings) <= 1
          /\ Cardinality(ChangedCounts) \in Nat /\ Cardinality(ChangedCounts) <= 1
          /\ Cardinality(ChangedSymbols) \in Nat /\ Cardinality(ChangedSymbols) <= 1
      BY <2>1, <2>2, <2>3, <2>4, AtMostTwo
    <2> QED BY <2>5, <2>6, WrittenParts
  <1>3. ASSUME Inv, NEW who, NEW id \in Ids, NEW status, NEW event,
               event \in {"AssetApproved", "AssetRejected", "AssetSuspended"},
               AcceptReview(who, id, status, event)
        PROVE  Paid
    <2>1. Assets' = [Assets EXCEPT ![id] = [Assets[id] EXCEPT !.status = status]]
          /\ UNCHANGED indexes
      BY <1>3 DEF AcceptReview, Inv, TypeOK
    <2>2. WrittenEntries <= 1
      BY <1>3, <2>1, OneWritten
    <2>3. PaidWrites(outcome'.result) = 1
      BY <1>3 DEF AcceptReview, Deposit, PaidWrites
    <2> QED BY <2>2, <2>3
  <1>4. ASSUME Inv, NEW who, NEW id \in Ids, NEW metadata,
               Accept_update_asset_metadata(who, id, metadata)
        PROVE  Paid
    <2>1. Assets' = [Assets EXCEPT ![id] = [Assets[id] EXCEPT !.metadata = metadata]]
          /\ UNCHANGED indexes
      BY <1>4 DEF Accept_update_asset_metadata, Inv, TypeOK
    <2>2. WrittenEntries <= 1
      BY <1>4, <2>1, OneWritten
    <2>3. PaidWrites(outcome'.result) = 1
      BY <1>4 DEF Accept_update_asset_metadata, Deposit, PaidWrites
    <2> QED BY <2>2, <2>3
  <1>5. ASSUME Inv, NEW who \in Origins, NEW id \in Ids, NEW to \in Accounts,
               Accept_transfer_ownership(who, id, to)
        PROVE  Paid
    <2>0. who \in Accounts /\ Assets[id].owner = who
      BY <1>5 DEF Accept_transfer_ownership, TransferError, Ok
    <2>1. ChangedAssets \subseteq {id}
      BY <1>5 DEF Accept_transfer_ownership, Inv, TypeOK, ChangedAssets
    <2>2. ChangedListings \subseteq {<<who, id>>, <<to, id>>}
      <3>1. AssetsByOwner' = [AssetsByOwner EXCEPT ![who] = @ \ {id}, ![to] = @ \cup {id}]
        BY <1>5, <2>0 DEF Accept_transfer_ownership
      <3>2. ASSUME NEW x \in Accounts \X Ids, x \notin {<<who, id>>, <<to, id>>}
            PROVE  x[2] \in AssetsByOwner[x[1]] <=> x[2] \in AssetsByOwner'[x[1]]
        <4>1. CASE x[1] # who /\ x[1] # to
          <5>1. AssetsByOwner'[x[1]] = AssetsByOwner[x[1]]
            BY <1>5, <2>0, <3>1, <4>1 DEF Inv, TypeOK
          <5> QED BY <5>1
        <4>2. CASE x[1] = who \/ x[1] = to
          <5>1. x[2] # id
            BY <3>2, <4>2
          <5>2. \A k : k # id => (k \in AssetsByOwner[x[1]] <=> k \in AssetsByOwner'[x[1]])
            BY <1>5, <2>0, <3>1 DEF Inv, TypeOK
          <5> QED BY <5>1, <5>2
        <4> QED BY <4>1, <4>2
      <3> QED BY <3>2, OnlyListing
    <2>3. ChangedCounts \subseteq {who, to}
      BY <1>5, <2>0 DEF Accept_transfer_ownership, Inv, TypeOK, ChangedCounts
    <2>4. ChangedSymbols = {} /\ NextAssetId' = NextAssetId
      BY <1>5 DEF Accept_transfer_ownership, ChangedSymbols
    <2>5. PaidWrites(outcome'.result) = 5
      BY <1>5 DEF Accept_transfer_ownership, Deposit, PaidWrites
    <2>6. /\ Cardinality(ChangedAssets) \in Nat /\ Cardinality(ChangedAssets) <= 1
          /\ Cardinality(ChangedListings) \in Nat /\ Cardinality(ChangedListings) <= 2
          /\ Cardinality(ChangedCounts) \in Nat /\ Cardinality(ChangedCounts) <= 2
          /\ Cardinality(ChangedSymbols) = 0
      BY <2>1, <2>2, <2>3, <2>4, AtMostTwo
    <2> QED BY <2>4, <2>5, <2>6, WrittenParts
  <1>6. Inv /\ [Next]_vars => [Paid]_vars
    <2> SUFFICES ASSUME Inv, Next PROVE Paid
      OBVIOUS
    <2> HIDE DEF Paid
    <2>1. ASSUME NEW who \in Origins, NEW id \in Ids,
                 approve_asset(who, id) \/ reject_asset(who, id) \/ suspend_asset(who, id)
          PROVE  Paid
      BY <1>1, <1>3, <2>1 DEF approve_asset, reject_asset, suspend_asset
    <2> QED BY <1>1, <1>2, <1>4, <1>5, <2>1
        DEF Next, register_asset, update_asset_metadata, transfer_ownership
  <1> QED BY <1>6, Invariance, PTL DEF Spec, WritesArePaid

=============================================================================
