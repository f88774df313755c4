----------------------------- MODULE AssetRegistry -----------------------------
(* The asset-registry pallet of the Substrate example chain                   *)
(* (task4/examples/substrate-dev/pallets/asset-registry/src/lib.rs): assets    *)
(* with an owner, a unique symbol and a review status, and three indexes       *)
(* (by owner, count by owner, by symbol) that every call maintains by hand.    *)
(*                                                                             *)
(* Every dispatchable is one action with two disjuncts: accepted, or refused   *)
(* with an error and no effect.  Of an asset the model keeps what later calls   *)
(* read or change; description, decimals, supply and the capability flags are  *)
(* only validated on registration.  Texts are model values with a length, the  *)
(* metadata is its length.                                                     *)
EXTENDS Integers, FiniteSets

CONSTANTS
    Accounts,                   \* accounts that sign extrinsics
    Root,                       \* the root origin, which signs nothing
    Names, Symbols,             \* the texts offered as names and symbols
    TextLen,                    \* length of every name and symbol
    MaxAssetNameLength,         \* Config
    MaxAssetSymbolLength,       \* Config
    MaxAssetDescriptionLength,  \* Config
    MaxAssetMetadataLength,     \* Config
    MaxAssetsPerOwner,          \* Config: quota of assets per owner
    U32Max,                     \* largest u32: ids and counts saturate here
    MaxAssets,                  \* bound: register_asset is called below this id
    None                        \* the Option::None of the storage maps

ASSUME RegistryAssumption ==
    /\ Root \notin Accounts /\ None \notin Accounts
    /\ TextLen \in [Names \cup Symbols -> Nat]
    /\ MaxAssetNameLength \in Nat
    /\ MaxAssetSymbolLength \in Nat
    /\ MaxAssetDescriptionLength \in Nat
    /\ MaxAssetMetadataLength \in Nat
    /\ U32Max \in Nat
    /\ MaxAssetsPerOwner \in 0 .. U32Max
    /\ MaxAssets \in Nat
    /\ None \notin Int

Ids == 0 .. U32Max
Origins == Accounts \cup {Root}
AssetStatus == {"Pending", "Approved", "Rejected", "Suspended"}

AssetInfo == [owner: Accounts, name: Names, symbol: Symbols,
              status: AssetStatus, metadata: 0 .. MaxAssetMetadataLength]

ASSUME NoneIsNoAsset == None \notin AssetInfo

VARIABLES
    Assets,             \* id -> AssetInfo, or None
    AssetsByOwner,      \* account -> the set of ids filed under it
    AssetCountByOwner,  \* account -> count (ValueQuery: 0 by default)
    AssetBySymbol,      \* symbol -> id, or None
    NextAssetId,
    outcome             \* event or error of the last call, and its signer

vars == <<Assets, AssetsByOwner, AssetCountByOwner, AssetBySymbol, NextAssetId, outcome>>
storage == <<Assets, AssetsByOwner, AssetCountByOwner, AssetBySymbol, NextAssetId>>
indexes == <<AssetsByOwner, AssetCountByOwner, AssetBySymbol, NextAssetId>>

-----------------------------------------------------------------------------
Ok == "Ok"

Events == {"AssetRegistered", "AssetApproved", "AssetRejected", "AssetSuspended",
           "AssetMetadataUpdated", "AssetOwnershipTransferred"}

Errors == {"BadOrigin", "AssetNotFound", "AssetNameTooLong", "AssetSymbolTooLong",
           "AssetDescriptionTooLong", "AssetMetadataTooLong", "AssetSymbolExists",
           "NotAssetOwner", "AssetNotPending", "AssetNotApproved",
           "TooManyAssetsPerOwner", "AssetNameEmpty", "AssetSymbolEmpty",
           "InvalidDecimals", "TotalSupplyZero"}

Deposit(event, who) == [result |-> event, who |-> who]

\* A call that returns Err: the runtime rolls its storage writes back.
Refuse(error) ==
    /\ error # Ok
    /\ outcome' = Deposit(error, None)
    /\ UNCHANGED storage

SaturatingAdd(a, b, max) == IF a + b > max THEN max ELSE a + b
SaturatingSub(a, b) == IF a < b THEN 0 ELSE a - b

-----------------------------------------------------------------------------
Init ==
    /\ Assets = [id \in Ids |-> None]
    /\ AssetsByOwner = [a \in Accounts |-> {}]
    /\ AssetCountByOwner = [a \in Accounts |-> 0]
    /\ AssetBySymbol = [s \in Symbols |-> None]
    /\ NextAssetId = 0
    /\ outcome = Deposit(Ok, None)

\* The arguments of register_asset, texts by value and the rest by size.
Registration == [name: Names, symbol: Symbols,
                 description: 0 .. MaxAssetDescriptionLength + 1,
                 metadata: 0 .. MaxAssetMetadataLength + 1,
                 decimals: 18 .. 19, total_supply: 0 .. 1]

\* Mutant of RegisterError: the symbol is not looked up.
RegisterError_AnySymbol(who, r) ==
    IF who \notin Accounts THEN "BadOrigin"
    ELSE IF TextLen[r.name] = 0 THEN "AssetNameEmpty"
    ELSE IF TextLen[r.symbol] = 0 THEN "AssetSymbolEmpty"
    ELSE IF TextLen[r.name] > MaxAssetNameLength THEN "AssetNameTooLong"
    ELSE IF TextLen[r.symbol] > MaxAssetSymbolLength THEN "AssetSymbolTooLong"
    ELSE IF r.description > MaxAssetDescriptionLength THEN "AssetDescriptionTooLong"
    ELSE IF r.metadata > MaxAssetMetadataLength THEN "AssetMetadataTooLong"
    ELSE IF r.decimals > 18 THEN "InvalidDecimals"
    ELSE IF r.total_supply = 0 THEN "TotalSupplyZero"
    ELSE IF AssetCountByOwner[who] >= MaxAssetsPerOwner THEN "TooManyAssetsPerOwner"
    ELSE Ok

RegisterError(who, r) ==
    IF who \notin Accounts THEN "BadOrigin"
    ELSE IF TextLen[r.name] = 0 THEN "AssetNameEmpty"
    ELSE IF TextLen[r.symbol] = 0 THEN "AssetSymbolEmpty"
    ELSE IF TextLen[r.name] > MaxAssetNameLength THEN "AssetNameTooLong"
    ELSE IF TextLen[r.symbol] > MaxAssetSymbolLength THEN "AssetSymbolTooLong"
    ELSE IF r.description > MaxAssetDescriptionLength THEN "AssetDescriptionTooLong"
    ELSE IF r.metadata > MaxAssetMetadataLength THEN "AssetMetadataTooLong"
    ELSE IF r.decimals > 18 THEN "InvalidDecimals"
    ELSE IF r.total_supply = 0 THEN "TotalSupplyZero"
    ELSE IF AssetBySymbol[r.symbol] # None THEN "AssetSymbolExists"
    ELSE IF AssetCountByOwner[who] >= MaxAssetsPerOwner THEN "TooManyAssetsPerOwner"
    ELSE Ok

Accept_register_asset(who, r) ==
    /\ RegisterError(who, r) = Ok
    /\ Assets' = [Assets EXCEPT ![NextAssetId] =
            [owner |-> who, name |-> r.name, symbol |-> r.symbol,
             status |-> "Pending", metadata |-> r.metadata]]
    /\ AssetsByOwner' = [AssetsByOwner EXCEPT ![who] = @ \cup {NextAssetId}]
    /\ AssetCountByOwner' = [AssetCountByOwner EXCEPT ![who] = SaturatingAdd(@, 1, U32Max)]
    /\ AssetBySymbol' = [AssetBySymbol EXCEPT ![r.symbol] = NextAssetId]
    /\ NextAssetId' = SaturatingAdd(NextAssetId, 1, U32Max)
    /\ outcome' = Deposit("AssetRegistered", who)

register_asset(who, r) ==
    /\ NextAssetId < MaxAssets
    /\ \/ Accept_register_asset(who, r)
       \/ Refuse(RegisterError(who, r))

\* Mutant of ReviewError: any status will do.
ReviewError_AnyStatus(who, id, required, error) ==
    IF who \notin Accounts THEN "BadOrigin"
    ELSE IF Assets[id] = None THEN "AssetNotFound"
    ELSE Ok

\* approve_asset, reject_asset and suspend_asset differ in the status they
\* require, the error when it is another one, and the status they set.
ReviewError(who, id, required, error) ==
    IF who \notin Accounts THEN "BadOrigin"
    ELSE IF Assets[id] = None THEN "AssetNotFound"
    ELSE IF Assets[id].status # required THEN error
    ELSE Ok

AcceptReview(who, id, status, event) ==
    /\ Assets' = [Assets EXCEPT ![id].status = status]
    /\ outcome' = Deposit(event, who)
    /\ UNCHANGED indexes

approve_asset(who, id) ==
    LET error == ReviewError(who, id, "Pending", "AssetNotPending")
    IN  \/ error = Ok /\ AcceptReview(who, id, "Approved", "AssetApproved")
        \/ Refuse(error)

reject_asset(who, id) ==
    LET error == ReviewError(who, id, "Pending", "AssetNotPending")
    IN  \/ error = Ok /\ AcceptReview(who, id, "Rejected", "AssetRejected")
        \/ Refuse(error)

suspend_asset(who, id) ==
    LET error == ReviewError(who, id, "Approved", "AssetNotApproved")
    IN  \/ error = Ok /\ AcceptReview(who, id, "Suspended", "AssetSuspended")
        \/ Refuse(error)

\* Mutant of UpdateError: the length of the new metadata is not checked.
UpdateError_AnyLength(who, id, metadata) ==
    IF who \notin Accounts THEN "BadOrigin"
    ELSE IF Assets[id] = None THEN "AssetNotFound"
    ELSE IF Assets[id].owner # who THEN "NotAssetOwner"
    ELSE Ok

UpdateError(who, id, metadata) ==
    IF who \notin Accounts THEN "BadOrigin"
    ELSE IF Assets[id] = None THEN "AssetNotFound"
    ELSE IF Assets[id].owner # who THEN "NotAssetOwner"
    ELSE IF metadata > MaxAssetMetadataLength THEN "AssetMetadataTooLong"
    ELSE Ok

Accept_update_asset_metadata(who, id, metadata) ==
    /\ UpdateError(who, id, metadata) = Ok
    /\ Assets' = [Assets EXCEPT ![id].metadata = metadata]
    /\ outcome' = Deposit("AssetMetadataUpdated", who)
    /\ UNCHANGED indexes

update_asset_metadata(who, id, metadata) ==
    \/ Accept_update_asset_metadata(who, id, metadata)
    \/ Refuse(UpdateError(who, id, metadata))

TransferError(who, id, new_owner) ==
    IF who \notin Accounts THEN "BadOrigin"
    ELSE IF Assets[id] = None THEN "AssetNotFound"
    ELSE IF Assets[id].owner # who THEN "NotAssetOwner"
    ELSE IF AssetCountByOwner[new_owner] >= MaxAssetsPerOwner THEN "TooManyAssetsPerOwner"
    ELSE Ok

\* Mutants of Accept_transfer_ownership: the former owner keeps its index
\* entry; both counts are read first and the former owner's is written last.
Accept_transfer_ownership_KeepsOld(who, id, new_owner) ==
    /\ TransferError(who, id, new_owner) = Ok
    /\ Assets' = [Assets EXCEPT ![id].owner = new_owner]
    /\ AssetsByOwner' = [AssetsByOwner EXCEPT ![new_owner] = @ \cup {id}]
    /\ AssetCountByOwner' = [AssetCountByOwner EXCEPT ![new_owner] = @ + 1]
    /\ outcome' = Deposit("AssetOwnershipTransferred", who)
    /\ UNCHANGED <<AssetBySymbol, NextAssetId>>

Accept_transfer_ownership_OldLast(who, id, new_owner) ==
    /\ TransferError(who, id, new_owner) = Ok
    /\ Assets' = [Assets EXCEPT ![id].owner = new_owner]
    /\ LET old_owner == Assets[id].owner
           old_owner_count == AssetCountByOwner[old_owner]
       IN  /\ AssetsByOwner' = [AssetsByOwner EXCEPT
                  ![old_owner] = @ \ {id}, ![new_owner] = @ \cup {id}]
           /\ AssetCountByOwner' = [AssetCountByOwner EXCEPT
                  ![new_owner] = SaturatingAdd(@, 1, U32Max),
                  ![old_owner] = SaturatingSub(old_owner_count, 1)]
    /\ outcome' = Deposit("AssetOwnershipTransferred", who)
    /\ UNCHANGED <<AssetBySymbol, NextAssetId>>

\* The counts are written one after the other: the old owner's, then the new
\* owner's from the value read before that first write.
Accept_transfer_ownership(who, id, new_owner) ==
    /\ TransferError(who, id, new_owner) = Ok
    /\ Assets' = [Assets EXCEPT ![id].owner = new_owner]
    /\ LET old_owner == Assets[id].owner
           new_owner_count == AssetCountByOwner[new_owner]
       IN  /\ AssetsByOwner' = [AssetsByOwner EXCEPT
                  ![old_owner] = @ \ {id}, ![new_owner] = @ \cup {id}]
           /\ AssetCountByOwner' = [AssetCountByOwner EXCEPT
                  ![old_owner] = SaturatingSub(@, 1),
                  ![new_owner] = SaturatingAdd(new_owner_count, 1, U32Max)]
    /\ outcome' = Deposit("AssetOwnershipTransferred", who)
    /\ UNCHANGED <<AssetBySymbol, NextAssetId>>

transfer_ownership(who, id, new_owner) ==
    \/ Accept_transfer_ownership(who, id, new_owner)
    \/ Refuse(TransferError(who, id, new_owner))

Next ==
    \/ \E who \in Origins, r \in Registration : register_asset(who, r)
    \/ \E who \in Origins, id \in Ids : approve_asset(who, id)
    \/ \E who \in Origins, id \in Ids : reject_asset(who, id)
    \/ \E who \in Origins, id \in Ids : suspend_asset(who, id)
    \/ \E who \in Origins, id \in Ids, metadata \in 0 .. MaxAssetMetadataLength + 1 :
          update_asset_metadata(who, id, metadata)
    \/ \E who \in Origins, id \in Ids, new_owner \in Accounts :
          transfer_ownership(who, id, new_owner)

Spec == Init /\ [][Next]_vars

-----------------------------------------------------------------------------
(* Weights (pallets/asset-registry/src/weights.rs): the database writes that   *)
(* the fee of an accepted call has paid for, per event that it deposits.       *)

\* Mutant of PaidWrites: the counts of transfer_ownership are not paid for.
PaidWrites_NoCounts(event) ==
    CASE event = "AssetRegistered" -> 5
      [] event = "AssetOwnershipTransferred" -> 3
      [] event \in Events -> 1
      [] OTHER -> 0

PaidWrites(event) ==
    CASE event \in {"AssetRegistered", "AssetOwnershipTransferred"} -> 5
      [] event \in {"AssetApproved", "AssetRejected", "AssetSuspended",
                    "AssetMetadataUpdated"} -> 1
      [] OTHER -> 0

\* The storage entries that a step writes with a new value.
WrittenEntries ==
    LET Changed(S, old(_), new(_)) == Cardinality({x \in S : old(x) # new(x)})
    IN  Changed(Ids, LAMBDA id : Assets[id], LAMBDA id : Assets'[id])
        + Changed(Accounts \X Ids, LAMBDA x : x[2] \in AssetsByOwner[x[1]],
                  LAMBDA x : x[2] \in AssetsByOwner'[x[1]])
        + Changed(Accounts, LAMBDA a : AssetCountByOwner[a], LAMBDA a : AssetCountByOwner'[a])
        + Changed(Symbols, LAMBDA t : AssetBySymbol[t], LAMBDA t : AssetBySymbol'[t])
        + IF NextAssetId' = NextAssetId THEN 0 ELSE 1

-----------------------------------------------------------------------------
(* Properties. *)

\* The pallet's storage keeps its types.
TypeOK ==
    /\ Assets \in [Ids -> AssetInfo \cup {None}]
    /\ AssetsByOwner \in [Accounts -> SUBSET Ids]
    /\ AssetCountByOwner \in [Accounts -> 0 .. U32Max]
    /\ AssetBySymbol \in [Symbols -> Ids \cup {None}]
    /\ NextAssetId \in Ids
    /\ outcome \in [result: Events \cup Errors \cup {Ok}, who: Accounts \cup {None}]

\* Ids at or above NextAssetId are unused in Assets and in both indexes, but
\* for the last id, where the saturating counter stops.
NextIdIsFresh ==
    \A id \in Ids : id >= NextAssetId /\ id < U32Max =>
        /\ Assets[id] = None
        /\ \A a \in Accounts : id \notin AssetsByOwner[a]
        /\ \A s \in Symbols : AssetBySymbol[s] # id

\* The owner index lists an asset under exactly the account its record names
\* as owner, through any sequence of registrations and transfers (the last
\* id may also stay listed under a former owner: register_asset reuses it
\* without cleaning the index).
OwnerIndexAgrees ==
    \A id \in Ids :
        /\ Assets[id] # None => id \in AssetsByOwner[Assets[id].owner]
        /\ \A a \in Accounts : id < U32Max /\ id \in AssetsByOwner[a] =>
              Assets[id] # None /\ Assets[id].owner = a

\* The symbol index and the records name each other: a registered asset is
\* found under its symbol, and a symbol leads to an asset that bears it.  Two
\* assets therefore never share a symbol.
SymbolIndexAgrees ==
    \A id \in Ids : id < U32Max =>
        /\ Assets[id] # None => AssetBySymbol[Assets[id].symbol] = id
        /\ \A s \in Symbols : AssetBySymbol[s] = id =>
              Assets[id] # None /\ Assets[id].symbol = s

\* The count that the quota check reads never falls below the number of
\* assets filed under the owner, so that nobody gets past the quota.
CountCoversHoldings ==
    \A a \in Accounts :
        /\ Cardinality(AssetsByOwner[a]) <= AssetCountByOwner[a]
        /\ AssetCountByOwner[a] <= MaxAssetsPerOwner

\* A review only moves forward, Pending to Approved or Rejected, Approved to
\* Suspended, whatever registrations, updates and transfers come between; and
\* an asset never goes away or starts over.  (The property says nothing of its
\* name and symbol: docs/pallets.md:240-241 has update_asset_metadata take new
\* ones, while the call takes a metadata field only, lib.rs:409-413.)
LifecycleRespected ==
    [][\A id \in Ids : id < U32Max /\ Assets[id] # None =>
          /\ Assets'[id] # None
          /\ Assets'[id].status # Assets[id].status =>
               <<Assets[id].status, Assets'[id].status>> \in
                  {<<"Pending", "Approved">>, <<"Pending", "Rejected">>,
                   <<"Approved", "Suspended">>}]_vars

\* "Number of assets owned" (docs/pallets.md:178): the count of an owner is
\* the number of assets the owner index lists for it.
CountIsNumberOwned ==
    \A a \in Accounts : AssetCountByOwner[a] = Cardinality(AssetsByOwner[a])

\* Every storage entry that a step changes was paid for: no call writes more
\* of the five maps than its weight declares, and a refused call writes none.
WritesArePaid == [][WrittenEntries <= PaidWrites(outcome'.result)]_vars

=============================================================================
