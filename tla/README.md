# Verification of web3-tasks

TLA+ models of the programs of this repository that keep state, the TLC configurations that check
them on small instances, and TLAPS proofs of the most important invariants for every instance.
`PROJECT.json` maps each definition to the lines it models and lists the components, runs, mutants,
findings, hazards and theorems.

To repeat a check: `tlc -workers 2 -config <file>.cfg <module>`; to repeat a proof: `tlapm
<module>.tla`.

## 1. Inventory

The repository is a set of programs written along a Web3 course. They do not call one another; each
talks to its own chain. "A2" is `src/advanced2-contract-dev`, "A1" `src/advanced1-dapp-backend`,
"B2" `src/base2-smartcontractbase`.

| component | state | operations | what is hard | what makes it correct |
|---|---|---|---|---|
| voting pallet (A2 `task4/examples/substrate-dev/pallets/voting`) | proposals, votes, running tally, next id | create_proposal, vote, end_proposal, cancel_proposal | several accounts interleave with block production; the tally is kept beside the votes; saturating counters | tally = votes; one vote per account; closed proposals are final; the announced winner is the plurality winner; every proposal can be closed |
| asset-registry pallet (same, `pallets/asset-registry`) | records, owner index, count per owner, symbol index, next id | register, approve, reject, suspend, update metadata, transfer | three indexes kept by hand; counts read before and written after another write; ids saturate | indexes agree with records; quota holds; review is one-way; only the owner disposes |
| MetaNodeStake (A2 `task2/metanode-stake`) | pools, stakes, requests, reward accumulators, schedule, pauses | deposit, depositETH, unstake, withdraw, claim, massUpdatePools and the administrator's calls | stakers, administrator and block number interleave; fixed-point rewards with rounding; a queue popped from the front; checked arithmetic that reverts | no stake is lost; the contract holds what it owes, or it is known why not; rewards paid stay within rewards shared out, but for rounding; locks are respected; the queue drains |
| SPL token program (A2 `task4/examples/solana-dev/spl-token-program`) | own authority and total supply beside the token program's | initialize_mint, mint, transfer, burn, update_mint_authority | two copies of one fact, which one call changes together and another apart; calls that bypass the program | the recorded supply accounts for all that went through the program; giving the recorded authority away moves no more than the record |
| token manager script (same, `scripts/token-manager.js`) | the wallet and the mint in memory, the wallet in `keypair.json`, the address in `mint-address.txt` | initialize, createToken, loadToken, mintTokens, transferTokens, burnTokens, the command line | works on the same mints past the program; wallet and mint are used before they are saved, and the saving may fail | the saved address leads to a mint of the saved wallet, or of one that could not be saved |
| Solana client (A1 `task3/experiencesolanago`) | the blockhash taken, the attempts made, the signature returned | main's airdrop and checks, TransferSOL with its retries | sends that are lost, late or refused; blockhashes that expire; timeouts; the program is run again | a reported signature has moved the amount, what was given up as refused never moves later, the run ends |
| Ethereum clients (A1 `task1`) with Store, MyToken, Counter | a transaction in flight, the contract's storage | deploy, wait for the receipt, execute, read back | mining is asynchronous | what is read back is what was written; waiting ends |
| Meme token, LiquidityPool (A2 `task1/meme-experience`) | balances, allowances, daily counters | transfer with tax, limits, liquidity | limits over a day, allowance and tax | tax and transfer conserve supply; limits hold |
| BeggingContract, MyERC20, MyNFT, Voting (B2) | donations and a top list, balances, votes | donate, withdraw, transfer, vote, reset | a sorted list kept by hand; reset over a list | list = the largest donors; supply conserved |
| algorithms (B2 `task1`), Arithmetic (A2 `task3`) | none | Roman numerals, binary search, merge, reverse; three versions of the same arithmetic | unsigned underflow, empty inputs | agreement with a reference definition |
| template pallet (A2 `task4/substrate-demo`) | one optional number | do_something, cause_error | overflow | a number or an error |
| runtime of the demo chain (A2 `task4/substrate-demo/runtime`) | balances, issuance, nonces, block hashes, the pool | genesis presets, the transaction pipeline, blocks, transfers, sudo | transactions submitted again, accounts that die and come back, fees taken before calls that fail, eras against forgotten hashes | the ledger balances; no replay within a life, nor past the era of a mortal extrinsic; the pool gets rid of mortal extrinsics |
| nodes (A2 `task4/substrate-demo/node`, `task4/examples/substrate-dev/node`) | the tasks of a process, the keystore on disk, slots | start-up, commands, task failure, crash, authoring | a start that fails half way, a task that dies during it, roles that change with the keystore left behind, timestamps pushed out of a slot | no key has two signers; a crippled node goes down; no author is stopped by its own timestamp |
| deployment scripts, front ends, generated bindings | - | - | - | not modelled, see section 11 |

The behaviours that are hard to test are listed, each at its line, under "hazards" in
`PROJECT.json`.

## 2. Voting pallet: `VotingPallet`

**State.** `Proposals`, `Votes`, `VoteResults` and `NextProposalId` are the storage items of the
same name; `block` is frame_system's block number; `outcome` is what the last call returned (its
event with the fields a property reads, or its error). A description is modelled by its length and a
list of options by its length, because the pallet reads nothing else of them. A vote's weight is the
constant 1 and is left out.

**Actions.** One per dispatchable. `CreateError`, `VoteError`, `EndError` and `CancelError` are the
`ensure!` chains in the order of the code; a call is either accepted (`Accept_...`) or refused with
that error and no effect. `AdvanceBlock` is the block production of frame_system (external).

**Runs.**
- `voting`: two accounts, two options, two proposals that overlap in time, four blocks. The storage
  stays typed (votes are only filed under options the pallet can have), `ClosedIsFinal`,
  `WritesArePaid` and `ImplementsBallot`.
- `voting_election`: three voters and three options on one proposal, with a u32 that ends at 2 so
  that counters saturate. `TallyMatchesVotes` holds up to saturation and `WinnerIsPlurality` says
  what the loop in `end_proposal` computes, declaratively: the first option with the highest count,
  none if there are no votes. `EveryProposalCloses` is liveness under `FairSpec`. Fairness: blocks
  are produced (`WF(AdvanceBlock)`), and somebody keeps calling `end_proposal` for each id. The
  second is not a property of the code but of its users; the code justifies asking for no more than
  it, because `end_proposal` does not look at its signer. A proposal whose period reaches the
  largest block number can never be ended (`block > end_block` is unreachable after
  `saturating_add`); the property excludes it.

**Weights.** `PaidWrites` is the number of database writes that `weights.rs` charges per call,
`WrittenEntries` the number of storage entries that a step really changes. `WritesArePaid`, checked
in `voting` and for the other pallet in `registry`, compares the two.

**Refinement.** `Ballot` says what the pallet promises: ballots are opened, an account casts one
vote on an open ballot, and a ballot is closed with the announcement of its plurality winner or
withdrawn. It has no blocks, no ids in order, no tallies and no counting loop. The mapping `Ballots`
reads `options` and `open` off `Proposals`, `cast` off `Votes`, and the announcement off the event
of `end_proposal`; `ImplementsBallot` (checked by `voting`) is the abstract specification under it.
It says of votes and winners, in one specification, what `TallyMatchesVotes`, `WinnerIsPlurality`,
`VotesArePermanent` and `ClosedIsFinal` say apart. It holds short of the largest u32: the run's
counters do not saturate, those of `voting_election` do.

**Bounds.** `MaxBlock` stands for the largest block number, `U32Max` for the largest u32; both are
small so that their edges are reached. `MaxProposals` bounds how often `create_proposal` is called.
Two proposals are enough to have one reused id, one closed while the other is open, and votes of one
account on both.

**A remark.** `docs/pallets.md:22` says "Results are automatically tallied when voting ends". No
hook does so; the result exists only once somebody calls `end_proposal`. This is why
`EveryProposalCloses` needs its second fairness conjunct.

## 3. Asset registry: `AssetRegistry`

**State.** `Assets`, `AssetsByOwner`, `AssetCountByOwner`, `AssetBySymbol`, `NextAssetId` as in the
code. A double map owner -> id -> () is a set of ids per owner. Of a record the model keeps owner,
name, symbol, status and metadata length; the other fields are validated on registration and never
read again. `Root` is an origin that signs nothing, so that `ensure_signed` has something to refuse.

**Actions.** One per dispatchable, accepted or refused. `transfer_ownership` keeps the order of the
code: the new owner's count is read, the old owner's is written, then the new owner's is written
from the value read before.

**Runs.**
- `registry`: two owners with a quota of two, four symbols, ids up to 2. `NextAssetId` saturates and
  the last id is registered over, so the run covers both the normal case (ids 0 and 1) and the
  saturated one. `OwnerIndexAgrees` and `SymbolIndexAgrees` state that the indexes and the records
  name each other; `CountCoversHoldings` that the count the quota check reads is never too low, so
  nobody holds more than the quota; `LifecycleRespected` and `WritesArePaid`, over the five maps,
  are action properties.
- `registry_count` (violation): `AssetCountByOwner` is documented as the number of assets owned. A
  transfer to oneself overwrites the decrement and the count drifts upwards.

**Remarks.** The doc comments ask for root or governance on approve, reject and suspend; the code
(`lib.rs:340`) lets any signed account pass and refuses root, and `docs/pallets.md:311` describes a
review. `LifecycleRespected` therefore says nothing about who reviews. `docs/pallets.md:313` wants
names to be unique as well as symbols; the code only looks up the symbol. `SymbolIndexAgrees` states
the half that holds. `docs/pallets.md:240` gives `update_asset_metadata` an optional new name and
symbol; the call (`lib.rs:409`) takes the metadata only, so that an asset keeps both.
`LifecycleRespected` takes no side: it is about the review and about assets that are neither removed
nor replaced, short of the last u32.

## 4. Staking: `MetaNodeStake`

**State.** `pools`, `users` (stake, settled reward `finishedMetaNode`, pending reward, request
queue), the reward `schedule` (start, end, rate), `totalWeight`, the two pause flags, and the token
balances of the contract and of the users. `accrued`, `paid` and `rounded` are history variables:
rewards that `updatePool` has shared out, rewards transferred, and how often a partial unstake
rounded what counts as settled (`RoundsDown`). A transaction that reverts is an action that is not
enabled; the conditions are operators of their own (`CanUpdate`, `CanUnstake`, `CanClaim`,
`CanViewPending`).

**Actions.** All public functions but `setMetaNode`, role administration and upgrades. The internal
`updatePool` that most functions call first is `UpdatedPool` and is part of each of them.
`withdrawAmount` and `poolLength` are views without a property of their own.

**Runs.**
- `stake_rewards`: two stakers with two tokens each, the ETH pool, an administrator who changes the
  rate, a reward fund that runs dry (1 010 000 states). `TypeOK` (no checked subtraction goes below
  zero), `PaidWithinAccrued` (what is paid is within what was shared out, but for one unit per
  unstake that rounds: see the remarks), and `ViewPredictsClaim`: the `pendingMetaNode` view repeats
  the computation of `updatePool` by hand, and where it answers it shows what claim pays.
  `PendingPaidOrReplaced`: a reward that unstake has set aside shrinks only when its own user's
  claim pays it, as far as the fund goes, and then to nothing, or when that user's next unstake puts
  exactly what was earned since the last settlement in its place.
- `stake_queue`: one staker with up to three requests whose lock periods the administrator swaps,
  beyond the end of the rewards, which the administrator moves (133 000 states).
  `UserFundsConserved`, `LockRespected`, and under `FairSpec` `QueueDrains`. Fairness: blocks go on
  and the staker keeps calling withdraw; the administrator is not fair at all and may pause for
  ever, which the property allows for.
- `stake_pools`: two stakers, an ETH pool and a pool whose token is MetaNode itself, weights changed
  with and without an update, a reward fund of one (151 000 states). `StakeAccounting` (weights and
  stakes add up) and `BooksBalance`: of every token the contract holds what is staked or asked back;
  of MetaNode it holds that and the reward fund, less the rewards paid. Several pools of one token
  are left to the theorems, which allow any number.
- `stake_unstake` (violation): see section 10.

**Remarks.** Four behaviours a reader should know of. `addPool` (`MetaNodeStake.sol:220`) refuses
address zero in the wrong place and nothing else, so that MetaNode can be a pool token; claim then
pays rewards out of the common balance (`MetaNodeStake.sol:457`) and, once the fund is used up, out
of stakes, until a withdraw fails for lack of funds. `BooksBalance` holds all the same, and the
theorem `Solvent` says that this is the only way for stakes to be uncovered. `UserFundsConserved`
and `QueueDrains` say of a MetaNode pool only what such payments leave true. Once a pool has been
updated at or after `endBlock`, `updatePool` reverts (`MetaNodeStake.sol:343`), and so do unstake
and claim until the administrator moves the end; withdraw does not call it, and `QueueDrains` shows
that requests made before are still paid out. A second unstake replaces the pending reward of the
first (`MetaNodeStake.sol:363`) instead of adding to it, and the first is lost;
`PendingPaidOrReplaced` says exactly what takes its place. And not all rounding favours the
contract: a partial unstake rounds `finishedMetaNode` down (`MetaNodeStake.sol:375`), and the staker
earns the lost fraction once more with the rest of the stake. Two stakers of 2 tokens each, at a
rate of 2 and then 1, who both unstake 1 in between are paid 4 where 3 were shared out. `paid <=
accrued` is therefore false; `PaidWithinAccrued` allows one unit for each unstake that rounded, and
is proved with that allowance.

**Bounds.** `Ether`, the fixed-point scale, is 1000 instead of 10^18. It only has to exceed every
quotient of accumulators within the bounds, so that the scale error of section 10 is never made up
for by later rewards, as it is not with 10^18. `MaxPools` and `MaxBlock` bound the pools and the
block number; `Wallet` bounds the number of deposits. It is 2 in `stake_rewards` so that a partial
unstake leaves something behind.

## 5. SPL token program and token manager: `SplTokenProgram`, `TokenManager`

**State.** `mints` (authority, supply) and `balances` belong to the SPL token program, which is
external; `metadata` is the program's own record of a mint (authority, total supply). `payer` and
`mint` are the script's `this.payer` and `this.mint`, `keypairFile` and `mintFile` the contents of
`keypair.json` and `mint-address.txt`, which outlive the process. Three history variables:
`outside`, what was minted minus what was burned without the program; `generated`, the wallets made
so far; and `unsaved`, those that could not be written to the file.

**Actions.** The instructions of the program, each with the checks of the inner call and its own; an
instruction that fails rolls back and is an action that is not enabled. `TokenManager` composes the
program with the script: the script calls the token program directly (`spl_...`), so that its mints
and burns never reach the record. `createToken` has three outcomes once the mint exists: all is
done, the file is not written, or the call gave up waiting and the manager keeps the mint it had.
`initialize` is a new process: it loads the wallet, or generates one and writes the file, which may
fail after `this.payer` is set and leave no file or a damaged one. `main` ignores the result, so the
process goes on with a wallet that is lost when it ends (`Signers`: nobody signs with it any more).
`loadSaved` is what most commands do first: they load the mint the file names. `get_token_info` and
the manager's queries only print; airdrops are left out.

**Run.** `token_manager`: one other key, two wallets, two mints, amounts 1 and 2, and a u64 that
ends at 2, so that the checked operations fail on either copy (838 000 states).
`RecordedSupplyExact`, `SavedMintIsOurs`, `HandoverMovesRecordOnly`. A burn through the program of
tokens that were minted past it can fail with MathUnderflow, because the record is smaller than the
supply; this is within `RecordedSupplyExact`.

**Remarks.** `update_mint_authority` changes only the record. `lib.rs:123-128` speaks of a transfer
of the authority, and of "Mint authority disabled" when there is no new one. But afterwards the
recorded authority is not the mint's: the new holder cannot mint through the program, and the old
one still mints by calling the token program. `HandoverMovesRecordOnly` states what is left of the
claim: nothing is minted through the program while the two differ, and the mint keeps its authority.
A mint whose wallet could not be saved (`token-manager.js:34`, `:300`) stays in `mint-address.txt`
although nobody can mint on it; `SavedMintIsOurs` names these wallets as its only exception.

## 6. Runtime of the demo chain: `TemplatePallet`, `SolochainRuntime`

**State.** `Something` and `dispatch` are the template pallet's stored number and the result of the
last call. The runtime adds balances, total issuance and nonces (an account exists as long as it has
a balance; one that falls below the existential deposit is reaped, with its nonce), the number of
the block and the weight it has used, the block numbers whose hash is kept, and the transaction
pool. `signed`, `life` and `included` are history variables: the extrinsics that exist, how often an
account was reaped, and what is in the chain.

**Actions.** `create_benchmark_extrinsic` is the node's own helper for its benchmarks and signs with
a mortal era of half the remembered hashes; `new_signed` is any other client, who chooses the period
or an immortal era (`Immortal`, signed against block 0): `TxExtension` accepts both; `submit` offers
any signed one to the pool, as often as anybody likes; `revalidate` removes what has become invalid;
`initialize_block`, `apply_extrinsic` and `finalize_block` build a block. `Invalidity` is the
`TxExtension` tuple in its order. An extrinsic that is applied takes its fee and its nonce, then
dispatches into the template, balances or sudo pallet; a failing call is rolled back as a whole.
FRAME is external and is modelled as far as this configuration decides what it does. There are no
forks, and runtime upgrades are left out.

**Run.** `runtime`: three accounts of the development preset, two extrinsics out of all that may be
signed, mortal or immortal, seven blocks, eras of four blocks and five remembered hashes, balances
of 8 with a deposit of 2, so that one transfer kills an account and another revives it (1 428 000
states). `LedgerBalanced`, `EachNonceOncePerLife`; `BirthBlockIsKnown` (the halving of the period in
`benchmarking.rs:110` is what makes the era of the helper end before its first hash is forgotten; a
client with a longer period is refused earlier than its era says); `ReplayOnlyWithinEra`, which says
how far a nonce protects: a reaped and revived account starts from nonce 0 again, so an old
extrinsic can be applied a second time, in another life of the account and, if it is mortal, within
the same era. Nothing bounds this for an immortal extrinsic: it can be applied once in each life of
its signer, for ever.

`PoolDrains` is liveness under `FairSpec`: blocks are begun and finished while there are authorities
(`WF(initialize_block)`, `WF(finalize_block)`), and the pool revalidates after every new best block.
Since it does so between two blocks only, its fairness is strong: weak fairness would ask nothing of
it as long as the chain goes on. That an extrinsic is included is not assumed. The property is about
mortal extrinsics; an immortal one with a nonce whose turn never comes stays in the pool. That
failed calls are rolled back is FRAME's doing and written into `CallEffect`; it is not a property.

**Bounds.** `MaxBirth` stops the signing after the first blocks, `MaxSigned` counts the extrinsics,
and `MaxBlock` is past the end of every era that can still be signed. `MaxPower`, 4096, is where the
loop for the next power of two stops in the model; `RuntimeAssumption` keeps `BlockHashCount` (2400
in the code) below it. When the chain has reached it and the pool is empty nothing is left to do,
hence no deadlock check. Weights and fees are small numbers in the order of the real ones (a write
costs one, the length of an extrinsic one).

## 7. Nodes: `NodeService`

**State.** Per machine: the phase of its process, its configuration (authority, grandpa, off-chain
worker, telemetry), how many steps of `new_partial` or `new_full` it has completed, its tasks,
whether the task manager has learned of the end of an essential task, and the keystore on disk. For
the chain: slot, clock within the slot, slots since the last block, and how far into its slot that
block's timestamp lies. `service` says whose `service.rs` the network runs, the demo chain's or the
example chain's; the two differ in the order of the start-up, in what can fail, and in the keystore
given to the GRANDPA voter.

**Actions.** `StartStep` and `StartFails` go through the start-up one call at a time, the second at
each question mark of the code; `run_command` is what `command.rs` does with only the partial
components; `TaskEnds`, `TakenDown` and `Killed` are failures; `Author` is the aura task with the
timestamp inherent of `create_inherent_data_providers` and the runtime's check that it lies in the
slot claimed. `InsertKeys` and the guard `MayValidate` are the operator's part: he runs at most one
validator with the keys at a time. No code enforces that rule, and without it any two validators
sign with one key; what the model asks is whether the code breaks it on its own.

**Run.** `nodes`: two machines, either service, the one authority of the development chain,
validators and full nodes, with roles that change at each start (628 000 states). `TypeOK` includes
that no process has a task its role does not account for (`RolesKept`). `OneSignerPerKey`: a
validator that was moved away and comes back as a full node with its old keystore keeps quiet. The
demo node gives the voter a keystore only as an authority; the example node gives it always
(`service.rs:300`, under a comment at line 286 that says otherwise), and the property names this as
its only exception. `InherentFitsSlot`: pushing a timestamp to `MinimumPeriod` after the last one
never pushes it out of the slot. `NoCrippledNode` is liveness: a node that is up and has lost its
pool, import queue, authoring or voter goes down, also when the task died during the start-up.
Fairness: a process goes on with its start-up and its task manager is polled, which is what the
runtime that awaits it does.

**Bounds.** With a slot of four ticks `MinimumPeriod` is two: after a block in the last tick of its
slot, an author in the first tick of the next has its timestamp pushed. (With two ticks this never
happens.) The local testnet's two authorities and two keys are left to the proofs, which hold for
every slot length, both chains and any number of machines.

## 8. Solana client: `SolanaTransfer`

**State.** The program: where it is (`pc`), the blockhash it took, its last valid height, the
attempts made, the signature `TransferSOL` returned. The cluster is external: confirmed and
finalized heights, the payer's balance, requested airdrops, transactions in flight, those that moved
the amount and those executed and failed. A transaction is named by its blockhash, because all other
fields are the same in each run and signing is deterministic. `abandoned` is a history variable:
transactions of runs that ended with an error.

**Actions.** The steps of `main` in order; `sendTransaction` with the preflight check on the
finalized state, a broken connection before or after the node has the transaction, and the
confirmation that arrives or times out. `AttemptFails` is the end of a loop round: `shouldRetry`
lets only "Blockhash not found" be tried again. The cluster loses, delays, executes and forgets.

**Run.** `solana_client`: three runs of three attempts while blockhashes expire after two blocks
(973 000 states). `ReportedSignatureMoved`, `ReportIsFinal`, and under `FairSpec` `RunEnds`.
Fairness is `WF(ProgramStep)` only: calls return or fail, sleeps end and subscriptions time out; of
the cluster nothing is assumed, and the user need not press Enter. No deadlock check: with all runs
made and the user gone, everything has stopped.

**A remark.** After the last failed attempt `TransferSOL` leaves its loop and returns the signature
without an error (`utils.go:126`), so that `main` (`main.go:88`) prints a success for a transfer
that never took place. The signature is then the zero one, because only a refusal is tried again;
this is why `ReportedSignatureMoved` speaks of the signatures that are not zero.

## 9. Proofs

Eight modules hold the proofs: `VotingPallet_proof`, `AssetRegistry_proof`, `TokenManager_proof`,
`NodeService_proof`, `SolanaTransfer_proof`, `MetaNodeStake_proof` and `SolochainRuntime_proof`, one
per component, and `SumTheorems`, the lemmas they share. They prove every invariant and every action
property that a passing run checks, and the refinement of `Ballot`, for every set of accounts,
stakers or machines, every configuration and every size of u32 or u64, under the named assumptions
of the modules (`VotingAssumption`, `NoneIsNoProposal`, `RegistryAssumption`, `NoneIsNoAsset`,
`TokenAssumption`, `NoneIsNoAccount`, `WalletAssumption`, `NodeAssumption`, `ClientAssumption`,
`StakeAssumption`, `TemplateAssumption`, `RuntimeAssumption`: the configuration consists of natural
numbers, voters and stakers are finite in number, a slot has at least two ticks, ether is not a
token, the fixed-point scale is not zero, and None is not a value). TLC evaluates the assumptions in
every run.

**Voting.** `TypeCorrect`, `TallyCorrect`, `FreshIds`, `VotesPermanent`, `ClosedFinal`,
`WinnerCorrect`, `WritesPaid`, `BallotImplemented`. The inductive invariant is `TypeOK /\
TallyMatchesVotes /\ NextIdIsFresh`. The tally alone is not inductive: that a vote adds one
supporter needs `AlreadyVoted` and the finiteness of the accounts, and the types keep the counter a
natural number. `NextIdIsFresh` says what `create_proposal` finds at the id it takes.
`WinnerCorrect` is an induction over the options counted so far: the loop holds the first of the
highest counts among them. `WritesPaid` bounds the number of entries that differ by naming them.
`BallotImplemented` maps every accepted call to its step of `Ballot` and every refusal to a stutter.
It adds to the invariant that votes are for options the proposal has (`VotesForOptions`), and it has
two hypotheses, `MaxProposals <= U32Max` and no more accounts than `U32Max`: without them an id or a
counter saturates and the pallet no longer does what `Ballot` says.

**Registry.** `TypeCorrect`, `OwnerIndexCorrect`, `SymbolIndexCorrect`, `QuotaCorrect`,
`LivesRespected`, `WritesPaid`. The inductive invariant is `TypeOK /\ NextIdIsFresh /\
OwnerIndexAgrees /\ SymbolIndexAgrees /\ CountCoversHoldings`. A registration keeps the indexes
right only because its id is in none of them (`NextIdIsFresh`); a transfer keeps the count above the
holdings only because the old owner really had the asset filed under it (`OwnerIndexAgrees`).
`LivesRespected` needs `NextIdIsFresh` again, since a registration must not fall on a live record.

**Token.** `TypeCorrect`, `SupplyCorrect`, `SavedMintCorrect`, `HandoverLimits`. The inductive
invariant adds to the three run invariants that nothing has gone past the program for a mint that
does not exist yet, without which `initialize_mint` would not start with equal supplies, and that
the wallet of a process is the one in the file or one that was never written (`PayerIsSaved`),
without which a mint could be saved under a wallet that is neither. `HandoverLimits` needs it too:
that a record belongs to an existing mint is part of `RecordedSupplyExact`.

**Nodes.** `TypeCorrect`, `OneSigner`, `TimestampInSlot`. The inductive invariant is `Types /\
RolesKept`, which is `TypeOK`, and that at most one authority holds keys (`OneValidator`).
`OneSignerPerKey` alone is not inductive: a process that has not spawned its aura task yet signs
nothing, and would be one start-up step away from a second signer. `TimestampInSlot` is arithmetic
over the types: the last timestamp is less than a slot into its slot, and half a slot more is at
most one slot further.

**Solana client.** `TypeCorrect`, `ReportedMoved`, `ReportFinal`. The inductive invariant is `TypeOK
/\ Progress /\ NoneForgotten /\ Reports`: where the program is bounds the attempts it has made; a
transaction in flight that has not landed is the one waited for or is among the abandoned; and a
report names a transaction that has landed, or none. The first is what makes the last retry stop at
`maxRetries`, the second what rules out a transaction in flight after a refusal.

**Staking.** `TypeCorrect`, `StakesAccounted`, `FundsConserved`, `BooksBalanced`, `Solvent`,
`LocksRespected`, `PendingAccounted`, `ViewIsRight`, `RewardsBounded`. The inductive invariant is
`TypeInv /\ UnusedPoolsAreEmpty /\ StakeAccounting /\ UserFundsConserved /\ BooksBalance`. The types
need the sums (a stake, a weight or a balance covers what is subtracted from it because it is a sum
with that summand), the sums need the types, and `addPool` needs the slot it fills to be empty.
Every call of a staker has the same shape, a record and a pool replaced and tokens moved
(`UserCall`), and one lemma about that shape carries the four sums. `Solvent` follows from the last:
what is staked or asked back is covered, unless the token is MetaNode and more rewards were paid
than the fund held. The action properties follow from `EveryRecordStep`, which lists the four things
a step can do to one user's record. `RewardsBounded` needs a second invariant, `RewardInv`, on top
of the first. `RewardsCovered` counts in parts of 1 ether: what was paid, plus what all stakers may
still be paid (`AllOwed`), is within what was shared out plus one unit per rounding. Each call is
shown to move its staker's part by no more than it adds to the right-hand side: `updatePool` shares
out at most the reward because a quotient is rounded down, `_deposit` never raises what its staker
is owed even though it stores the settled reward in the wrong scale, unstake raises it by less than
one unit and only when it rounds, and claim pays out of it. `NoStakeNothingSettled` is what
`_deposit` relies on when it skips the subtraction for a staker without stake. Nothing is asked of
the scale but that it is positive.

**Runtime.** `LedgerAlwaysBalanced`, `NoncesUsedOnce`, `ReplayBounded`, `BirthBlockAlwaysKnown`. The
inductive invariant is `TypeInv /\ HashesKept /\ BornInThePast /\ ImmortalFromGenesis /\
LedgerBalanced /\ LivesInOrder /\ OncePerLife /\ WithinEra /\ EachNonceOncePerLife`: which hashes
are kept is determined by the block and block 0's always is, no extrinsic is born in the future and
the immortal ones at block 0, and what is included belongs to no later life than the account's own,
once per life and within its era. `EachNonceOncePerLife` alone is not inductive, since reaping an
account starts a life about which it would know nothing. The accounts are the three of the presets;
deposit, endowment, transfers, weight limit, the periods that clients choose and the length of the
chain are arbitrary. `BirthBlockAlwaysKnown` has the hypothesis `BlockHashCount >= 2`: with 1,
`Era::mortal` would raise the period to its minimum of 4, past the hashes that are kept. The code
has 2400.

**Induction.** The library's induction theorems take a predicate that the provers cannot
instantiate. `SumTheorems` states induction over sets instead (a set of naturals that holds 0 and
with each number the next holds them all; likewise for the subsets of a finite set), from which it
derives the equation of the fold behind `SumFunctionOnSet`, of functions defined by recursion on a
counter, and from those the facts about sums that the proofs use: a sum over a finite set does not
depend on the order, changes by as much as one of its summands, splits over an interval, and grows
by at most what its summands grow by. The counting loop of `end_proposal`, the loop of `withdraw`
and the sums over users, pools, requests and accounts are proved with these for every input.

**Only model-checked.** Liveness (`EveryProposalCloses`, `QueueDrains`, `PoolDrains`,
`NoCrippledNode`, `RunEnds`), which rests on fairness and ENABLED, and the two violation runs.

## 10. Findings

- `MetaNodeStake.sol:299`: `_deposit` stores `finishedMetaNode` without the division by 1 ether, so
  that unstake and claim underflow after a deposit into a pool that has earned (`stake_unstake`).
- `asset-registry/src/lib.rs:466`: a transfer to oneself raises the count (`registry_count`).

## 11. Not modelled

- In MetaNodeStake: `setMetaNode`, roles and upgrades (the reward token and the administrator are
  fixed).
- In the demo chain: networking, block import, consensus and finality themselves (the framework);
  metadata, session keys, benchmarking and try-runtime entry points, which only hand over to it.
- The runtime of the example chain configures neither the bounds nor the weights that its voting and
  asset-registry pallets require and does not build; the pallets are modelled on their own. The node
  beside it lacks `command.rs`; its `service.rs` is modelled as written.
- `task4/solana-demo/spl-token-program` is a retyped copy of the modelled SPL program with misspelt
  identifiers that does not compile.
- `WaitForConfirmation` of the Solana client, which nothing calls.
- The Ethereum clients and the Solidity contracts of the courses other than MetaNodeStake (Store,
  MyToken, Counter, Meme, LiquidityPool, Arithmetic, Voting, BeggingContract, MyERC20, MyNFT), and
  the algorithms: small programs without a counterpart among the components above. See the plan.
- Deployment and front-end scripts (input and output), generated bindings and third-party code,
  logging and event texts.

## 12. Plan

1. EthereumClient with Store and Counter: transactions that are mined later or dropped.
2. BeggingContract with its list of donors, Meme with its limits and tax, the Solidity Voting.
3. Algorithms and the arithmetic variants against reference definitions.

The bounds follow one rule: two or three actors, each counter cut off just past the first edge it
can reach.
