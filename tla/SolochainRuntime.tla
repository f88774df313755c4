---------------------------- MODULE SolochainRuntime ----------------------------
(* The runtime of the demo chain (task4/substrate-demo/runtime): signed         *)
(* extrinsics with a nonce and an era, the transaction pool, and blocks         *)
(* that apply them through the TxExtension pipeline to the balances, sudo and   *)
(* template pallets.  FRAME itself is external: it is modelled as far as the    *)
(* runtime's configuration decides what it does.                                *)
(*                                                                              *)
(* One chain without forks.  While a block is being built the pool keeps        *)
(* validating against the parent; a transaction that arrives then is taken to   *)
(* have arrived before.  Signatures, versions and the genesis hash are always   *)
(* this chain's own.                                                            *)
EXTENDS TemplatePallet, FiniteSets, FiniteSetsExt

CONSTANTS
    alice, bob, charlie,    \* well-known accounts
    Preset,                 \* the genesis preset: "development" or "local_testnet"
    Endowment,              \* genesis balance of an endowed account (1 << 60)
    ExistentialDeposit,     \* EXISTENTIAL_DEPOSIT
    BlockHashCount,         \* how many block hashes the chain keeps
    NormalWeight,           \* weight that the signed extrinsics of a block may use
    Signers,                \* accounts that sign extrinsics in this instance
    Values,                 \* values offered to do_something
    Transfers,              \* destinations and amounts offered to the transfers
    ClientPeriods,          \* periods that clients choose for their eras
    Reset,                  \* accounts that sudo may set the balance of
    MaxBlock,               \* bound: the chain stops at this block
    MaxBirth,               \* bound: clients sign up to this block
    MaxSigned               \* bound: how many extrinsics clients sign

\* Bound: the largest power of two that the model looks at (BlockHashCount is 2400).
MaxPower == 4096

ASSUME RuntimeAssumption ==
    /\ Accounts = {alice, bob, charlie} /\ Cardinality(Accounts) = 3
    /\ Preset \in {"development", "local_testnet"}
    /\ ExistentialDeposit \in Nat \ {0}
    /\ Endowment \in Nat /\ Endowment >= ExistentialDeposit
    /\ BlockHashCount \in 1 .. MaxPower
    /\ NormalWeight \in Nat
    /\ Values \subseteq 0 .. U32Max
    /\ Signers \subseteq Accounts /\ Reset \subseteq Accounts
    /\ ClientPeriods \subseteq Nat
    /\ Transfers \subseteq [dest: Accounts, value: Nat]
    /\ MaxBlock \in Nat /\ MaxBirth \in Nat /\ MaxSigned \in Nat

\* Everybody of the keyring but One and Two is endowed on the local testnet,
\* and only four accounts (alice and bob among them) on the development chain.
EndowedAccounts ==
    IF Preset = "development" THEN {alice, bob} ELSE {alice, bob, charlie}

SudoKey == alice

Calls ==
    {[name |-> "do_something", value |-> v] : v \in Values}
    \cup {[name |-> "cause_error"]}
    \cup {[name |-> t, dest |-> d.dest, value |-> d.value] :
            t \in {"transfer_allow_death", "transfer_keep_alive"}, d \in Transfers}
    \cup {[name |-> "sudo", call |-> c] :
            c \in {[name |-> "do_something", value |-> v] : v \in Values}
                  \cup {[name |-> "force_set_balance", who |-> a, value |-> 0] : a \in Reset}}

\* The period that create_benchmark_extrinsic asks for, half the next power of
\* two above BlockHashCount, and what Era::mortal makes of it: at least 4.
Powers == {1, 2, 4, 8, 16, 32, 64, 128, 256, 512, 1024, 2048, MaxPower}
NextPowerOfTwo(n) == Min({q \in Powers : q >= n})

\* Mutant of Period: the period is not halved.
Period_NotHalved == Max({4, NextPowerOfTwo(BlockHashCount)})

Period == Max({4, NextPowerOfTwo(NextPowerOfTwo(BlockHashCount) \div 2)})

\* The period that stands for Era::Immortal, whose first block is block 0.
Immortal == 0

\* An era is its first block, at this scale not rounded, and its period.
Extrinsic == [signer: Accounts, nonce: Nat, call: Calls, birth: 0 .. MaxBlock, period: Nat]

VARIABLES
    block,      \* number of the best block, or of the block being built
    building,   \* a block is being built
    weight,     \* weight used by the block being built
    hashes,     \* numbers of the blocks whose hash is kept (System BlockHash)
    balance,    \* account -> free balance; 0 if the account does not exist
    issuance,   \* Balances TotalIssuance
    nonce,      \* account -> System account nonce
    pool,       \* extrinsics in the transaction pool
    signed,     \* history: extrinsics that exist, in anybody's hands
    life,       \* history: account -> how often it was reaped
    included    \* history: the extrinsics in the chain, with block and life

chain == <<block, building, weight, hashes>>
ledger == <<balance, issuance, nonce, Something, dispatch, life, included>>
vars == <<chain, ledger, pool, signed>>

Init ==
    /\ block = 0 /\ building = FALSE /\ weight = 0 /\ hashes = {0}
    /\ balance = [a \in Accounts |-> IF a \in EndowedAccounts THEN Endowment ELSE 0]
    /\ issuance = Endowment * Cardinality(EndowedAccounts)
    /\ nonce = [a \in Accounts |-> 0]
    /\ Something = None /\ dispatch = Ok
    /\ pool = {} /\ signed = {}
    /\ life = [a \in Accounts |-> 0]
    /\ included = {}

-----------------------------------------------------------------------------
(* Weights and fees: the fee is the weight of the call plus the length of the  *)
(* extrinsic, here 1 (IdentityFee for both, multiplier one).                   *)

Weight(call) ==
    CASE call.name = "do_something" -> do_something_weight
      [] call.name = "cause_error" -> cause_error_weight
      [] OTHER -> 2

Fee(call) == Weight(call) + 1

\* CheckEra: the era is over (an immortal one never is), or the hash of its
\* first block is not kept.
EraError(x, n) ==
    IF x.period # Immortal /\ n >= x.birth + x.period THEN "BadProof"
    ELSE IF x.birth \notin hashes THEN "AncientBirthBlock"
    ELSE Ok

\* Mutant of NonceError: a nonce that was used already is accepted.
NonceError_AcceptsOld(x) ==
    IF balance[x.signer] = 0 THEN "Payment"
    ELSE IF x.nonce > nonce[x.signer] THEN "Future"
    ELSE Ok

\* CheckNonce; an account that does not exist cannot pay for its nonce.
NonceError(x) ==
    IF balance[x.signer] = 0 THEN "Payment"
    ELSE IF x.nonce < nonce[x.signer] THEN "Stale"
    ELSE IF x.nonce > nonce[x.signer] THEN "Future"
    ELSE Ok

\* ChargeTransactionPayment: the fee must leave the existential deposit.
PaymentError(x) ==
    IF balance[x.signer] < Fee(x.call) + ExistentialDeposit THEN "Payment" ELSE Ok

\* Mutant of Invalidity: CheckEra is missing from the TxExtension pipeline.
Invalidity_NoCheckEra(x, n, w) ==
    IF NonceError(x) \notin {Ok, "Future"} THEN NonceError(x)
    ELSE IF w + Weight(x.call) > NormalWeight THEN "ExhaustsResources"
    ELSE PaymentError(x)

\* The validation of the TxExtension pipeline in its order, for block n with w
\* of its weight used.  A nonce whose turn has not come yet is no obstacle.
Invalidity(x, n, w) ==
    IF EraError(x, n) # Ok THEN EraError(x, n)
    ELSE IF NonceError(x) \notin {Ok, "Future"} THEN NonceError(x)
    ELSE IF w + Weight(x.call) > NormalWeight THEN "ExhaustsResources"
    ELSE PaymentError(x)

-----------------------------------------------------------------------------
(* Dispatch.  held are the balances once the fee was taken; an effect is the   *)
(* balances that a call leaves and what it takes out of the total issuance.    *)

NoEffect(held) == [held |-> held, burned |-> 0]

\* balances.transfer_allow_death and transfer_keep_alive.
TransferError(c, origin, held) ==
    IF origin = Root THEN "BadOrigin"
    ELSE IF c.value > held[origin] THEN "FundsUnavailable"
    ELSE IF /\ c.name = "transfer_keep_alive"
            /\ held[origin] - c.value < ExistentialDeposit
         THEN "NotExpendable"
    ELSE IF held[c.dest] + c.value < ExistentialDeposit THEN "BelowMinimum"
    ELSE Ok

\* Mutant of TransferEffect: the dust is left in the account.
TransferEffect_KeepsDust(c, origin, held) ==
    IF origin = c.dest THEN NoEffect(held)
    ELSE [held |-> [held EXCEPT ![origin] = @ - c.value, ![c.dest] = @ + c.value], burned |-> 0]

\* What is left below the deposit is dust: the account is reaped, the dust burned.
TransferEffect(c, origin, held) ==
    LET left == held[origin] - c.value
        dust == IF left < ExistentialDeposit THEN left ELSE 0
    IN  IF origin = c.dest THEN NoEffect(held)
        ELSE [held |-> [held EXCEPT ![origin] = left - dust, ![c.dest] = @ + c.value],
              burned |-> dust]

\* balances.force_set_balance, for root only.
ForceEffect(c, held) ==
    LET new == IF c.value < ExistentialDeposit THEN 0 ELSE c.value
    IN  [held |-> [held EXCEPT ![c.who] = new], burned |-> held[c.who] - new]

BalancesError(c, origin, held) ==
    IF c.name = "force_set_balance"
    THEN IF origin = Root THEN Ok ELSE "BadOrigin"
    ELSE TransferError(c, origin, held)

IsTemplate(c) == c.name \in {"do_something", "cause_error"}

\* The template calls do not touch the balances; a failed call touches nothing.
CallEffect(c, origin, held) ==
    IF IsTemplate(c) \/ BalancesError(c, origin, held) # Ok THEN NoEffect(held)
    ELSE IF c.name = "force_set_balance" THEN ForceEffect(c, held)
    ELSE TransferEffect(c, origin, held)

Dispatch(c, origin, held) ==
    CASE c.name = "do_something" -> do_something(origin, c.value)
      [] c.name = "cause_error" -> cause_error(origin)
      [] OTHER -> dispatch' = BalancesError(c, origin, held) /\ UNCHANGED Something

-----------------------------------------------------------------------------
(* Clients and the transaction pool.                                           *)

\* A client reads the account's nonce and signs for it or for the one after.
Sign(x) ==
    /\ Cardinality(signed) < MaxSigned /\ block <= MaxBirth /\ ~building
    /\ x.nonce \in {nonce[x.signer], nonce[x.signer] + 1}
    /\ signed' = signed \cup {x}
    /\ UNCHANGED <<chain, ledger, pool>>

\* The node's own helper, meant for its benchmarks: an era that begins at the
\* best block.
create_benchmark_extrinsic(signer, call, n) ==
    Sign([signer |-> signer, nonce |-> n, call |-> call, birth |-> block, period |-> Period])

\* Any other client chooses the era, which may be immortal: TxExtension accepts both.
new_signed(signer, call, n, p) ==
    Sign([signer |-> signer, nonce |-> n, call |-> call,
          birth |-> IF p = Immortal THEN 0 ELSE block, period |-> p])

\* Anybody who has an extrinsic may submit it, again too.  The pool validates
\* it for the next block and keeps it if it is valid then or once its turn comes.
validate_transaction(x) == Invalidity(x, block + 1, 0)

submit(x) ==
    /\ ~building /\ x \in signed \ pool
    /\ validate_transaction(x) = Ok
    /\ pool' = pool \cup {x}
    /\ UNCHANGED <<chain, ledger, signed>>

\* The pool drops what is not valid any more.
revalidate(x) ==
    /\ ~building /\ x \in pool
    /\ validate_transaction(x) # Ok
    /\ pool' = pool \ {x}
    /\ UNCHANGED <<chain, ledger, signed>>

-----------------------------------------------------------------------------
(* Blocks.                                                                     *)

\* The hash of the parent becomes known when the next block is initialized.
initialize_block ==
    /\ ~building /\ block < MaxBlock
    /\ building' = TRUE
    /\ block' = block + 1
    /\ weight' = 0
    /\ UNCHANGED <<hashes, ledger, pool, signed>>

\* A valid extrinsic is included: its nonce is used and its fee taken before
\* the call runs, and both stay so if the call fails.  A sudo call of the sudo
\* key is free of charge: the fee is given back, to an account that still exists.
apply_extrinsic(x) ==
    LET s == x.signer
        sudo == x.call.name = "sudo"
        refused == sudo /\ s # SudoKey
        call == IF sudo THEN x.call.call ELSE x.call
        origin == IF sudo THEN Root ELSE s
        fee == Fee(x.call)
        held == [balance EXCEPT ![s] = @ - fee]
        effect == IF refused THEN NoEffect(held) ELSE CallEffect(call, origin, held)
        refund == IF sudo /\ ~refused /\ effect.held[s] > 0 THEN fee ELSE 0
        reaped == {a \in Accounts : balance[a] > 0 /\ effect.held[a] = 0}
    IN  /\ building /\ x \in pool
        /\ NonceError(x) = Ok /\ Invalidity(x, block, weight) = Ok
        /\ weight' = weight + Weight(x.call)
        /\ IF refused THEN Fail("RequireSudo") ELSE Dispatch(call, origin, held)
        /\ balance' = [effect.held EXCEPT ![s] = @ + refund]
        /\ issuance' = issuance - (fee - refund) - effect.burned
        /\ nonce' = [a \in Accounts |-> IF a \in reaped THEN 0
                                        ELSE IF a = s THEN nonce[a] + 1 ELSE nonce[a]]
        /\ life' = [a \in Accounts |-> IF a \in reaped THEN life[a] + 1 ELSE life[a]]
        /\ included' = included \cup {[xt |-> x, block |-> block, life |-> life[s]]}
        /\ pool' = pool \ {x}
        /\ UNCHANGED <<block, building, hashes, signed>>

\* Finalizing a block forgets the hash that is BlockHashCount blocks older than
\* its parent (never that of block 0); the block's own hash is then known.
finalize_block ==
    /\ building
    /\ building' = FALSE
    /\ hashes' = (hashes \cup {block}) \ ({block - BlockHashCount - 1} \ {0})
    /\ UNCHANGED <<block, weight, ledger, pool, signed>>

Next ==
    \/ \E a \in Signers, c \in Calls :
         \E n \in {nonce[a], nonce[a] + 1} :
            \/ create_benchmark_extrinsic(a, c, n)
            \/ \E p \in ClientPeriods : new_signed(a, c, n, p)
    \/ \E x \in signed : submit(x)
    \/ \E x \in pool : revalidate(x) \/ apply_extrinsic(x)
    \/ initialize_block
    \/ finalize_block

Spec == Init /\ [][Next]_vars

\* Blocks are begun and finished as long as there are authorities.  The pool is
\* maintained on every new best block: between two blocks it gets to revalidate
\* again and again, so strong fairness is what this amounts to; weak fairness
\* would say nothing, as no validation is pending while a block is built.
FairSpec ==
    /\ Spec
    /\ WF_vars(initialize_block)
    /\ WF_vars(finalize_block)
    /\ SF_vars(\E x \in pool : revalidate(x))

-----------------------------------------------------------------------------
(* Properties.                                                                 *)

\* No account holds less than the existential deposit, and the total issuance
\* is what the accounts hold: fees, dust and sudo's corrections leave no unit
\* behind and create none, also when the signer reaps itself, pays for a call
\* that fails, or gets its fee back.
LedgerBalanced ==
    /\ \A a \in Accounts : balance[a] = 0 \/ balance[a] >= ExistentialDeposit
    /\ issuance = SumFunctionOnSet(balance, Accounts)

\* The extrinsics that an account got into the chain since it was last reaped.
OfThisLife(a) == {i \in included : i.xt.signer = a /\ i.life = life[a]}

\* Since an account came to life its extrinsics were included exactly once per
\* nonce and without a gap, however often they are submitted again, signed for
\* a stale nonce or signed twice for the same one.
EachNonceOncePerLife ==
    \A a \in Accounts :
        /\ {i.xt.nonce : i \in OfThisLife(a)} = 0 .. nonce[a] - 1
        /\ Cardinality(OfThisLife(a)) = nonce[a]

\* An account that is reaped and endowed again starts from nonce 0, so that its
\* old extrinsics are valid again: two inclusions of one extrinsic are of
\* different lives.  Only mortality bounds this: they are in blocks of the same
\* era.  An immortal extrinsic may be replayed in every later life, for ever.
ReplayOnlyWithinEra ==
    \A i, j \in included : i.xt = j.xt /\ i # j =>
        /\ i.life # j.life
        /\ i.xt.period # Immortal => i.block - j.block < i.xt.period

\* As long as its era lasts, an extrinsic of the node's helper is not refused
\* because the chain has forgotten the block it was signed against; nor is an
\* immortal one, ever.  (A client that chooses a longer period may be.)
BirthBlockIsKnown ==
    \A x \in signed : x.period <= Period =>
        EraError(x, IF building THEN block ELSE block + 1) # "AncientBirthBlock"

\* Once clients stop signing, the pool gets rid of every mortal extrinsic: each
\* is included or becomes invalid, none waits for ever for a nonce, for a block
\* with room or for an endowment of its signer.  An immortal extrinsic with a
\* nonce whose turn never comes does stay.
PoolDrains == <>[](\A x \in pool : x.period = Immortal)

=============================================================================
