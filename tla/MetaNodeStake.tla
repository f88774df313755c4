----------------------------- MODULE MetaNodeStake -----------------------------
(* The staking contract (task2/metanode-stake/contracts/MetaNodeStake.sol):    *)
(* pools of ETH or of an ERC20 token, rewards in MetaNode per block shared by   *)
(* stake, unstake requests that unlock after a number of blocks, and an        *)
(* administrator who tunes the pools and pauses withdrawals and claims.        *)
(*                                                                             *)
(* A transaction that reverts changes nothing: it is an action that is not     *)
(* enabled.  Where a property is about reverting, the conditions under which a *)
(* call goes through are named operators (CanUpdate, CanUnstake, ...).         *)
(* Amounts stay far below 2^256, so only the checked subtractions and          *)
(* divisions can fail, never an addition or a multiplication.                  *)
EXTENDS Integers, Sequences, FiniteSets, Functions

CONSTANTS
    Users,          \* the stakers
    ETH,            \* address(0): the native currency
    StakeTokens,    \* the ERC20 tokens that can be staked; MetaNode may be one of them
    MetaNode,       \* the reward token
    Ether,          \* 1 ether: the fixed-point scale of accMetaNodePerST
    Wallet,         \* what every user owns of every token at first
    RewardFund,     \* MetaNode that the contract holds for rewards at first
    Amounts,        \* amounts offered to deposit and unstake
    PoolWeights,    \* weights offered to addPool and setPoolWeight
    MinDeposits,    \* minimum deposits offered to addPool and updatePool
    LockBlocks,     \* lock periods offered to addPool and updatePool
    Rates,          \* rewards per block offered to setMetaNodePerBlock
    StartBlocks,    \* first reward blocks offered to initialize, setStartBlock
    EndBlocks,      \* last reward blocks offered to initialize, setEndBlock
    MaxPools,       \* bound: number of pools
    MaxBlock        \* bound: last block number

ASSUME StakeAssumption ==
    /\ IsFiniteSet(Users)
    /\ ETH \notin StakeTokens \cup {MetaNode}
    /\ Ether \in Nat \ {0}
    /\ Wallet \in Nat /\ RewardFund \in Nat
    /\ Amounts \subseteq Nat /\ PoolWeights \subseteq Nat
    /\ MinDeposits \subseteq Nat /\ LockBlocks \subseteq Nat
    /\ Rates \subseteq Nat /\ StartBlocks \subseteq Nat /\ EndBlocks \subseteq Nat
    /\ MaxPools \in Nat /\ MaxBlock \in Nat

VARIABLES
    block,              \* block.number
    poolCount,          \* pools.length
    pools,              \* pid -> Pool
    users,              \* pid -> user -> User
    schedule,           \* startBlock, endBlock, metaNodePerBlock
    totalWeight,
    withdrawPaused,
    claimPaused,
    balance,            \* token -> what the contract holds of it
    wallet,             \* user -> token -> what the user holds of it
    accrued,            \* history: MetaNode shared out by updatePool so far
    paid,               \* history: MetaNode transferred by claim so far
    rounded             \* history: how often unstake rounded what counts as settled

vars == <<block, poolCount, pools, users, schedule, totalWeight, withdrawPaused,
          claimPaused, balance, wallet, accrued, paid, rounded>>
config == <<poolCount, schedule, totalWeight, withdrawPaused, claimPaused>>
funds == <<users, balance, wallet, paid, rounded>>

PoolIds == 0 .. MaxPools - 1
Pids == 0 .. poolCount - 1
ETH_PID == 0
PoolTokens == StakeTokens \cup {ETH}
AllTokens == PoolTokens \cup {MetaNode}

NoPool == [poolAddress |-> ETH, poolWeight |-> 0, minDepositAmount |-> 0,
           lastRewardBlock |-> 0, accMetaNodePerST |-> 0, stTokenAmount |-> 0,
           unstakeLockedBlocks |-> 0]

NoUser == [amount |-> 0, finishedMetaNode |-> 0, pendingMetaNode |-> 0, requests |-> <<>>]

Minimum(a, b) == IF a < b THEN a ELSE b
Maximum(a, b) == IF a > b THEN a ELSE b

\* The state after initialize(); the pools are added by addPool.
Init ==
    /\ block = 0
    /\ poolCount = 0
    /\ pools = [pid \in PoolIds |-> NoPool]
    /\ users = [pid \in PoolIds |-> [u \in Users |-> NoUser]]
    /\ schedule \in [startBlock: StartBlocks, endBlock: EndBlocks, metaNodePerBlock: Rates]
    /\ totalWeight = 0
    /\ withdrawPaused = FALSE
    /\ claimPaused = FALSE
    /\ balance = [t \in AllTokens |-> IF t = MetaNode THEN RewardFund ELSE 0]
    /\ wallet = [u \in Users |-> [t \in AllTokens |-> Wallet]]
    /\ accrued = 0
    /\ paid = 0
    /\ rounded = 0

AdvanceBlock ==
    /\ block < MaxBlock
    /\ block' = block + 1
    /\ UNCHANGED <<config, pools, funds, accrued>>

-----------------------------------------------------------------------------
(* Rewards: getMultiplier and the internal updatePool. *)

FirstBlock(from) == Maximum(from, schedule.startBlock)
LastBlock(to) == Minimum(to, schedule.endBlock)

\* getMultiplier(to, from) reverts unless some reward block lies between.
CanMultiply(to, from) == to >= from /\ FirstBlock(from) < LastBlock(to)
getMultiplier(to, from) == (LastBlock(to) - FirstBlock(from)) * schedule.metaNodePerBlock

UpToDate(pid) == block <= pools[pid].lastRewardBlock

CanUpdate(pid) ==
    UpToDate(pid) \/ (CanMultiply(block, pools[pid].lastRewardBlock) /\ totalWeight > 0)

PoolReward(pid) ==
    IF UpToDate(pid) THEN 0
    ELSE (getMultiplier(block, pools[pid].lastRewardBlock) * pools[pid].poolWeight) \div totalWeight

\* A pool without stake gets its clock moved and its share of the reward lost.
UpdatedPool(pid) ==
    [pools[pid] EXCEPT
        !.accMetaNodePerST =
            IF pools[pid].stTokenAmount > 0
            THEN @ + (PoolReward(pid) * Ether) \div pools[pid].stTokenAmount ELSE @,
        !.lastRewardBlock = Maximum(@, block)]

\* What updatePool shares out among the stakers of the pool.
SharedOut(pid) == IF pools[pid].stTokenAmount > 0 THEN PoolReward(pid) ELSE 0

CanMassUpdate == \A pid \in Pids : CanUpdate(pid)
MassUpdated == [pid \in PoolIds |-> IF pid \in Pids THEN UpdatedPool(pid) ELSE pools[pid]]

massUpdatePools ==
    /\ CanMassUpdate
    /\ pools' = MassUpdated
    /\ accrued' = accrued + SumFunctionOnSet([pid \in Pids |-> SharedOut(pid)], Pids)
    /\ UNCHANGED <<block, config, funds>>

-----------------------------------------------------------------------------
(* The administrator's calls. *)

\* Nothing keeps the reward token from being staked in a pool.
addPool(token, weight, minDeposit, locked) ==
    /\ poolCount < MaxPools
    /\ (poolCount > 0) = (token # ETH)
    /\ pools' = [pools EXCEPT ![poolCount] =
            [poolAddress |-> token, poolWeight |-> weight, minDepositAmount |-> minDeposit,
             lastRewardBlock |-> Maximum(block, schedule.startBlock),
             accMetaNodePerST |-> 0, stTokenAmount |-> 0, unstakeLockedBlocks |-> locked]]
    /\ totalWeight' = totalWeight + weight
    /\ poolCount' = poolCount + 1
    /\ UNCHANGED <<block, schedule, withdrawPaused, claimPaused, funds, accrued>>

updatePool(pid, minDeposit, locked) ==
    /\ pools' = [pools EXCEPT ![pid].minDepositAmount = minDeposit,
                              ![pid].unstakeLockedBlocks = locked]
    /\ UNCHANGED <<block, config, funds, accrued>>

\* Mutant of ReweightedTotal: the pool's old weight stays in the total.
ReweightedTotal_KeepsOld(pid, weight) == totalWeight + weight

ReweightedTotal(pid, weight) == totalWeight - pools[pid].poolWeight + weight

\* Without withUpdate_ the new weight also applies to the blocks since each
\* pool's last update.
setPoolWeight(pid, weight, withUpdate) ==
    /\ weight > 0
    /\ withUpdate => CanMassUpdate
    /\ pools' = [(IF withUpdate THEN MassUpdated ELSE pools) EXCEPT ![pid].poolWeight = weight]
    /\ accrued' = IF withUpdate
                  THEN accrued + SumFunctionOnSet([p \in Pids |-> SharedOut(p)], Pids)
                  ELSE accrued
    /\ totalWeight' = ReweightedTotal(pid, weight)
    /\ UNCHANGED <<block, poolCount, schedule, withdrawPaused, claimPaused, funds>>

SetSchedule(new) ==
    /\ schedule' = new
    /\ UNCHANGED <<block, poolCount, pools, totalWeight, withdrawPaused, claimPaused,
                   funds, accrued>>

setMetaNodePerBlock(rate) == SetSchedule([schedule EXCEPT !.metaNodePerBlock = rate])

setStartBlock(start) ==
    /\ start <= schedule.endBlock
    /\ SetSchedule([schedule EXCEPT !.startBlock = start])

setEndBlock(end) ==
    /\ end >= schedule.startBlock
    /\ SetSchedule([schedule EXCEPT !.endBlock = end])

\* pausedWithdraw, unpauseWithdraw, pauseClaim and unpauseClaim: each requires
\* the opposite state.
SetPauses(withdrawing, claiming) ==
    /\ withdrawPaused' = withdrawing
    /\ claimPaused' = claiming
    /\ UNCHANGED <<block, poolCount, schedule, totalWeight, pools, funds, accrued>>

pausedWithdraw == ~withdrawPaused /\ SetPauses(TRUE, claimPaused)
unpauseWithdraw == withdrawPaused /\ SetPauses(FALSE, claimPaused)
pauseClaim == ~claimPaused /\ SetPauses(withdrawPaused, TRUE)
unpauseClaim == claimPaused /\ SetPauses(withdrawPaused, FALSE)

-----------------------------------------------------------------------------
(* The stakers' calls. *)

\* Moves amount of a token between a user and the contract.
Pay(u, token, amount) ==
    /\ balance' = [balance EXCEPT ![token] = @ - amount]
    /\ wallet' = [wallet EXCEPT ![u][token] = @ + amount]

\* Mutant of Deposited: a further deposit replaces the stake.
Deposited_Overwrites(user, acc, amount) ==
    [user EXCEPT !.amount = amount, !.finishedMetaNode = amount * acc]

\* The accounting of a deposit.  What the stake has earned and what counts as
\* settled are stored without the division by 1 ether.
Deposited(user, acc, amount) ==
    LET earned == IF user.amount > 0 THEN user.amount * acc - user.finishedMetaNode ELSE 0
    IN  [user EXCEPT !.pendingMetaNode = @ + earned,
                     !.amount = @ + amount,
                     !.finishedMetaNode = (user.amount + amount) * acc]

_deposit(u, pid, amount) ==
    LET user == users[pid][u]
        pool == UpdatedPool(pid)
    IN  /\ CanUpdate(pid)
        /\ user.amount > 0 => user.amount * pool.accMetaNodePerST >= user.finishedMetaNode
        /\ wallet[u][pool.poolAddress] >= amount
        /\ users' = [users EXCEPT ![pid][u] = Deposited(user, pool.accMetaNodePerST, amount)]
        /\ pools' = [pools EXCEPT ![pid] = [pool EXCEPT !.stTokenAmount = @ + amount]]
        /\ Pay(u, pool.poolAddress, 0 - amount)
        /\ accrued' = accrued + SharedOut(pid)
        /\ UNCHANGED <<block, config, paid, rounded>>

depositETH(u, amount) ==
    /\ ETH_PID \in Pids
    /\ pools[ETH_PID].poolAddress = ETH
    /\ amount >= pools[ETH_PID].minDepositAmount
    /\ _deposit(u, ETH_PID, amount)

deposit(u, pid, amount) ==
    /\ pid # ETH_PID
    /\ amount > pools[pid].minDepositAmount
    /\ _deposit(u, pid, amount)

\* Mutant of Settled: rounds up.
Settled_RoundsUp(amount, acc) == (amount * acc + Ether - 1) \div Ether

\* What a stake has earned so far at the given accumulator, in whole tokens.
Settled(amount, acc) == (amount * acc) \div Ether

CanUnstake(u, pid, amount) ==
    /\ amount <= users[pid][u].amount
    /\ CanUpdate(pid)
    /\ Settled(users[pid][u].amount, UpdatedPool(pid).accMetaNodePerST)
          >= users[pid][u].finishedMetaNode

\* Mutant of Unstaked: the stake is not reduced.
Unstaked_KeepsStake(user, acc, amount, unlockBlock) ==
    [user EXCEPT
        !.requests = IF amount > 0
                     THEN Append(@, [amount |-> amount, unlockBlock |-> unlockBlock]) ELSE @,
        !.finishedMetaNode = Settled(user.amount, acc)]

\* Mutant of Unstaked: the reward is replaced even if nothing was earned since.
Unstaked_DropsPending(user, acc, amount, unlockBlock) ==
    [user EXCEPT
        !.pendingMetaNode = Settled(user.amount, acc) - user.finishedMetaNode,
        !.amount = @ - amount,
        !.requests = IF amount > 0
                     THEN Append(@, [amount |-> amount, unlockBlock |-> unlockBlock]) ELSE @,
        !.finishedMetaNode = Settled(user.amount - amount, acc)]

\* A reward that is still pending is replaced by the one earned since.
Unstaked(user, acc, amount, unlockBlock) ==
    LET earned == Settled(user.amount, acc) - user.finishedMetaNode
    IN  [user EXCEPT
            !.pendingMetaNode = IF earned > 0 THEN earned ELSE @,
            !.amount = @ - amount,
            !.requests = IF amount > 0
                         THEN Append(@, [amount |-> amount, unlockBlock |-> unlockBlock]) ELSE @,
            !.finishedMetaNode = Settled(user.amount - amount, acc)]

\* The division by 1 ether loses a fraction of what the rest of a stake has been
\* settled for, and the staker earns that fraction again.
RoundsDown(user, acc, amount) ==
    amount > 0 /\ ((user.amount - amount) * acc) % Ether # 0

unstake(u, pid, amount) ==
    LET pool == UpdatedPool(pid)
        acc == pool.accMetaNodePerST
    IN  /\ CanUnstake(u, pid, amount)
        /\ users' = [users EXCEPT ![pid][u] = Unstaked(@, acc, amount,
                                                       block + pool.unstakeLockedBlocks)]
        /\ pools' = [pools EXCEPT ![pid] = [pool EXCEPT !.stTokenAmount = @ - amount]]
        /\ accrued' = accrued + SharedOut(pid)
        /\ rounded' = rounded + IF RoundsDown(users[pid][u], acc, amount) THEN 1 ELSE 0
        /\ UNCHANGED <<block, config, balance, wallet, paid>>

SumAmounts(requests) == SumFunction([i \in DOMAIN requests |-> requests[i].amount])

\* Mutants of popNum: unlocked requests are counted wherever they stand; the
\* loop stops at the first unlocked request instead of the first locked one.
popNum_Counts(requests) ==
    Cardinality({i \in DOMAIN requests : requests[i].unlockBlock <= block})

popNum_Reversed(requests) ==
    CHOOSE n \in 0 .. Len(requests) :
        /\ \A i \in 1 .. n : requests[i].unlockBlock > block
        /\ n < Len(requests) => requests[n + 1].unlockBlock <= block

\* How many requests withdraw pops: those before the first one still locked.
popNum(requests) ==
    CHOOSE n \in 0 .. Len(requests) :
        /\ \A i \in 1 .. n : requests[i].unlockBlock <= block
        /\ n < Len(requests) => requests[n + 1].unlockBlock > block

\* The transfer fails, and with it the call, if the contract holds too little.
withdraw(u, pid) ==
    LET requests == users[pid][u].requests
        n == popNum(requests)
        pendingWithdraw == SumAmounts(SubSeq(requests, 1, n))
    IN  /\ ~withdrawPaused
        /\ pendingWithdraw <= balance[pools[pid].poolAddress]
        /\ users' = [users EXCEPT ![pid][u].requests = SubSeq(@, n + 1, Len(@))]
        /\ Pay(u, pools[pid].poolAddress, pendingWithdraw)
        /\ UNCHANGED <<block, config, pools, accrued, paid, rounded>>

\* Mutant of CanClaim: the subtraction is not checked.
CanClaim_Unchecked(u, pid) == ~claimPaused /\ CanUpdate(pid)

CanClaim(u, pid) ==
    /\ ~claimPaused
    /\ CanUpdate(pid)
    /\ Settled(users[pid][u].amount, UpdatedPool(pid).accMetaNodePerST)
          >= users[pid][u].finishedMetaNode

\* _safeMetaNodeTransfer pays what is owed or, if less, all the MetaNode there
\* is: where MetaNode is staked as well, the stakes are not set apart.
claim(u, pid) ==
    LET user == users[pid][u]
        pool == UpdatedPool(pid)
        settled == Settled(user.amount, pool.accMetaNodePerST)
        reward == Minimum(settled - user.finishedMetaNode + user.pendingMetaNode,
                          balance[MetaNode])
    IN  /\ CanClaim(u, pid)
        /\ users' = [users EXCEPT ![pid][u].pendingMetaNode = 0,
                                  ![pid][u].finishedMetaNode = settled]
        /\ pools' = [pools EXCEPT ![pid] = pool]
        /\ Pay(u, MetaNode, reward)
        /\ paid' = paid + reward
        /\ accrued' = accrued + SharedOut(pid)
        /\ UNCHANGED <<block, config, rounded>>

\* pendingMetaNode: the accumulator it computes on its own, without writing
\* it, and the answer.  It divides by the pool's stake without looking whether
\* there is any, and reverts if it cannot divide or subtract.
ViewedAccumulator(pid) ==
    IF UpToDate(pid) THEN pools[pid].accMetaNodePerST
    ELSE LET metaNodeForPool == (getMultiplier(block, pools[pid].lastRewardBlock)
                                    * pools[pid].poolWeight) \div totalWeight
         IN  pools[pid].accMetaNodePerST
                + (metaNodeForPool * Ether) \div pools[pid].stTokenAmount

CanViewPending(pid, u) ==
    /\ UpToDate(pid) \/ (CanUpdate(pid) /\ pools[pid].stTokenAmount > 0)
    /\ Settled(users[pid][u].amount, ViewedAccumulator(pid)) >= users[pid][u].finishedMetaNode

\* Mutant of pendingMetaNode: what unstake has set aside is left out.
pendingMetaNode_Forgets(pid, u) ==
    Settled(users[pid][u].amount, ViewedAccumulator(pid)) - users[pid][u].finishedMetaNode

pendingMetaNode(pid, u) ==
    Settled(users[pid][u].amount, ViewedAccumulator(pid))
        - users[pid][u].finishedMetaNode + users[pid][u].pendingMetaNode

-----------------------------------------------------------------------------
AdminNext ==
    \/ \E token \in PoolTokens, weight \in PoolWeights, minDeposit \in MinDeposits,
          locked \in LockBlocks : addPool(token, weight, minDeposit, locked)
    \/ \E pid \in Pids, minDeposit \in MinDeposits, locked \in LockBlocks :
          updatePool(pid, minDeposit, locked)
    \/ \E pid \in Pids, weight \in PoolWeights, withUpdate \in BOOLEAN :
          setPoolWeight(pid, weight, withUpdate)
    \/ \E rate \in Rates : setMetaNodePerBlock(rate)
    \/ \E start \in StartBlocks : setStartBlock(start)
    \/ \E end \in EndBlocks : setEndBlock(end)
    \/ pausedWithdraw
    \/ unpauseWithdraw
    \/ pauseClaim
    \/ unpauseClaim

UserNext ==
    \/ \E u \in Users, amount \in Amounts : depositETH(u, amount)
    \/ \E u \in Users, pid \in Pids, amount \in Amounts : deposit(u, pid, amount)
    \/ \E u \in Users, pid \in Pids, amount \in Amounts : unstake(u, pid, amount)
    \/ \E u \in Users, pid \in Pids : withdraw(u, pid)
    \/ \E u \in Users, pid \in Pids : claim(u, pid)
    \/ massUpdatePools

Next == AdvanceBlock \/ AdminNext \/ UserNext

Spec == Init /\ [][Next]_vars

\* Blocks go on, and every staker with a request keeps calling withdraw.
FairSpec ==
    /\ Spec
    /\ WF_vars(AdvanceBlock)
    /\ \A u \in Users, pid \in PoolIds : WF_vars(pid \in Pids /\ withdraw(u, pid))

-----------------------------------------------------------------------------
(* Properties. *)

Request == [amount: Nat \ {0}, unlockBlock: Nat]

\* Storage and balances keep their types; in particular no balance, stake or
\* debt goes below zero, and no empty request is queued.
TypeOK ==
    /\ block \in 0 .. MaxBlock
    /\ poolCount \in 0 .. MaxPools
    /\ pools \in [PoolIds -> [poolAddress: PoolTokens, poolWeight: Nat, minDepositAmount: Nat,
                             lastRewardBlock: Nat, accMetaNodePerST: Nat, stTokenAmount: Nat,
                             unstakeLockedBlocks: Nat]]
    /\ \A pid \in PoolIds, u \in Users :
          /\ users[pid][u].amount \in Nat
          /\ users[pid][u].finishedMetaNode \in Nat
          /\ users[pid][u].pendingMetaNode \in Nat
          /\ users[pid][u].requests \in Seq(Request)
    /\ schedule \in [startBlock: Nat, endBlock: Nat, metaNodePerBlock: Nat]
    /\ totalWeight \in Nat
    /\ withdrawPaused \in BOOLEAN /\ claimPaused \in BOOLEAN
    /\ balance \in [AllTokens -> Nat]
    /\ wallet \in [Users -> [AllTokens -> Nat]]
    /\ accrued \in Nat /\ paid \in Nat /\ rounded \in Nat

\* The pool's stTokenAmount, by which rewards are divided, is the sum of its
\* users' stakes, and totalWeight the sum of the pools' weights.
StakeAccounting ==
    /\ \A pid \in PoolIds :
          pools[pid].stTokenAmount = SumFunction([u \in Users |-> users[pid][u].amount])
    /\ totalWeight = SumFunction([pid \in PoolIds |-> pools[pid].poolWeight])

\* What user u has in the pools that stake the token: stakes and requests.
InContract(u, token) ==
    SumFunction([pid \in {p \in Pids : pools[p].poolAddress = token} |->
                    users[pid][u].amount + SumAmounts(users[pid][u].requests)])

\* Staked tokens are never lost, created or moved to somebody else: wallet,
\* stake and requests of a user always add up to what the user came with,
\* through deposits, partial unstakes, withdrawals that pop part of a queue,
\* two pools of the same token, and every change the administrator makes.
\* Of MetaNode they add up to at least that, since rewards come on top.
UserFundsConserved ==
    \A u \in Users, token \in PoolTokens :
        LET total == wallet[u][token] + InContract(u, token)
        IN  total >= Wallet /\ (token # MetaNode => total = Wallet)

\* What the contract holds of a token once the reward fund is set aside.  For
\* MetaNode the difference is negative when rewards were paid out of stakes.
HeldForStakers(token) ==
    IF token = MetaNode THEN balance[token] + paid - RewardFund ELSE balance[token]

\* The contract's balance of every token is exactly what its users have staked
\* or asked back and, of MetaNode, what claims have left of the reward fund:
\* claim and withdraw pay from one balance and nothing else drains it.  The
\* stakes of every other token are therefore covered at any time.  Those of a
\* MetaNode pool, which addPool does not refuse, are covered only as long as
\* the rewards paid do not exceed the fund; after that claims are paid out of
\* the stakes, and the last to withdraw are refused.
BooksBalance ==
    \A token \in AllTokens :
        HeldForStakers(token) = SumFunction([u \in Users |-> InContract(u, token)])

\* Rewards paid out never exceed what updatePool has shared out to the
\* stakers, whatever the order of deposits, unstakes, claims, weight changes
\* and rate changes, and although deposit and unstake disagree on the scale of
\* what they store.  All rounding is in the contract's favour but one: an
\* unstake that leaves part of a stake may give its user up to one unit twice.
PaidWithinAccrued == paid <= accrued + rounded

\* A queue of unstake requests changes only at its ends: withdraw pops a
\* prefix of requests that are unlocked, unstake appends one that unlocks
\* after the pool's lock period, and nobody's queue changes otherwise.
LockRespected ==
    [][\A pid \in PoolIds, u \in Users :
          LET old == users[pid][u].requests
              new == users'[pid][u].requests
          IN  \/ new = old
              \/ /\ Len(new) = Len(old) + 1
                 /\ SubSeq(new, 1, Len(old)) = old
                 /\ new[Len(new)].unlockBlock = block + pools[pid].unstakeLockedBlocks
              \/ /\ ~withdrawPaused
                 /\ \E n \in 1 .. Len(old) :
                       /\ new = SubSeq(old, n + 1, Len(old))
                       /\ \A i \in 1 .. n : old[i].unlockBlock <= block]_vars

\* Where the pendingMetaNode view answers, it predicts the claim made in the
\* same block: claim pays the amount it shows, or what is left in the contract.
ViewPredictsClaim ==
    [][\A pid \in Pids, u \in Users :
          claim(u, pid) /\ CanViewPending(pid, u) =>
              paid' = paid + Minimum(pendingMetaNode(pid, u), balance[MetaNode])]_vars

\* A pending reward gets smaller in two ways only.  A claim of its owner pays
\* it, as far as the contract's MetaNode goes, and leaves nothing pending.  Or
\* an unstake of its owner replaces it by exactly what the stake has earned
\* since it was last settled, and settles the rest of the stake; the older
\* reward is then lost, which is what line 363 does.  It never shrinks in any
\* other way, and it is not dropped when nothing was earned since.
PendingPaidOrReplaced ==
    [][\A pid \in PoolIds, u \in Users :
          LET old == users[pid][u]
              new == users'[pid][u]
              acc == pools'[pid].accMetaNodePerST
              owed == Minimum(old.pendingMetaNode, balance[MetaNode])
          IN  new.pendingMetaNode < old.pendingMetaNode =>
                \/ /\ new.pendingMetaNode = 0
                   /\ paid' >= paid + owed
                   /\ wallet'[u][MetaNode] >= wallet[u][MetaNode] + owed
                \/ /\ new.pendingMetaNode > 0
                   /\ new.pendingMetaNode = Settled(old.amount, acc) - old.finishedMetaNode
                   /\ new.finishedMetaNode = Settled(new.amount, acc)]_vars

HeadUnlocks(pid, u, b) ==
    users[pid][u].requests # <<>> /\ users[pid][u].requests[1].unlockBlock = b

\* Unless the administrator pauses withdrawals, the request at the head of a
\* queue is paid out once its block is reached: no queue is stuck.  (A pool of
\* MetaNode is left out: claims may have emptied it.)
QueueDrains ==
    \A pid \in PoolIds, u \in Users, b \in 0 .. MaxBlock :
        (HeadUnlocks(pid, u, b) /\ pools[pid].poolAddress # MetaNode)
            ~> (~HeadUnlocks(pid, u, b) \/ withdrawPaused)

=============================================================================
