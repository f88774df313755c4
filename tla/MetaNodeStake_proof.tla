-------------------------- MODULE MetaNodeStake_proof --------------------------
(* Machine-checked proofs about the staking contract, for every set of users   *)
(* and tokens, every amount, weight, rate and lock period and any number of    *)
(* pools and blocks.                                                           *)
EXTENDS MetaNodeStake, SumTheorems, SequenceTheorems

-----------------------------------------------------------------------------
(* The inductive invariant. *)

\* A Pool and a User of the contract, with their types.
PoolRecord ==
    [poolAddress: PoolTokens, poolWeight: Nat, minDepositAmount: Nat, lastRewardBlock: Nat,
     accMetaNodePerST: Nat, stTokenAmount: Nat, unstakeLockedBlocks: Nat]

UserRecord ==
    [amount: Nat, finishedMetaNode: Nat, pendingMetaNode: Nat, requests: Seq(Request)]

\* TypeOK with the shape of users spelled out: TypeOK only reads its fields.
TypeInv ==
    /\ block \in 0 .. MaxBlock
    /\ poolCount \in 0 .. MaxPools
    /\ pools \in [PoolIds -> PoolRecord]
    /\ users \in [PoolIds -> [Users -> UserRecord]]
    /\ schedule \in [startBlock: Nat, endBlock: Nat, metaNodePerBlock: Nat]
    /\ totalWeight \in Nat
    /\ withdrawPaused \in BOOLEAN /\ claimPaused \in BOOLEAN
    /\ balance \in [AllTokens -> Nat]
    /\ wallet \in [Users -> [AllTokens -> Nat]]
    /\ accrued \in Nat /\ paid \in Nat /\ rounded \in Nat

\* A slot that addPool has not filled yet holds no weight and no record.
UnusedPoolsAreEmpty ==
    \A pid \in PoolIds \ Pids :
        /\ pools[pid].poolWeight = 0
        /\ users[pid] = [u \in Users |-> NoUser]

\* The inductive invariant.  None of its parts is inductive alone: TypeInv needs the
\* two sums to know that a stake, a weight or a balance covers what is subtracted
\* from it, and the sums need TypeInv to be sums of numbers.
Inv ==
    /\ TypeInv
    /\ UnusedPoolsAreEmpty
    /\ StakeAccounting
    /\ UserFundsConserved
    /\ BooksBalance

-----------------------------------------------------------------------------
(* Arithmetic, and the rewards. *)

\* Products and quotients of naturals are naturals.
LEMMA ProductNat ==
    ASSUME NEW a \in Nat, NEW b \in Nat
    PROVE  a * b \in Nat
  OBVIOUS

\* A quotient is a natural too, as long as the divisor is not zero.
LEMMA QuotientNat ==
    ASSUME NEW a \in Nat, NEW b \in Nat \ {0}
    PROVE  a \div b \in Nat
  OBVIOUS

\* Nothing shared out is nothing for each.
LEMMA ZeroQuotient ==
    ASSUME NEW a, a = 0, NEW b \in Nat, NEW c \in Nat \ {0}
    PROVE  (a * b) \div c = 0
  OBVIOUS

\* The type invariant of the model follows.
LEMMA TypeInvTypeOK == TypeInv => TypeOK
  BY DEF TypeInv, TypeOK, PoolRecord, UserRecord

\* Where updatePool goes through, the reward is a natural: neither the span of
\* blocks nor the division fails.
LEMMA RewardNat ==
    ASSUME TypeInv, NEW pid \in PoolIds, CanUpdate(pid)
    PROVE  PoolReward(pid) \in Nat /\ SharedOut(pid) \in Nat
  <1>1. CASE UpToDate(pid)
    BY <1>1 DEF PoolReward, SharedOut
  <1>2. CASE ~UpToDate(pid)
    <2> DEFINE span == LastBlock(block) - FirstBlock(pools[pid].lastRewardBlock)
    <2>1. totalWeight \in Nat \ {0} /\ schedule.metaNodePerBlock \in Nat
          /\ pools[pid].poolWeight \in Nat /\ pools[pid].lastRewardBlock \in Nat
          /\ block \in Nat /\ schedule.startBlock \in Nat /\ schedule.endBlock \in Nat
      BY <1>2 DEF TypeInv, CanUpdate, PoolRecord
    <2>2. span \in Nat
      BY <1>2, <2>1 DEF CanUpdate, CanMultiply, LastBlock, FirstBlock, Maximum, Minimum
    <2> HIDE DEF span
    <2>3. span * schedule.metaNodePerBlock \in Nat
      BY <2>1, <2>2, ProductNat
    <2>4. (span * schedule.metaNodePerBlock) * pools[pid].poolWeight \in Nat
      BY <2>1, <2>3, ProductNat
    <2>5. PoolReward(pid)
            = ((span * schedule.metaNodePerBlock) * pools[pid].poolWeight) \div totalWeight
      BY <1>2 DEF PoolReward, getMultiplier, span
    <2>6. PoolReward(pid) \in Nat
      BY <2>1, <2>4, <2>5, QuotientNat
    <2> QED BY <2>6 DEF SharedOut
  <1> QED BY <1>1, <1>2

\* updatePool writes the accumulator and the clock of the pool and nothing else.
LEMMA UpdatedPoolFields ==
    ASSUME TypeInv, NEW pid \in PoolIds, CanUpdate(pid)
    PROVE  /\ UpdatedPool(pid) \in PoolRecord
           /\ UpdatedPool(pid).poolAddress = pools[pid].poolAddress
           /\ UpdatedPool(pid).poolWeight = pools[pid].poolWeight
           /\ UpdatedPool(pid).stTokenAmount = pools[pid].stTokenAmount
           /\ UpdatedPool(pid).unstakeLockedBlocks = pools[pid].unstakeLockedBlocks
  <1>1. pools[pid] \in PoolRecord /\ block \in Nat
    BY DEF TypeInv
  <1>2. PoolReward(pid) \in Nat /\ Ether \in Nat
    BY RewardNat, StakeAssumption
  <1> DEFINE acc == IF pools[pid].stTokenAmount > 0
                    THEN pools[pid].accMetaNodePerST
                            + (PoolReward(pid) * Ether) \div pools[pid].stTokenAmount
                    ELSE pools[pid].accMetaNodePerST
             last == Maximum(pools[pid].lastRewardBlock, block)
  <1>3. acc \in Nat
    <2>1. PoolReward(pid) * Ether \in Nat
      BY <1>2, ProductNat
    <2>2. pools[pid].accMetaNodePerST \in Nat /\ pools[pid].stTokenAmount \in Nat
      BY <1>1 DEF PoolRecord
    <2>3. pools[pid].stTokenAmount > 0
              => (PoolReward(pid) * Ether) \div pools[pid].stTokenAmount \in Nat
      BY <2>1, <2>2, QuotientNat
    <2> QED BY <2>2, <2>3
  <1>4. last \in Nat
    BY <1>1 DEF Maximum, PoolRecord
  <1>5. UpdatedPool(pid) = [pools[pid] EXCEPT !.accMetaNodePerST = acc, !.lastRewardBlock = last]
    BY DEF UpdatedPool
  <1> HIDE DEF acc, last
  <1> QED BY <1>1, <1>3, <1>4, <1>5 DEF PoolRecord

-----------------------------------------------------------------------------
(* The queue of unstake requests. *)

\* The amounts in a queue add up to a natural.
LEMMA QueueSumNat ==
    ASSUME NEW q \in Seq(Request)
    PROVE  SumAmounts(q) \in Nat
  <1> DEFINE f == [i \in DOMAIN q |-> q[i].amount]
  <1>1. IsFiniteSet(DOMAIN f) /\ \A i \in DOMAIN f : f[i] \in Nat
    <2>1. DOMAIN f = 1 .. Len(q) /\ Len(q) \in Nat
      OBVIOUS
    <2>2. IsFiniteSet(1 .. Len(q))
      BY <2>1, FS_Interval
    <2>3. \A i \in 1 .. Len(q) : q[i] \in Request
      OBVIOUS
    <2> QED BY <2>1, <2>2, <2>3 DEF Request
  <1>2. SumAmounts(q) = SumFunctionOnSet(f, DOMAIN f)
    BY DEF SumAmounts, SumFunction
  <1> HIDE DEF f
  <1> QED BY <1>1, <1>2, SumNat

\* An empty queue holds nothing.
LEMMA QueueSumEmpty == SumAmounts(<<>>) = 0
  <1> DEFINE f == [i \in DOMAIN <<>> |-> (<<>>)[i].amount]
  <1>1. DOMAIN f = {}
    OBVIOUS
  <1>2. SumAmounts(<<>>) = SumFunctionOnSet(f, DOMAIN f)
    BY DEF SumAmounts, SumFunction
  <1> HIDE DEF f
  <1> QED BY <1>1, <1>2, SumEmpty

\* unstake: a request at the end adds its amount.
LEMMA QueueSumAppend ==
    ASSUME NEW q \in Seq(Request), NEW r \in Request
    PROVE  SumAmounts(Append(q, r)) = SumAmounts(q) + r.amount
  <1> DEFINE n == Len(q)
             new == Append(q, r)
             f == [i \in DOMAIN q |-> q[i].amount]
             g == [i \in DOMAIN new |-> new[i].amount]
  <1>1. n \in Nat /\ DOMAIN f = 1 .. n /\ DOMAIN g = 1 .. n + 1
    OBVIOUS
  <1>2. \A i \in 1 .. n + 1 : g[i] \in Int
    <2>1. \A i \in 1 .. n + 1 : new[i] \in Request
      OBVIOUS
    <2> QED BY <1>1, <2>1 DEF Request
  <1>3. (\A i \in 1 .. n : f[i] = g[i]) /\ g[n + 1] = r.amount
    BY <1>1
  <1>4. SumAmounts(q) = SumFunctionOnSet(f, 1 .. n)
    BY <1>1 DEF SumAmounts, SumFunction
  <1>5. SumAmounts(new) = SumFunctionOnSet(g, 1 .. n + 1)
    BY <1>1 DEF SumAmounts, SumFunction
  <1> HIDE DEF f, g, n, new
  <1>6. SumFunctionOnSet(g, 1 .. n + 1) = SumFunctionOnSet(g, 1 .. n) + g[n + 1]
    BY <1>1, <1>2, SumIntervalStep
  <1>7. SumFunctionOnSet(f, 1 .. n) = SumFunctionOnSet(g, 1 .. n)
    <2>1. IsFiniteSet(1 .. n)
      BY <1>1, FS_Interval
    <2> QED BY <1>3, <2>1, SumSame
  <1> QED BY <1>3, <1>4, <1>5, <1>6, <1>7 DEF new

\* What stood in a queue stands there after a request is appended.
LEMMA AppendKeepsPrefix ==
    ASSUME NEW q \in Seq(Request), NEW r \in Request
    PROVE  SubSeq(Append(q, r), 1, Len(q)) = q
  <1> DEFINE new == Append(q, r)
             old == SubSeq(new, 1, Len(q))
  <1>1. Len(q) \in Nat /\ Len(new) = Len(q) + 1 /\ \A i \in 1 .. Len(q) : new[i] = q[i]
    OBVIOUS
  <1>2. \A i \in 1 .. Len(q) : new[i] \in Request
    OBVIOUS
  <1> HIDE DEF new
  <1>3. /\ old \in Seq(Request)
        /\ Len(old) = IF 1 <= Len(q) THEN Len(q) - 1 + 1 ELSE 0
        /\ \A i \in 1 .. Len(q) - 1 + 1 : old[i] = new[1 + i - 1]
    BY <1>1, <1>2, SubSeqProperties
  <1>4. Len(q) - 1 + 1 = Len(q) /\ \A i \in 1 .. Len(q) : 1 + i - 1 = i
    BY <1>1
  <1> HIDE DEF old
  <1>5. Len(old) = Len(q) /\ \A i \in 1 .. Len(q) : old[i] = q[i]
    BY <1>1, <1>3, <1>4
  <1>6. old = q
    BY <1>3, <1>5, SeqEqual
  <1> QED BY <1>6 DEF old, new

\* withdraw: what is popped and what stays add up to what there was.
LEMMA QueueSumSplit ==
    ASSUME NEW q \in Seq(Request), NEW n \in 0 .. Len(q)
    PROVE  /\ SubSeq(q, 1, n) \in Seq(Request)
           /\ SubSeq(q, n + 1, Len(q)) \in Seq(Request)
           /\ SumAmounts(q) = SumAmounts(SubSeq(q, 1, n)) + SumAmounts(SubSeq(q, n + 1, Len(q)))
  <1> DEFINE m == Len(q)
             k == m - n
             popped == SubSeq(q, 1, n)
             left == SubSeq(q, n + 1, m)
             f == [i \in DOMAIN q |-> q[i].amount]
             g == [i \in DOMAIN popped |-> popped[i].amount]
             h == [i \in DOMAIN left |-> left[i].amount]
  <1>1. m \in Nat /\ n \in Nat /\ k \in Nat /\ n + k = m /\ n <= m /\ DOMAIN q = 1 .. m
    OBVIOUS
  <1>2. popped \in Seq(Request) /\ DOMAIN popped = 1 .. n
        /\ \A i \in 1 .. n : popped[i] = q[i]
    BY <1>1
  <1>3. left \in Seq(Request) /\ DOMAIN left = 1 .. k
        /\ \A i \in 1 .. k : left[i] = q[n + i]
    <2>1. \A i \in n + 1 .. m : q[i] \in Request
      BY <1>1
    <2>2. /\ left \in Seq(Request)
          /\ Len(left) = IF n + 1 <= m THEN m - (n + 1) + 1 ELSE 0
          /\ \A i \in 1 .. m - (n + 1) + 1 : left[i] = q[(n + 1) + i - 1]
      <3> HIDE DEF m
      <3> QED BY <1>1, <2>1, SubSeqProperties
    <2>3. m - (n + 1) + 1 = k /\ Len(left) = k
      <3> HIDE DEF m
      <3>1. m - (n + 1) + 1 = k /\ (~(n + 1 <= m) => k = 0)
        BY <1>1
      <3> HIDE DEF left, k
      <3> QED BY <2>2, <3>1
    <2>4. \A i \in 1 .. k : (n + 1) + i - 1 = n + i
      BY <1>1
    <2> HIDE DEF left, k, m
    <2>5. DOMAIN left = 1 .. k
      BY <2>2, <2>3
    <2> QED BY <2>2, <2>3, <2>4, <2>5
  <1>4. \A i \in 1 .. m : q[i] \in Request /\ f[i] = q[i].amount /\ f[i] \in Int
    <2>1. \A i \in 1 .. m : q[i] \in Request
      OBVIOUS
    <2> QED BY <1>1, <2>1 DEF Request
  <1>5. /\ SumAmounts(q) = SumFunctionOnSet(f, 1 .. m)
        /\ SumAmounts(popped) = SumFunctionOnSet(g, 1 .. n)
        /\ SumAmounts(left) = SumFunctionOnSet(h, 1 .. k)
    BY <1>1, <1>2, <1>3 DEF SumAmounts, SumFunction
  <1>6. \A i \in 1 .. n : g[i] = f[i]
    BY <1>1, <1>2, <1>4
  <1>7. \A i \in 1 .. k : h[i] \in Int /\ f[n + i] = h[i]
    BY <1>1, <1>3, <1>4
  <1> HIDE DEF f, g, h, k, m, popped, left
  <1>8. SumFunctionOnSet(f, 1 .. m)
           = SumFunctionOnSet(f, 1 .. n) + SumFunctionOnSet(f, n + 1 .. m)
    BY <1>1, <1>4, SumSplit
  <1>9. SumFunctionOnSet(g, 1 .. n) = SumFunctionOnSet(f, 1 .. n)
    <2>1. IsFiniteSet(1 .. n)
      BY <1>1, FS_Interval
    <2> QED BY <1>6, <2>1, SumSame
  <1>10. SumFunctionOnSet(h, 1 .. k) = SumFunctionOnSet(f, n + 1 .. m)
    BY <1>1, <1>7, SumShift, SMTT(30)
  <1> QED BY <1>1, <1>2, <1>3, <1>5, <1>8, <1>9, <1>10 DEF popped, left, m

\* withdraw's loop ends: there is a first request that is still locked, or none.
LEMMA PopNumSpec ==
    ASSUME NEW q \in Seq(Request), block \in Nat
    PROVE  /\ popNum(q) \in 0 .. Len(q)
           /\ \A i \in 1 .. popNum(q) : q[i].unlockBlock <= block
           /\ popNum(q) < Len(q) => q[popNum(q) + 1].unlockBlock > block
  <1> DEFINE Ends(n) == /\ \A i \in 1 .. n : q[i].unlockBlock <= block
                        /\ n < Len(q) => q[n + 1].unlockBlock > block
             Locked == {i \in 1 .. Len(q) : q[i].unlockBlock > block}
  <1>0. Len(q) \in Nat /\ \A i \in 1 .. Len(q) : q[i] \in Request
    OBVIOUS
  <1>1. Len(q) \in Nat /\ \A i \in 1 .. Len(q) : q[i].unlockBlock \in Nat
    BY <1>0 DEF Request
  <1>2. \E n \in 0 .. Len(q) : Ends(n)
    <2>1. CASE Locked = {}
      <3>1. Ends(Len(q))
        BY <1>1, <2>1
      <3> QED BY <1>1, <3>1
    <2>2. CASE Locked # {}
      <3>1. PICK n \in Locked : \A m \in Locked : n <= m
        <4>1. Locked \subseteq Nat
          BY <1>1
        <4> HIDE DEF Locked
        <4> QED BY <2>2, <4>1, LeastNat
      <3>2. n \in 1 .. Len(q) /\ q[n].unlockBlock > block
        OBVIOUS
      <3>3. Ends(n - 1)
        <4>1. \A i \in 1 .. n - 1 : q[i].unlockBlock <= block
          BY <1>1, <3>1, <3>2
        <4> QED BY <1>1, <3>2, <4>1
      <3>4. n - 1 \in 0 .. Len(q)
        BY <1>1, <3>2
      <3> HIDE DEF Ends
      <3> QED BY <3>3, <3>4
    <2> QED BY <2>1, <2>2
  <1>3. popNum(q) = CHOOSE n \in 0 .. Len(q) : Ends(n)
    BY DEF popNum
  <1> HIDE DEF Ends
  <1>4. popNum(q) \in 0 .. Len(q) /\ Ends(popNum(q))
    BY <1>2, <1>3
  <1> QED BY <1>4 DEF Ends

-----------------------------------------------------------------------------
(* What a user has in a pool, and what a call changes of it. *)

\* Stake and requests of a user in one pool.
Held(user) == user.amount + SumAmounts(user.requests)

\* They are naturals.
LEMMA HeldNat ==
    ASSUME NEW user \in UserRecord
    PROVE  Held(user) \in Nat /\ user.amount \in Nat /\ SumAmounts(user.requests) \in Nat
  <1>1. user.requests \in Seq(Request) /\ user.amount \in Nat
    BY DEF UserRecord
  <1>2. SumAmounts(user.requests) \in Nat
    BY <1>1, QueueSumNat
  <1> QED BY <1>1, <1>2 DEF Held

\* The pools in use are finitely many of the slots.
LEMMA PidsArePools ==
    ASSUME TypeInv
    PROVE  Pids \subseteq PoolIds /\ IsFiniteSet(Pids) /\ IsFiniteSet(PoolIds)
  <1>1. poolCount \in Int /\ MaxPools \in Int
    BY StakeAssumption DEF TypeInv
  <1>2. IsFiniteSet(0 .. poolCount - 1) /\ IsFiniteSet(0 .. MaxPools - 1)
    BY <1>1, FS_Interval
  <1>3. 0 .. poolCount - 1 \subseteq 0 .. MaxPools - 1
    BY <1>1, StakeAssumption DEF TypeInv
  <1> QED BY <1>2, <1>3 DEF Pids, PoolIds

\* The pools in use that stake a token, and what a user has in each.
PoolsOf(token) == {p \in Pids : pools[p].poolAddress = token}
HeldIn(u, token) == [pid \in PoolsOf(token) |-> Held(users[pid][u])]

\* InContract is the sum over those pools.
LEMMA InContractIsSum ==
    ASSUME NEW u, NEW token
    PROVE  InContract(u, token) = SumFunctionOnSet(HeldIn(u, token), PoolsOf(token))
  BY DEF InContract, HeldIn, PoolsOf, Held, SumFunction

\* They are finitely many.
LEMMA PoolsOfFinite ==
    ASSUME TypeInv, NEW token
    PROVE  IsFiniteSet(PoolsOf(token)) /\ PoolsOf(token) \subseteq PoolIds
  <1>1. PoolsOf(token) \subseteq Pids
    BY DEF PoolsOf
  <1> QED BY <1>1, PidsArePools, FS_Subset

\* What a user has in the contract is a natural.
LEMMA InContractNat ==
    ASSUME TypeInv, NEW u \in Users, NEW token
    PROVE  /\ InContract(u, token) \in Nat
           /\ \A p \in PoolsOf(token) : HeldIn(u, token)[p] \in Nat
  <1>1. \A p \in PoolsOf(token) : users[p][u] \in UserRecord
    BY PoolsOfFinite DEF TypeInv
  <1>2. \A p \in PoolsOf(token) : HeldIn(u, token)[p] \in Nat
    BY <1>1, HeldNat DEF HeldIn
  <1>3. SumFunctionOnSet(HeldIn(u, token), PoolsOf(token)) \in Nat
    BY <1>2, PoolsOfFinite, SumNat
  <1> QED BY <1>2, <1>3, InContractIsSum

\* A call writes one user's record in one pool, changing what the user holds
\* there by d.
WritesUser(pid, u, r, d) ==
    /\ Held(r) = Held(users[pid][u]) + d
    /\ users' = [users EXCEPT ![pid][u] = r]
    /\ poolCount' = poolCount
    /\ \A p \in Pids : pools'[p].poolAddress = pools[p].poolAddress

\* Such a call moves that user's holding of that pool's token and nothing else.
LEMMA HoldingsMove ==
    ASSUME TypeInv, NEW pid \in Pids, NEW u \in Users, NEW r \in UserRecord,
           NEW d \in Int, WritesUser(pid, u, r, d)
    PROVE  \A v \in Users, token \in AllTokens :
              InContract(v, token)' = InContract(v, token)
                 + (IF v = u /\ token = pools[pid].poolAddress THEN d ELSE 0)
  <1> TAKE v \in Users, token \in AllTokens
  <1> USE DEF WritesUser
  <1> DEFINE D == PoolsOf(token)
             f == HeldIn(v, token)
             g == [p \in D |-> Held(users'[p][v])]
  <1>1. PoolsOf(token)' = D
    BY DEF PoolsOf, Pids
  <1>2. InContract(v, token)' = SumFunctionOnSet(g, D)
    <2>1. InContract(v, token)' = SumFunctionOnSet(HeldIn(v, token)', PoolsOf(token)')
      BY DEF InContract, HeldIn, PoolsOf, Held, SumFunction
    <2> QED BY <1>1, <2>1 DEF HeldIn, Held
  <1>3. InContract(v, token) = SumFunctionOnSet(f, D)
    BY InContractIsSum
  <1>4. IsFiniteSet(D) /\ D \subseteq PoolIds /\ \A p \in D : f[p] \in Int
    BY PoolsOfFinite, InContractNat
  <1>5. \A p \in D : users'[p][v] = IF p = pid /\ v = u THEN r ELSE users[p][v]
    BY <1>4, PidsArePools DEF TypeInv
  <1>6. \A p \in D : g[p] = IF p = pid /\ v = u THEN Held(r) ELSE f[p]
    BY <1>5 DEF HeldIn
  <1>7. pid \in D <=> token = pools[pid].poolAddress
    BY DEF PoolsOf
  <1>8. SumFunctionOnSet(f, D) \in Int
    BY <1>4, SumInt
  <1>9. CASE v = u /\ pid \in D
    <2>1. g[pid] = f[pid] + d /\ g[pid] \in Int /\ f[pid] \in Int
      <3>1. g[pid] = Held(r) /\ f[pid] = Held(users[pid][u])
        BY <1>6, <1>9 DEF HeldIn
      <3>2. Held(r) \in Int
        BY HeldNat
      <3> QED BY <1>4, <1>9, <3>1, <3>2
    <2>2. \A p \in D \ {pid} : g[p] = f[p]
      BY <1>6
    <2> HIDE DEF D, f, g
    <2>3. SumFunctionOnSet(g, D) = SumFunctionOnSet(f, D) + (g[pid] - f[pid])
      BY <1>4, <1>9, <2>1, <2>2, SumChange
    <2> QED BY <1>2, <1>3, <1>7, <1>8, <1>9, <2>1, <2>3
  <1>10. CASE ~(v = u /\ pid \in D)
    <2>1. \A p \in D : g[p] = f[p]
      BY <1>6, <1>10
    <2> HIDE DEF D, f, g
    <2>2. SumFunctionOnSet(g, D) = SumFunctionOnSet(f, D)
      BY <1>4, <2>1, SumSame
    <2> QED BY <1>2, <1>3, <1>7, <1>8, <1>10, <2>2
  <1> QED BY <1>9, <1>10

\* The money moves with the record: what the contract holds for the stakers of
\* the pool's token grows by d, the user's wallet shrinks by it; of MetaNode,
\* wallets may also receive rewards.
MoneyMoves(pid, u, d) ==
    /\ \A t \in AllTokens :
          HeldForStakers(t)' = HeldForStakers(t) + (IF t = pools[pid].poolAddress THEN d ELSE 0)
    /\ \A v \in Users, t \in AllTokens :
          LET left == wallet[v][t] - (IF v = u /\ t = pools[pid].poolAddress THEN d ELSE 0)
          IN  wallet'[v][t] >= left /\ (t # MetaNode => wallet'[v][t] = left)

\* What the contract holds for the stakers, and what wallets hold, are integers.
LEMMA HeldForStakersInt ==
    ASSUME TypeInv
    PROVE  /\ \A t \in AllTokens : balance[t] \in Nat /\ HeldForStakers(t) \in Int
           /\ \A v \in Users, t \in AllTokens : wallet[v][t] \in Nat
  <1>1. \A t \in AllTokens : balance[t] \in Nat
    BY DEF TypeInv
  <1>2. \A v \in Users, t \in AllTokens : wallet[v][t] \in Nat
    BY DEF TypeInv
  <1>3. paid \in Nat /\ RewardFund \in Nat
    BY StakeAssumption DEF TypeInv
  <1>4. \A t \in AllTokens : HeldForStakers(t) \in Int
    BY <1>1, <1>3 DEF HeldForStakers
  <1> QED BY <1>1, <1>2, <1>4

\* If the money moves with the record, both balances of the books are kept.
LEMMA FundsMove ==
    ASSUME Inv, NEW pid \in Pids, NEW u \in Users, NEW r \in UserRecord,
           NEW d \in Int, WritesUser(pid, u, r, d), MoneyMoves(pid, u, d),
           wallet' \in [Users -> [AllTokens -> Nat]]
    PROVE  UserFundsConserved' /\ BooksBalance'
  <1>0. TypeInv /\ PoolTokens \subseteq AllTokens
    BY DEF Inv, AllTokens
  <1>1. \A v \in Users, t \in AllTokens :
            InContract(v, t)' = InContract(v, t)
               + (IF v = u /\ t = pools[pid].poolAddress THEN d ELSE 0)
    BY <1>0, HoldingsMove
  <1>2. \A v \in Users, t \in AllTokens : InContract(v, t) \in Int /\ InContract(v, t)' \in Int
    BY <1>0, <1>1, InContractNat
  <1>3. UserFundsConserved'
    <2> SUFFICES ASSUME NEW v \in Users, NEW t \in PoolTokens
                 PROVE  /\ wallet'[v][t] + InContract(v, t)' >= Wallet
                        /\ t # MetaNode => wallet'[v][t] + InContract(v, t)' = Wallet
      BY DEF UserFundsConserved
    <2> DEFINE e == IF v = u /\ t = pools[pid].poolAddress THEN d ELSE 0
    <2>1. /\ wallet[v][t] + InContract(v, t) >= Wallet
          /\ t # MetaNode => wallet[v][t] + InContract(v, t) = Wallet
      BY DEF Inv, UserFundsConserved
    <2>2. wallet[v][t] \in Int /\ wallet'[v][t] \in Int /\ e \in Int /\ Wallet \in Int
          /\ InContract(v, t) \in Int
      BY <1>0, <1>2, HeldForStakersInt, StakeAssumption
    <2>3. InContract(v, t)' = InContract(v, t) + e
      BY <1>0, <1>1
    <2>4. wallet'[v][t] >= wallet[v][t] - e /\ (t # MetaNode => wallet'[v][t] = wallet[v][t] - e)
      BY <1>0 DEF MoneyMoves
    <2> HIDE DEF e
    <2>5. wallet'[v][t] + InContract(v, t)' >= Wallet
      BY <2>1, <2>2, <2>3, <2>4
    <2>6. t # MetaNode => wallet'[v][t] + InContract(v, t)' = Wallet
      BY <2>1, <2>2, <2>3, <2>4
    <2> QED BY <2>5, <2>6
  <1>4. BooksBalance'
    <2> SUFFICES ASSUME NEW t \in AllTokens
                 PROVE  HeldForStakers(t)' = SumFunctionOnSet([v \in Users |-> InContract(v, t)'], Users)
      BY DEF BooksBalance, SumFunction
    <2> DEFINE f == [v \in Users |-> InContract(v, t)]
               g == [v \in Users |-> InContract(v, t)']
               e == IF t = pools[pid].poolAddress THEN d ELSE 0
    <2>1. HeldForStakers(t) = SumFunctionOnSet(f, Users)
      BY DEF Inv, BooksBalance, SumFunction
    <2>2. \A v \in Users : f[v] \in Int /\ g[v] \in Int
      BY <1>2
    <2>3. g[u] = f[u] + e /\ \A v \in Users \ {u} : g[v] = f[v]
      BY <1>1, <1>2
    <2>4. HeldForStakers(t)' = HeldForStakers(t) + e /\ e \in Int
      BY DEF MoneyMoves
    <2> HIDE DEF f, g, e
    <2>5. SumFunctionOnSet(g, Users) = SumFunctionOnSet(f, Users) + (g[u] - f[u])
      BY <2>2, <2>3, StakeAssumption, SumChange
    <2>6. SumFunctionOnSet(f, Users) \in Int
      BY <2>2, StakeAssumption, SumInt
    <2>7. HeldForStakers(t)' = SumFunctionOnSet(g, Users)
      BY <2>1, <2>2, <2>3, <2>4, <2>5, <2>6
    <2> QED BY <2>7 DEF g
  <1> QED BY <1>3, <1>4

\* A deposit or a withdrawal moves the money of the pool's token.
LEMMA PayMoves ==
    ASSUME TypeInv, NEW pid \in PoolIds, NEW u \in Users, NEW d \in Int, NEW amount \in Int,
           amount = 0 - d, Pay(u, pools[pid].poolAddress, amount), paid' = paid
    PROVE  MoneyMoves(pid, u, d)
  <1> DEFINE token == pools[pid].poolAddress
  <1>1. token \in AllTokens
    BY DEF TypeInv, PoolRecord, AllTokens
  <1>2. balance' = [balance EXCEPT ![token] = balance[token] - amount]
    BY DEF Pay
  <1>3. wallet' = [wallet EXCEPT ![u] = [wallet[u] EXCEPT ![token] = wallet[u][token] + amount]]
    BY DEF Pay
  <1>4. paid \in Nat /\ RewardFund \in Nat
    BY StakeAssumption DEF TypeInv
  <1> HIDE DEF token
  <1>5. \A t \in AllTokens : balance'[t] = balance[t] + (IF t = token THEN d ELSE 0)
    <2>1. \A t \in AllTokens : balance[t] \in Nat
      BY HeldForStakersInt
    <2> QED BY <1>1, <1>2, <2>1 DEF TypeInv
  <1>6. \A t \in AllTokens :
            HeldForStakers(t)' = HeldForStakers(t) + (IF t = token THEN d ELSE 0)
    <2> TAKE t \in AllTokens
    <2> DEFINE e == IF t = token THEN d ELSE 0
    <2>1. balance[t] \in Nat /\ e \in Int /\ balance'[t] = balance[t] + e
      BY <1>5, HeldForStakersInt
    <2> HIDE DEF e
    <2>2. HeldForStakers(t)' = HeldForStakers(t) + e
      BY <1>4, <2>1 DEF HeldForStakers
    <2> QED BY <2>2 DEF e
  <1>7. \A v \in Users, t \in AllTokens :
            wallet'[v][t] = wallet[v][t] - (IF v = u /\ t = token THEN d ELSE 0)
            /\ wallet'[v][t] \in Int
    <2>1. \A v \in Users, t \in AllTokens : wallet[v][t] \in Nat
      BY HeldForStakersInt
    <2> QED BY <1>1, <1>3, <2>1 DEF TypeInv
  <1> QED BY <1>6, <1>7 DEF MoneyMoves, token

\* A reward leaves the fund, not the stakes, in the books.
LEMMA RewardMoves ==
    ASSUME TypeInv, NEW pid \in PoolIds, NEW u \in Users, NEW reward \in Nat,
           Pay(u, MetaNode, reward), paid' = paid + reward
    PROVE  MoneyMoves(pid, u, 0)
  <1>1. MetaNode \in AllTokens
    BY DEF AllTokens
  <1>2. balance' = [balance EXCEPT ![MetaNode] = balance[MetaNode] - reward]
    BY DEF Pay
  <1>3. wallet' = [wallet EXCEPT ![u] = [wallet[u] EXCEPT ![MetaNode] = wallet[u][MetaNode] + reward]]
    BY DEF Pay
  <1>4. paid \in Nat /\ RewardFund \in Nat
    BY StakeAssumption DEF TypeInv
  <1>5. \A t \in AllTokens : HeldForStakers(t)' = HeldForStakers(t)
    <2> TAKE t \in AllTokens
    <2>1. balance[t] \in Nat
      BY HeldForStakersInt
    <2>2. CASE t = MetaNode
      <3>1. balance'[t] = balance[t] - reward
        BY <1>2, <2>2 DEF TypeInv
      <3> QED BY <1>4, <2>1, <2>2, <3>1 DEF HeldForStakers
    <2>3. CASE t # MetaNode
      <3>1. balance'[t] = balance[t]
        BY <1>2, <2>3 DEF TypeInv
      <3> QED BY <2>3, <3>1 DEF HeldForStakers
    <2> QED BY <2>2, <2>3
  <1>6. \A v \in Users, t \in AllTokens :
            /\ wallet[v][t] \in Nat /\ wallet'[v][t] \in Nat
            /\ wallet'[v][t] >= wallet[v][t]
            /\ t # MetaNode => wallet'[v][t] = wallet[v][t]
    <2>1. \A v \in Users, t \in AllTokens : wallet[v][t] \in Nat
      BY HeldForStakersInt
    <2>2. \A v \in Users, t \in AllTokens : 
             wallet'[v][t] = IF v = u /\ t = MetaNode THEN wallet[v][t] + reward ELSE wallet[v][t]
      BY <1>1, <1>3 DEF TypeInv
    <2> QED BY <2>1, <2>2
  <1>7. \A t \in AllTokens : HeldForStakers(t) \in Int
    BY HeldForStakersInt
  <1> QED BY <1>5, <1>6, <1>7 DEF MoneyMoves

\* A call that moves no money.
LEMMA NothingMoves ==
    ASSUME TypeInv, NEW pid \in PoolIds, NEW u \in Users,
           balance' = balance, wallet' = wallet, paid' = paid
    PROVE  MoneyMoves(pid, u, 0)
  <1>1. \A t \in AllTokens : HeldForStakers(t)' = HeldForStakers(t) /\ HeldForStakers(t) \in Int
    BY HeldForStakersInt DEF HeldForStakers
  <1>2. \A v \in Users, t \in AllTokens : wallet'[v][t] = wallet[v][t] /\ wallet[v][t] \in Nat
    BY HeldForStakersInt
  <1> QED BY <1>1, <1>2 DEF MoneyMoves

\* A step that leaves the users' records, the addresses and the money alone.
LEMMA FundsStay ==
    ASSUME Inv, users' = users, poolCount' = poolCount, balance' = balance, wallet' = wallet,
           paid' = paid, \A p \in Pids : pools'[p].poolAddress = pools[p].poolAddress
    PROVE  UserFundsConserved' /\ BooksBalance'
  <1>1. ASSUME NEW token
        PROVE  {p \in Pids' : pools'[p].poolAddress = token}
                  = {p \in Pids : pools[p].poolAddress = token}
    BY DEF Pids
  <1>2. \A v, token : InContract(v, token)' = InContract(v, token)
    BY <1>1 DEF InContract
  <1>3. UserFundsConserved'
    BY <1>2 DEF Inv, UserFundsConserved
  <1>4. BooksBalance'
    BY <1>2 DEF Inv, BooksBalance, HeldForStakers
  <1> QED BY <1>3, <1>4

\* The pool's total follows the stake of the user whose record is written.
LEMMA StakeMove ==
    ASSUME Inv, NEW pid \in Pids, NEW u \in Users, NEW r \in UserRecord,
           NEW d \in Int, r.amount = users[pid][u].amount + d,
           users' = [users EXCEPT ![pid][u] = r],
           NEW pool, pools' = [pools EXCEPT ![pid] = pool],
           pool.stTokenAmount = pools[pid].stTokenAmount + d,
           pool.poolWeight = pools[pid].poolWeight,
           totalWeight' = totalWeight
    PROVE  StakeAccounting'
  <1>0. TypeInv /\ pid \in PoolIds
    BY PidsArePools DEF Inv
  <1>1. ASSUME NEW p \in PoolIds
        PROVE  pools'[p].stTokenAmount
                  = SumFunctionOnSet([v \in Users |-> users'[p][v].amount], Users)
    <2> DEFINE f == [v \in Users |-> users[p][v].amount]
               g == [v \in Users |-> users'[p][v].amount]
    <2>1. pools[p].stTokenAmount = SumFunctionOnSet(f, Users)
      BY DEF Inv, StakeAccounting, SumFunction
    <2>2. \A v \in Users : users[p][v] \in UserRecord
                /\ users'[p][v] = IF p = pid /\ v = u THEN r ELSE users[p][v]
      BY <1>0 DEF TypeInv
    <2>3. \A v \in Users : f[v] \in Int /\ g[v] = IF p = pid /\ v = u THEN f[v] + d ELSE f[v]
      BY <2>2 DEF UserRecord
    <2>4. pools'[p].stTokenAmount
             = IF p = pid THEN pools[p].stTokenAmount + d ELSE pools[p].stTokenAmount
      BY <1>0 DEF TypeInv
    <2>5. IsFiniteSet(Users)
      BY StakeAssumption
    <2> HIDE DEF f, g
    <2>6. SumFunctionOnSet(f, Users) \in Int
      BY <2>3, <2>5, SumInt
    <2>7. CASE p = pid
      <3>1. g[u] \in Int /\ f[u] \in Int /\ g[u] = f[u] + d /\ \A v \in Users \ {u} : g[v] = f[v]
        BY <2>3, <2>7
      <3>2. SumFunctionOnSet(g, Users) = SumFunctionOnSet(f, Users) + (g[u] - f[u])
        BY <2>3, <2>5, <3>1, SumChange
      <3>3. pools'[p].stTokenAmount = SumFunctionOnSet(g, Users)
        BY <2>1, <2>4, <2>6, <2>7, <3>1, <3>2
      <3> QED BY <3>3 DEF g
    <2>8. CASE p # pid
      <3>1. SumFunctionOnSet(g, Users) = SumFunctionOnSet(f, Users)
        BY <2>3, <2>5, <2>8, SumSame
      <3>2. pools'[p].stTokenAmount = SumFunctionOnSet(g, Users)
        BY <2>1, <2>4, <2>8, <3>1
      <3> QED BY <3>2 DEF g
    <2> QED BY <2>7, <2>8
  <1>2. \A p \in PoolIds : pools'[p].poolWeight = pools[p].poolWeight
    BY <1>0 DEF TypeInv
  <1>3. totalWeight' = SumFunction([p \in PoolIds |-> pools'[p].poolWeight])
    BY <1>2 DEF Inv, StakeAccounting
  <1> QED BY <1>1, <1>3 DEF StakeAccounting, SumFunction

\* No staked amount is subtracted that is not there.
LEMMA StakeCovers ==
    ASSUME Inv, NEW pid \in PoolIds, NEW u \in Users
    PROVE  users[pid][u].amount <= pools[pid].stTokenAmount
  <1> DEFINE f == [v \in Users |-> users[pid][v].amount]
  <1>1. \A v \in Users : f[v] \in Nat
    BY DEF Inv, TypeInv, UserRecord
  <1>2. pools[pid].stTokenAmount = SumFunctionOnSet(f, Users)
    BY DEF Inv, StakeAccounting, SumFunction
  <1>3. f[u] = users[pid][u].amount
    OBVIOUS
  <1> HIDE DEF f
  <1>4. f[u] <= SumFunctionOnSet(f, Users)
    BY <1>1, StakeAssumption, SumNat
  <1> QED BY <1>2, <1>3, <1>4

\* The unused slots of a step that writes only pools in use.
LEMMA UnusedStay ==
    ASSUME Inv, poolCount' = poolCount,
           \A p \in PoolIds \ Pids : users'[p] = users[p] /\ pools'[p] = pools[p]
    PROVE  UnusedPoolsAreEmpty'
  BY DEF Inv, UnusedPoolsAreEmpty, Pids

\* A transfer that is covered on both sides keeps the balances natural.
LEMMA PayTypes ==
    ASSUME TypeInv, NEW u \in Users, NEW token \in AllTokens, NEW amount \in Int,
           Pay(u, token, amount), amount <= balance[token], 0 <= wallet[u][token] + amount
    PROVE  /\ balance' \in [AllTokens -> Nat]
           /\ wallet' \in [Users -> [AllTokens -> Nat]]
  <1>1. balance[token] \in Nat /\ wallet[u][token] \in Nat
    BY DEF TypeInv
  <1>2. balance[token] - amount \in Nat /\ wallet[u][token] + amount \in Nat
    BY <1>1
  <1>3. balance' = [balance EXCEPT ![token] = balance[token] - amount]
    BY DEF Pay
  <1>4. wallet' = [wallet EXCEPT ![u] = [wallet[u] EXCEPT ![token] = wallet[u][token] + amount]]
    BY DEF Pay
  <1> QED BY <1>2, <1>3, <1>4 DEF TypeInv

\* What every call of a staker does to one record and one pool: e is what it
\* adds to the stake, d what it adds to stake and requests together.
UserCall(pid, u, r, pool, d, e) ==
    /\ users' = [users EXCEPT ![pid][u] = r]
    /\ pools' = [pools EXCEPT ![pid] = pool]
    /\ poolCount' = poolCount /\ totalWeight' = totalWeight
    /\ Held(r) = Held(users[pid][u]) + d
    /\ r.amount = users[pid][u].amount + e
    /\ pool.stTokenAmount = pools[pid].stTokenAmount + e
    /\ pool.poolAddress = pools[pid].poolAddress
    /\ pool.poolWeight = pools[pid].poolWeight
    /\ MoneyMoves(pid, u, d)
    /\ wallet' \in [Users -> [AllTokens -> Nat]]

\* Every such call keeps the books.
LEMMA UserCallKeepsAccounts ==
    ASSUME Inv, NEW pid \in Pids, NEW u \in Users, NEW r \in UserRecord, NEW pool \in PoolRecord,
           NEW d \in Int, NEW e \in Int, UserCall(pid, u, r, pool, d, e)
    PROVE  /\ UnusedPoolsAreEmpty' /\ StakeAccounting'
           /\ UserFundsConserved' /\ BooksBalance'
           /\ users' \in [PoolIds -> [Users -> UserRecord]]
           /\ pools' \in [PoolIds -> PoolRecord]
  <1>0. TypeInv /\ pid \in PoolIds
    BY PidsArePools DEF Inv
  <1>1. UnusedPoolsAreEmpty'
    <2>1. \A p \in PoolIds \ Pids : users'[p] = users[p] /\ pools'[p] = pools[p]
      BY <1>0 DEF UserCall, TypeInv
    <2> QED BY <2>1, UnusedStay DEF UserCall
  <1>2. StakeAccounting'
    BY StakeMove DEF UserCall
  <1>3. WritesUser(pid, u, r, d)
    <2>1. \A p \in Pids : pools'[p].poolAddress = pools[p].poolAddress
      BY <1>0, PidsArePools DEF UserCall, TypeInv
    <2> QED BY <2>1 DEF UserCall, WritesUser
  <1>4. UserFundsConserved' /\ BooksBalance'
    BY <1>3, FundsMove DEF UserCall
  <1>5. users' \in [PoolIds -> [Users -> UserRecord]]
    <2>1. users' = [users EXCEPT ![pid] = [users[pid] EXCEPT ![u] = r]]
      BY DEF UserCall
    <2> QED BY <1>0, <2>1 DEF TypeInv
  <1>6. pools' \in [PoolIds -> PoolRecord]
    BY <1>0 DEF UserCall, TypeInv
  <1> QED BY <1>1, <1>2, <1>4, <1>5, <1>6

-----------------------------------------------------------------------------
(* The calls of the stakers. *)

\* What a stake has earned is a natural.
LEMMA SettledNat ==
    ASSUME NEW a \in Nat, NEW acc \in Nat
    PROVE  Settled(a, acc) \in Nat
  <1>1. a * acc \in Nat
    BY ProductNat
  <1> QED BY <1>1, QuotientNat, StakeAssumption DEF Settled

\* _deposit adds the amount to the stake and takes nothing from what is pending.
LEMMA DepositedRecord ==
    ASSUME NEW user \in UserRecord, NEW acc \in Nat, NEW amount \in Nat,
           user.amount > 0 => user.amount * acc >= user.finishedMetaNode
    PROVE  LET r == Deposited(user, acc, amount)
           IN  /\ r \in UserRecord /\ Held(r) = Held(user) + amount
               /\ r.amount = user.amount + amount /\ r.requests = user.requests
               /\ r.pendingMetaNode >= user.pendingMetaNode
  <1> DEFINE earned == IF user.amount > 0 THEN user.amount * acc - user.finishedMetaNode ELSE 0
             done == (user.amount + amount) * acc
             r == [user EXCEPT !.pendingMetaNode = user.pendingMetaNode + earned,
                               !.amount = user.amount + amount, !.finishedMetaNode = done]
  <1>1. /\ user.amount \in Nat /\ user.finishedMetaNode \in Nat
        /\ user.pendingMetaNode \in Nat /\ user.requests \in Seq(Request)
    BY DEF UserRecord
  <1>2. earned \in Nat
    <2>1. user.amount * acc \in Nat
      BY <1>1, ProductNat
    <2> QED BY <1>1, <2>1
  <1>3. done \in Nat
    BY <1>1, ProductNat
  <1>4. Deposited(user, acc, amount) = r
    BY DEF Deposited
  <1> HIDE DEF earned, done
  <1>5. r \in UserRecord /\ r.amount = user.amount + amount /\ r.requests = user.requests
        /\ r.pendingMetaNode = user.pendingMetaNode + earned
    <2>1. r = [amount |-> user.amount + amount, finishedMetaNode |-> done,
               pendingMetaNode |-> user.pendingMetaNode + earned, requests |-> user.requests]
      <3> DEFINE p == user.pendingMetaNode + earned
                 a == user.amount + amount
                 r1 == [user EXCEPT !.pendingMetaNode = p]
                 r2 == [r1 EXCEPT !.amount = a]
      <3>1. r1 \in UserRecord /\ r1 = [amount |-> user.amount, pendingMetaNode |-> p,
                 finishedMetaNode |-> user.finishedMetaNode, requests |-> user.requests]
        BY <1>1, <1>2 DEF UserRecord
      <3>2. r = [r2 EXCEPT !.finishedMetaNode = done]
        OBVIOUS
      <3> HIDE DEF p, a, r1, r
      <3>3. r2 = [amount |-> a, pendingMetaNode |-> p,
                  finishedMetaNode |-> user.finishedMetaNode, requests |-> user.requests]
        BY <3>1
      <3> HIDE DEF r2
      <3> QED BY <3>2, <3>3 DEF p, a
    <2> QED BY <1>1, <1>2, <1>3, <2>1 DEF UserRecord
  <1>6. Held(r) = Held(user) + amount
    <2>1. SumAmounts(user.requests) \in Nat
      BY HeldNat
    <2> HIDE DEF r
    <2> QED BY <1>1, <1>5, <2>1 DEF Held
  <1> HIDE DEF r
  <1>7. r.pendingMetaNode >= user.pendingMetaNode
    BY <1>1, <1>2, <1>5
  <1> QED BY <1>4, <1>5, <1>6, <1>7

\* _deposit preserves the invariant.
LEMMA DepositKeeps ==
    ASSUME Inv, NEW u \in Users, NEW pid \in Pids, NEW amount \in Amounts,
           _deposit(u, pid, amount)
    PROVE  Inv'
  <1> DEFINE user == users[pid][u]
             up == UpdatedPool(pid)
             acc == up.accMetaNodePerST
             token == pools[pid].poolAddress
             r == Deposited(user, acc, amount)
             pool == [up EXCEPT !.stTokenAmount = up.stTokenAmount + amount]
  <1>0. TypeInv /\ pid \in PoolIds /\ CanUpdate(pid) /\ amount \in Nat
    BY PidsArePools, StakeAssumption DEF Inv, _deposit
  <1>1. /\ up \in PoolRecord
        /\ up.poolAddress = token
        /\ up.poolWeight = pools[pid].poolWeight
        /\ up.stTokenAmount = pools[pid].stTokenAmount
    BY <1>0, UpdatedPoolFields
  <1>2. user \in UserRecord /\ acc \in Nat /\ token \in PoolTokens
    BY <1>0, <1>1 DEF TypeInv, PoolRecord
  <1>2a. user.amount > 0 => user.amount * acc >= user.finishedMetaNode
    BY DEF _deposit
  <1>3. /\ users' = [users EXCEPT ![pid][u] = r]
        /\ pools' = [pools EXCEPT ![pid] = pool]
        /\ Pay(u, token, 0 - amount)
        /\ wallet[u][token] >= amount
        /\ poolCount' = poolCount /\ totalWeight' = totalWeight
    BY <1>1 DEF _deposit, config
  <1> HIDE DEF up
  <1>4. r \in UserRecord /\ Held(r) = Held(user) + amount /\ r.amount = user.amount + amount
    <2> HIDE DEF user, acc
    <2> QED BY <1>0, <1>2, <1>2a, DepositedRecord
  <1>5. /\ pool \in PoolRecord
        /\ pool.stTokenAmount = pools[pid].stTokenAmount + amount
        /\ pool.poolAddress = token /\ pool.poolWeight = pools[pid].poolWeight
    BY <1>0, <1>1 DEF PoolRecord
  <1> HIDE DEF r, pool
  <1>6. balance[token] \in Nat /\ wallet[u][token] \in Nat
    BY <1>0, <1>2 DEF TypeInv, AllTokens
  <1>7. MoneyMoves(pid, u, amount)
    <2>1. amount \in Int /\ 0 - amount \in Int /\ paid' = paid
      BY <1>0 DEF _deposit
    <2> QED BY <1>0, <1>3, <2>1, PayMoves
  <1>8. balance' \in [AllTokens -> Nat] /\ wallet' \in [Users -> [AllTokens -> Nat]]
    <2>1. token \in AllTokens /\ 0 - amount \in Int /\ 0 - amount <= balance[token]
          /\ 0 <= wallet[u][token] + (0 - amount)
      BY <1>0, <1>2, <1>3, <1>6 DEF AllTokens
    <2> HIDE DEF token
    <2> QED BY <1>0, <1>3, <2>1, PayTypes
  <1>9. UserCall(pid, u, r, pool, amount, amount)
    BY <1>3, <1>4, <1>5, <1>7, <1>8 DEF UserCall
  <1>10. /\ UnusedPoolsAreEmpty' /\ StakeAccounting'
         /\ UserFundsConserved' /\ BooksBalance'
         /\ users' \in [PoolIds -> [Users -> UserRecord]]
         /\ pools' \in [PoolIds -> PoolRecord]
    <2>1. amount \in Int
      BY <1>0
    <2> QED BY <2>1, <1>4, <1>5, <1>9, UserCallKeepsAccounts
  <1>12. accrued' \in Nat
    BY <1>0, RewardNat DEF _deposit, TypeInv
  <1>13. TypeInv'
    BY <1>0, <1>8, <1>10, <1>12 DEF TypeInv, _deposit, config
  <1> QED BY <1>10, <1>13 DEF Inv

\* unstake moves the amount from the stake to the end of the queue; what is
\* pending is replaced by a new reward or stays.
LEMMA UnstakedRecord ==
    ASSUME NEW user \in UserRecord, NEW acc \in Nat, NEW amount \in Nat, NEW unlockBlock \in Nat,
           amount <= user.amount, Settled(user.amount, acc) >= user.finishedMetaNode
    PROVE  LET r == Unstaked(user, acc, amount, unlockBlock)
           IN  /\ r \in UserRecord /\ Held(r) = Held(user)
               /\ r.amount = user.amount - amount
               /\ r.requests = IF amount > 0
                               THEN Append(user.requests,
                                           [amount |-> amount, unlockBlock |-> unlockBlock])
                               ELSE user.requests
               /\ \/ /\ r.pendingMetaNode > 0
                     /\ r.pendingMetaNode = Settled(user.amount, acc) - user.finishedMetaNode
                  \/ r.pendingMetaNode = user.pendingMetaNode
               /\ r.finishedMetaNode = Settled(user.amount - amount, acc)
  <1> DEFINE earned == Settled(user.amount, acc) - user.finishedMetaNode
             request == [amount |-> amount, unlockBlock |-> unlockBlock]
             p == IF earned > 0 THEN earned ELSE user.pendingMetaNode
             a == user.amount - amount
             q == IF amount > 0 THEN Append(user.requests, request) ELSE user.requests
             f == Settled(user.amount - amount, acc)
             r1 == [user EXCEPT !.pendingMetaNode = p]
             r2 == [r1 EXCEPT !.amount = a]
             r3 == [r2 EXCEPT !.requests = q]
             r == [r3 EXCEPT !.finishedMetaNode = f]
  <1>1. /\ user.amount \in Nat /\ user.finishedMetaNode \in Nat
        /\ user.pendingMetaNode \in Nat /\ user.requests \in Seq(Request)
    BY DEF UserRecord
  <1>2. Settled(user.amount, acc) \in Nat /\ a \in Nat
    <2>1. Settled(user.amount, acc) \in Nat
      BY <1>1, SettledNat
    <2>2. a \in Nat
      BY <1>1
    <2> QED BY <2>1, <2>2
  <1>3. f \in Nat
    BY <1>2, SettledNat
  <1>4. p \in Nat /\ ((p > 0 /\ p = earned) \/ p = user.pendingMetaNode)
    BY <1>1, <1>2
  <1>5. amount > 0 => request \in Request
    BY DEF Request
  <1>6. q \in Seq(Request)
    BY <1>1, <1>5
  <1>7. SumAmounts(q) = SumAmounts(user.requests) + amount
    <2>1. SumAmounts(user.requests) \in Nat
      BY <1>1, QueueSumNat
    <2>2. CASE amount > 0
      <3>1. SumAmounts(Append(user.requests, request)) = SumAmounts(user.requests) + request.amount
        <4> HIDE DEF request
        <4> QED BY <1>1, <1>5, <2>2, QueueSumAppend
      <3> QED BY <2>2, <3>1
    <2>3. CASE ~(amount > 0)
      BY <2>1, <2>3
    <2> QED BY <2>2, <2>3
  <1>8. Unstaked(user, acc, amount, unlockBlock) = r
    BY DEF Unstaked
  <1> HIDE DEF p, a, q, f
  <1>9. r = [amount |-> a, pendingMetaNode |-> p, finishedMetaNode |-> f, requests |-> q]
    <2>1. r1 = [amount |-> user.amount, pendingMetaNode |-> p,
                finishedMetaNode |-> user.finishedMetaNode, requests |-> user.requests]
      BY DEF UserRecord
    <2> HIDE DEF r1
    <2>2. r2 = [amount |-> a, pendingMetaNode |-> p,
                finishedMetaNode |-> user.finishedMetaNode, requests |-> user.requests]
      BY <2>1
    <2> HIDE DEF r2
    <2>3. r3 = [amount |-> a, pendingMetaNode |-> p,
                finishedMetaNode |-> user.finishedMetaNode, requests |-> q]
      BY <2>2
    <2> HIDE DEF r3
    <2> QED BY <2>3
  <1> HIDE DEF r
  <1>10. r \in UserRecord
    BY <1>2, <1>3, <1>4, <1>6, <1>9 DEF UserRecord
  <1>11. Held(r) = Held(user)
    <2>1. SumAmounts(user.requests) \in Nat
      BY <1>1, QueueSumNat
    <2>2. r.amount = user.amount - amount /\ SumAmounts(r.requests) = SumAmounts(user.requests) + amount
      BY <1>7, <1>9 DEF a
    <2> QED BY <1>1, <2>1, <2>2 DEF Held
  <1> QED BY <1>4, <1>8, <1>9, <1>10, <1>11 DEF a, q, f

\* What unstake checks before it writes the record.
MayUnstake(user, acc, amount) ==
    amount <= user.amount /\ Settled(user.amount, acc) >= user.finishedMetaNode

\* A record that has amount less at stake and as much in requests more.
HoldsTheSame(r, user, amount) ==
    r \in UserRecord /\ Held(r) = Held(user) /\ r.amount = user.amount - amount

\* The record that unstake writes is one.
LEMMA UnstakedHoldsTheSame ==
    ASSUME NEW user \in UserRecord, NEW acc \in Nat, NEW amount \in Nat, NEW unlockBlock \in Nat,
           MayUnstake(user, acc, amount)
    PROVE  HoldsTheSame(Unstaked(user, acc, amount, unlockBlock), user, amount)
  <1>1. amount <= user.amount /\ Settled(user.amount, acc) >= user.finishedMetaNode
    BY DEF MayUnstake
  <1> QED BY <1>1, UnstakedRecord, ZenonT(40) DEF HoldsTheSame

\* unstake preserves the invariant: the stake covers the amount.
LEMMA UnstakeKeeps ==
    ASSUME Inv, NEW u \in Users, NEW pid \in Pids, NEW amount \in Amounts,
           unstake(u, pid, amount)
    PROVE  Inv'
  <1> DEFINE user == users[pid][u]
             up == UpdatedPool(pid)
             acc == up.accMetaNodePerST
             unlockBlock == block + up.unstakeLockedBlocks
             r == Unstaked(user, acc, amount, unlockBlock)
             pool == [up EXCEPT !.stTokenAmount = up.stTokenAmount - amount]
  <1>0. TypeInv /\ pid \in PoolIds /\ CanUpdate(pid) /\ amount \in Nat
    BY PidsArePools, StakeAssumption DEF Inv, unstake, CanUnstake
  <1>1. /\ up \in PoolRecord
        /\ up.poolAddress = pools[pid].poolAddress
        /\ up.poolWeight = pools[pid].poolWeight
        /\ up.stTokenAmount = pools[pid].stTokenAmount
    BY <1>0, UpdatedPoolFields
  <1>2. user \in UserRecord /\ acc \in Nat /\ unlockBlock \in Nat /\ user.amount \in Nat
    <2>1. user \in UserRecord
      BY <1>0 DEF TypeInv
    <2>2. acc \in Nat /\ up.unstakeLockedBlocks \in Nat
      BY <1>1 DEF PoolRecord
    <2>3. block \in Nat
      BY <1>0, StakeAssumption DEF TypeInv
    <2> QED BY <2>1, <2>2, <2>3, HeldNat
  <1>3. amount <= user.amount /\ Settled(user.amount, acc) >= user.finishedMetaNode
    BY DEF unstake, CanUnstake
  <1>4. /\ users' = [users EXCEPT ![pid][u] = r]
        /\ pools' = [pools EXCEPT ![pid] = pool]
        /\ poolCount' = poolCount /\ totalWeight' = totalWeight
        /\ balance' = balance /\ wallet' = wallet
    BY DEF unstake, config
  <1> HIDE DEF up
  <1>5. r \in UserRecord /\ Held(r) = Held(user) /\ r.amount = user.amount - amount
    <2> HIDE DEF user, acc, unlockBlock
    <2>1. amount \in Nat /\ MayUnstake(user, acc, amount)
      BY <1>0, <1>3 DEF MayUnstake
    <2>2. HoldsTheSame(Unstaked(user, acc, amount, unlockBlock), user, amount)
      BY <1>2, <2>1, UnstakedHoldsTheSame
    <2> QED BY <2>2 DEF HoldsTheSame
  <1>6. amount <= pools[pid].stTokenAmount /\ pools[pid].stTokenAmount \in Nat
    <2>1. user.amount <= pools[pid].stTokenAmount /\ pools[pid].stTokenAmount \in Nat
      BY <1>0, StakeCovers DEF TypeInv, PoolRecord
    <2> HIDE DEF user
    <2> QED BY <1>0, <1>2, <1>3, <2>1
  <1>7. /\ pool \in PoolRecord
        /\ pool.stTokenAmount = pools[pid].stTokenAmount + (0 - amount)
        /\ pool.poolAddress = pools[pid].poolAddress /\ pool.poolWeight = pools[pid].poolWeight
    BY <1>0, <1>1, <1>6 DEF PoolRecord
  <1> HIDE DEF r, pool
  <1>8. UserCall(pid, u, r, pool, 0, 0 - amount)
    <2>1. r.amount = user.amount + (0 - amount)
      BY <1>0, <1>2, <1>5
    <2>2. Held(user) \in Nat
      BY <1>2, HeldNat
    <2>3. Held(r) = Held(user) + 0
      BY <1>5, <2>2
    <2>4. MoneyMoves(pid, u, 0)
      <3>1. paid' = paid
        BY DEF unstake
      <3> QED BY <1>0, <1>4, <3>1, NothingMoves
    <2>5. wallet' \in [Users -> [AllTokens -> Nat]]
      BY <1>0, <1>4 DEF TypeInv
    <2> QED BY <1>4, <1>7, <2>1, <2>3, <2>4, <2>5 DEF UserCall
  <1>9. /\ UnusedPoolsAreEmpty' /\ StakeAccounting'
        /\ UserFundsConserved' /\ BooksBalance'
        /\ users' \in [PoolIds -> [Users -> UserRecord]]
        /\ pools' \in [PoolIds -> PoolRecord]
    <2>1. 0 - amount \in Int /\ 0 \in Int
      BY <1>0
    <2> QED BY <2>1, <1>5, <1>7, <1>8, UserCallKeepsAccounts
  <1>10. accrued' \in Nat
    BY <1>0, RewardNat DEF unstake, TypeInv
  <1>11. TypeInv'
    BY <1>0, <1>9, <1>10 DEF TypeInv, unstake, config
  <1> QED BY <1>9, <1>11 DEF Inv

\* withdraw preserves the invariant: the transfer of what is popped is covered.
LEMMA WithdrawKeeps ==
    ASSUME Inv, NEW u \in Users, NEW pid \in Pids, withdraw(u, pid)
    PROVE  Inv'
  <1> DEFINE user == users[pid][u]
             queue == user.requests
             n == popNum(queue)
             token == pools[pid].poolAddress
             sum == SumAmounts(SubSeq(queue, 1, n))
             left == SubSeq(queue, n + 1, Len(queue))
             r == [user EXCEPT !.requests = left]
  <1>0. TypeInv /\ pid \in PoolIds
    BY PidsArePools DEF Inv
  <1>1. user \in UserRecord /\ queue \in Seq(Request) /\ block \in Nat /\ token \in PoolTokens
    <2>1. user \in UserRecord
      BY <1>0 DEF TypeInv
    <2>2. queue \in Seq(Request)
      BY <2>1 DEF UserRecord
    <2>3. block \in Nat
      BY <1>0, StakeAssumption DEF TypeInv
    <2>4. token \in PoolTokens
      BY <1>0 DEF TypeInv, PoolRecord
    <2> QED BY <2>1, <2>2, <2>3, <2>4
  <1>2. /\ users' = [users EXCEPT ![pid][u] = r]
        /\ Pay(u, token, sum)
    BY <1>0 DEF withdraw, TypeInv
  <1>3. n \in 0 .. Len(queue)
    BY <1>1, PopNumSpec
  <1>4. /\ SubSeq(queue, 1, n) \in Seq(Request)
        /\ left \in Seq(Request)
        /\ SumAmounts(queue) = sum + SumAmounts(left)
    <2> HIDE DEF queue, n
    <2> QED BY <1>1, <1>3, QueueSumSplit
  <1>5. sum \in Nat /\ SumAmounts(left) \in Nat
    BY <1>4, QueueSumNat
  <1> HIDE DEF n, left, sum
  <1>6. r \in UserRecord /\ r.amount = user.amount /\ r.requests = left
    BY <1>1, <1>4 DEF UserRecord
  <1>7. Held(r) = Held(user) + (0 - sum) /\ sum <= Held(user)
    <2>1. user.amount \in Nat
      BY <1>1 DEF UserRecord
    <2>2. Held(r) = user.amount + SumAmounts(left) /\ Held(user) = user.amount + SumAmounts(queue)
      BY <1>6 DEF Held
    <2> HIDE DEF user, queue, r
    <2> QED BY <1>4, <1>5, <2>1, <2>2
  <1>8. sum <= balance[token] /\ balance[token] \in Nat
    BY <1>0, <1>1 DEF withdraw, sum, n, TypeInv, AllTokens
  <1>8a. balance' \in [AllTokens -> Nat] /\ wallet' \in [Users -> [AllTokens -> Nat]]
    <2>1. token \in AllTokens /\ sum \in Int /\ wallet[u][token] \in Nat
          /\ 0 <= wallet[u][token] + sum
      BY <1>0, <1>1, <1>5 DEF AllTokens, TypeInv
    <2> HIDE DEF token
    <2> QED BY <1>0, <1>2, <1>8, <2>1, PayTypes
  <1>9. UserCall(pid, u, r, pools[pid], 0 - sum, 0)
    <2>1. r.amount = user.amount + 0 /\ pools[pid].stTokenAmount = pools[pid].stTokenAmount + 0
      <3>1. pools[pid].stTokenAmount \in Nat
        BY <1>0 DEF TypeInv, PoolRecord
      <3>2. user.amount \in Nat
        BY <1>1, HeldNat
      <3> QED BY <1>6, <3>1, <3>2
    <2>2. pools' = [pools EXCEPT ![pid] = pools[pid]]
      BY <1>0 DEF withdraw, TypeInv
    <2>3. MoneyMoves(pid, u, 0 - sum)
      <3>1. 0 - sum \in Int /\ sum \in Int /\ sum = 0 - (0 - sum) /\ paid' = paid
        BY <1>5 DEF withdraw
      <3> QED BY <1>0, <1>2, <3>1, PayMoves
    <2>4. wallet' \in [Users -> [AllTokens -> Nat]]
      BY <1>8a
    <2>5. poolCount' = poolCount /\ totalWeight' = totalWeight
      BY DEF withdraw, config
    <2> HIDE DEF r
    <2> QED BY <1>2, <1>7, <2>1, <2>2, <2>3, <2>4, <2>5 DEF UserCall
  <1> HIDE DEF r
  <1>10. /\ UnusedPoolsAreEmpty' /\ StakeAccounting'
         /\ UserFundsConserved' /\ BooksBalance'
         /\ users' \in [PoolIds -> [Users -> UserRecord]]
         /\ pools' \in [PoolIds -> PoolRecord]
    <2>1. 0 - sum \in Int /\ 0 \in Int /\ pools[pid] \in PoolRecord
      BY <1>0, <1>5 DEF TypeInv
    <2> QED BY <2>1, <1>6, <1>9, UserCallKeepsAccounts
  <1>12. TypeInv'
    BY <1>0, <1>8a, <1>10 DEF TypeInv, withdraw, config
  <1> QED BY <1>10, <1>12 DEF Inv

\* claim pays something between nothing and what the contract holds.
LEMMA ClaimedReward ==
    ASSUME TypeInv, NEW u \in Users, NEW pid \in PoolIds, CanClaim(u, pid)
    PROVE  LET user == users[pid][u]
               settled == Settled(user.amount, UpdatedPool(pid).accMetaNodePerST)
               reward == Minimum(settled - user.finishedMetaNode + user.pendingMetaNode,
                                 balance[MetaNode])
           IN  settled \in Nat /\ reward \in Nat /\ reward <= balance[MetaNode]
               /\ Minimum(user.pendingMetaNode, balance[MetaNode]) <= reward
  <1> DEFINE user == users[pid][u]
             acc == UpdatedPool(pid).accMetaNodePerST
             settled == Settled(user.amount, acc)
  <1>1. user \in UserRecord
    BY DEF TypeInv
  <1>2. user.amount \in Nat /\ user.finishedMetaNode \in Nat /\ user.pendingMetaNode \in Nat
    BY <1>1 DEF UserRecord
  <1>3. acc \in Nat
    BY UpdatedPoolFields DEF CanClaim, PoolRecord
  <1>4. settled \in Nat /\ settled >= user.finishedMetaNode
    BY <1>2, <1>3, SettledNat DEF CanClaim
  <1>5. balance[MetaNode] \in Nat
    BY DEF TypeInv, AllTokens
  <1> HIDE DEF user, settled
  <1>6. /\ Minimum(settled - user.finishedMetaNode + user.pendingMetaNode, balance[MetaNode]) \in Nat
        /\ Minimum(settled - user.finishedMetaNode + user.pendingMetaNode, balance[MetaNode])
              <= balance[MetaNode]
        /\ Minimum(user.pendingMetaNode, balance[MetaNode])
              <= Minimum(settled - user.finishedMetaNode + user.pendingMetaNode, balance[MetaNode])
    BY <1>2, <1>4, <1>5 DEF Minimum
  <1> QED BY <1>4, <1>6 DEF user, settled

\* claim preserves the invariant.
LEMMA ClaimKeeps ==
    ASSUME Inv, NEW u \in Users, NEW pid \in Pids, claim(u, pid)
    PROVE  Inv'
  <1> DEFINE user == users[pid][u]
             up == UpdatedPool(pid)
             settled == Settled(user.amount, up.accMetaNodePerST)
             reward == Minimum(settled - user.finishedMetaNode + user.pendingMetaNode,
                               balance[MetaNode])
             r1 == [user EXCEPT !.pendingMetaNode = 0]
             r == [r1 EXCEPT !.finishedMetaNode = settled]
  <1>0. TypeInv /\ pid \in PoolIds /\ CanUpdate(pid) /\ CanClaim(u, pid)
    BY PidsArePools DEF Inv, claim, CanClaim
  <1>1. /\ up \in PoolRecord
        /\ up.poolAddress = pools[pid].poolAddress
        /\ up.poolWeight = pools[pid].poolWeight
        /\ up.stTokenAmount = pools[pid].stTokenAmount
        /\ pools[pid].stTokenAmount \in Nat
    BY <1>0, UpdatedPoolFields DEF TypeInv, PoolRecord
  <1>2. user \in UserRecord
    BY <1>0 DEF TypeInv
  <1>3. /\ settled \in Nat /\ reward \in Nat /\ reward <= balance[MetaNode]
    BY <1>0, ClaimedReward
  <1>4. /\ users' = [users EXCEPT ![pid][u] = r]
        /\ pools' = [pools EXCEPT ![pid] = up]
        /\ Pay(u, MetaNode, reward)
        /\ paid' = paid + reward
    BY <1>0, <1>2 DEF claim, TypeInv
  <1> HIDE DEF up, settled, reward
  <1>5. r \in UserRecord /\ r.amount = user.amount /\ r.requests = user.requests
    <2>1. r1 \in UserRecord /\ r1.amount = user.amount /\ r1.requests = user.requests
      BY <1>2 DEF UserRecord
    <2> HIDE DEF r1
    <2> QED BY <1>3, <2>1 DEF UserRecord
  <1>5a. balance' \in [AllTokens -> Nat] /\ wallet' \in [Users -> [AllTokens -> Nat]]
    <2>1. MetaNode \in AllTokens /\ reward \in Int /\ wallet[u][MetaNode] \in Nat
          /\ 0 <= wallet[u][MetaNode] + reward
      BY <1>0, <1>3 DEF AllTokens, TypeInv
    <2> QED BY <1>0, <1>3, <1>4, <2>1, PayTypes
  <1>6. UserCall(pid, u, r, up, 0, 0)
    <2>1. Held(user) \in Nat /\ user.amount \in Nat /\ Held(r) = Held(user)
      BY <1>2, <1>5, HeldNat DEF Held
    <2>2. MoneyMoves(pid, u, 0)
      BY <1>0, <1>3, <1>4, RewardMoves
    <2>3. wallet' \in [Users -> [AllTokens -> Nat]]
      BY <1>5a
    <2>4. poolCount' = poolCount /\ totalWeight' = totalWeight
      BY DEF claim, config
    <2> HIDE DEF r, user
    <2>5. Held(r) = Held(user) + 0 /\ r.amount = user.amount + 0
          /\ up.stTokenAmount = pools[pid].stTokenAmount + 0
      BY <1>1, <1>5, <2>1
    <2> QED BY <1>1, <1>4, <2>2, <2>3, <2>4, <2>5 DEF UserCall, user
  <1> HIDE DEF r
  <1>7. /\ UnusedPoolsAreEmpty' /\ StakeAccounting'
        /\ UserFundsConserved' /\ BooksBalance'
        /\ users' \in [PoolIds -> [Users -> UserRecord]]
        /\ pools' \in [PoolIds -> PoolRecord]
    <2>1. up \in PoolRecord /\ r \in UserRecord /\ 0 \in Int
      BY <1>1, <1>5
    <2> HIDE DEF user
    <2> QED BY <1>6, <2>1, UserCallKeepsAccounts
  <1>9. accrued' \in Nat /\ paid' \in Nat
    BY <1>0, <1>3, <1>4, RewardNat DEF claim, TypeInv
  <1>10. TypeInv'
    BY <1>0, <1>5a, <1>7, <1>9 DEF TypeInv, claim, config
  <1> QED BY <1>7, <1>10 DEF Inv

-----------------------------------------------------------------------------
(* massUpdatePools and the administrator's calls. *)

\* massUpdatePools writes accumulators and clocks only.
LEMMA MassUpdatedFields ==
    ASSUME TypeInv, CanMassUpdate
    PROVE  /\ MassUpdated \in [PoolIds -> PoolRecord]
           /\ \A p \in PoolIds :
                 /\ MassUpdated[p].poolAddress = pools[p].poolAddress
                 /\ MassUpdated[p].poolWeight = pools[p].poolWeight
                 /\ MassUpdated[p].stTokenAmount = pools[p].stTokenAmount
           /\ \A p \in PoolIds \ Pids : MassUpdated[p] = pools[p]
           /\ SumFunctionOnSet([p \in Pids |-> SharedOut(p)], Pids) \in Nat
  <1>1. \A p \in Pids : p \in PoolIds /\ CanUpdate(p)
    BY PidsArePools DEF CanMassUpdate
  <1>2. ASSUME NEW p \in PoolIds
        PROVE  /\ MassUpdated[p] \in PoolRecord
               /\ MassUpdated[p].poolAddress = pools[p].poolAddress
               /\ MassUpdated[p].poolWeight = pools[p].poolWeight
               /\ MassUpdated[p].stTokenAmount = pools[p].stTokenAmount
               /\ p \notin Pids => MassUpdated[p] = pools[p]
    <2>1. CASE p \in Pids
      <3>1. MassUpdated[p] = UpdatedPool(p)
        BY <2>1 DEF MassUpdated
      <3> QED BY <1>1, <2>1, <3>1, UpdatedPoolFields
    <2>2. CASE p \notin Pids
      <3>1. MassUpdated[p] = pools[p]
        BY <2>2 DEF MassUpdated
      <3> QED BY <2>2, <3>1 DEF TypeInv
    <2> QED BY <2>1, <2>2
  <1>3. SumFunctionOnSet([p \in Pids |-> SharedOut(p)], Pids) \in Nat
    <2> DEFINE f == [p \in Pids |-> SharedOut(p)]
    <2>1. \A p \in Pids : f[p] \in Nat
      BY <1>1, RewardNat
    <2> HIDE DEF f
    <2>2. SumFunctionOnSet(f, Pids) \in Nat
      BY <2>1, PidsArePools, SumNat
    <2> QED BY <2>2 DEF f
  <1>4. MassUpdated \in [PoolIds -> PoolRecord]
    <2>1. MassUpdated = [p \in PoolIds |-> MassUpdated[p]]
      BY DEF MassUpdated
    <2> QED BY <1>2, <2>1
  <1> QED BY <1>2, <1>3, <1>4

\* A step that leaves money, users and the pools' addresses, weights and stakes.
LEMMA PoolStepKeeps ==
    ASSUME Inv, users' = users, balance' = balance, wallet' = wallet, paid' = paid,
           poolCount' = poolCount, totalWeight' = totalWeight,
           \A p \in PoolIds : /\ pools'[p].poolAddress = pools[p].poolAddress
                             /\ pools'[p].poolWeight = pools[p].poolWeight
                             /\ pools'[p].stTokenAmount = pools[p].stTokenAmount
    PROVE  /\ UnusedPoolsAreEmpty' /\ StakeAccounting'
           /\ UserFundsConserved' /\ BooksBalance'
  <1>1. UnusedPoolsAreEmpty'
    BY DEF Inv, UnusedPoolsAreEmpty, Pids
  <1>2. StakeAccounting'
    BY DEF Inv, StakeAccounting
  <1>3. UserFundsConserved' /\ BooksBalance'
    BY PidsArePools, FundsStay DEF Inv
  <1> QED BY <1>1, <1>2, <1>3

\* massUpdatePools preserves the invariant.
LEMMA MassUpdateKeeps ==
    ASSUME Inv, massUpdatePools
    PROVE  Inv'
  <1>0. TypeInv /\ CanMassUpdate
    BY DEF Inv, massUpdatePools
  <1>1. pools' = MassUpdated /\ users' = users /\ balance' = balance /\ wallet' = wallet
        /\ paid' = paid /\ poolCount' = poolCount /\ totalWeight' = totalWeight
    BY DEF massUpdatePools, config, funds
  <1>2. /\ UnusedPoolsAreEmpty' /\ StakeAccounting'
        /\ UserFundsConserved' /\ BooksBalance'
    BY <1>0, <1>1, MassUpdatedFields, PoolStepKeeps
  <1>3. accrued' \in Nat
    BY <1>0, MassUpdatedFields DEF massUpdatePools, TypeInv
  <1>4. TypeInv'
    BY <1>0, <1>1, <1>3, MassUpdatedFields DEF TypeInv, massUpdatePools, config, funds
  <1> QED BY <1>2, <1>4 DEF Inv

\* A new pool comes with no stakes: nobody's holdings change.
LEMMA AddPoolHoldings ==
    ASSUME Inv, NEW token \in PoolTokens, NEW pool, pool.poolAddress = token,
           poolCount < MaxPools, poolCount' = poolCount + 1, users' = users,
           pools' = [pools EXCEPT ![poolCount] = pool]
    PROVE  \A v \in Users, t \in AllTokens : InContract(v, t)' = InContract(v, t)
  <1> TAKE v \in Users, t \in AllTokens
  <1> DEFINE c == poolCount
             D == PoolsOf(t)
             E == PoolsOf(t)'
             f == HeldIn(v, t)
             g == [p \in E |-> Held(users[p][v])]
  <1>0. /\ TypeInv /\ c \in PoolIds /\ c \notin Pids /\ Pids' = Pids \cup {c} /\ Pids \subseteq PoolIds
    <2>1. TypeInv /\ poolCount \in Nat /\ MaxPools \in Nat
      BY StakeAssumption DEF Inv, TypeInv
    <2> QED BY <2>1, PidsArePools DEF Pids, PoolIds
  <1>1. E = IF t = token THEN D \cup {c} ELSE D
    <2>1. \A p \in PoolIds : pools'[p] = IF p = c THEN pool ELSE pools[p]
      BY <1>0 DEF TypeInv
    <2> HIDE DEF c
    <2>2. E = {p \in Pids \cup {c} : pools'[p].poolAddress = t}
      BY <1>0 DEF PoolsOf
    <2> QED BY <1>0, <2>1, <2>2 DEF PoolsOf
  <1>2. IsFiniteSet(D) /\ c \notin D /\ \A p \in D : f[p] \in Int
    <2>1. IsFiniteSet(D)
      BY <1>0, PoolsOfFinite
    <2>2. c \notin D
      BY <1>0 DEF PoolsOf
    <2>3. \A p \in D : f[p] \in Nat
      BY <1>0, InContractNat
    <2> QED BY <2>1, <2>2, <2>3
  <1>3. InContract(v, t) = SumFunctionOnSet(f, D)
    BY InContractIsSum
  <1>4. InContract(v, t)' = SumFunctionOnSet(g, E)
    <2>1. InContract(v, t)' = SumFunctionOnSet(HeldIn(v, t)', PoolsOf(t)')
      BY DEF InContract, HeldIn, PoolsOf, Held, SumFunction
    <2> QED BY <2>1 DEF HeldIn, Held
  <1>5. Held(users[c][v]) = 0
    <2>1. users[c][v] = NoUser
      BY <1>0 DEF Inv, UnusedPoolsAreEmpty
    <2> QED BY <2>1, QueueSumEmpty DEF Held, NoUser
  <1>6. (\A p \in D : f[p] = g[p]) /\ (t = token => g[c] = 0)
    BY <1>1, <1>5 DEF HeldIn
  <1>6a. (\A p \in D : g[p] \in Int) /\ (t = token => \A p \in D \cup {c} : g[p] \in Int)
    BY <1>2, <1>6, SMTT(30)
  <1> HIDE DEF c, D, E, f, g
  <1>7. SumFunctionOnSet(f, D) = SumFunctionOnSet(g, D) /\ SumFunctionOnSet(g, D) \in Int
    BY <1>2, <1>6, <1>6a, SumSame, SumInt
  <1>8. CASE t = token
    <2>1. SumFunctionOnSet(g, D \cup {c}) = g[c] + SumFunctionOnSet(g, D)
      BY <1>2, <1>6a, <1>8, SumAddElement
    <2> QED BY <1>1, <1>3, <1>4, <1>6, <1>7, <1>8, <2>1
  <1>9. CASE t # token
    BY <1>1, <1>3, <1>4, <1>7, <1>9
  <1> QED BY <1>8, <1>9

\* addPool preserves the invariant.
LEMMA AddPoolKeeps ==
    ASSUME Inv, NEW token \in PoolTokens, NEW weight \in PoolWeights,
           NEW minDeposit \in MinDeposits, NEW locked \in LockBlocks,
           addPool(token, weight, minDeposit, locked)
    PROVE  Inv'
  <1> DEFINE c == poolCount
             pool == [poolAddress |-> token, poolWeight |-> weight, minDepositAmount |-> minDeposit,
                      lastRewardBlock |-> Maximum(block, schedule.startBlock),
                      accMetaNodePerST |-> 0, stTokenAmount |-> 0, unstakeLockedBlocks |-> locked]
  <1>0. TypeInv /\ poolCount < MaxPools /\ poolCount' = poolCount + 1 /\ users' = users
        /\ balance' = balance /\ wallet' = wallet /\ paid' = paid
        /\ totalWeight' = totalWeight + weight
        /\ pools' = [pools EXCEPT ![c] = pool]
    BY DEF Inv, addPool, funds
  <1>1. c \in PoolIds /\ c \notin Pids /\ Pids' = Pids \cup {c} /\ weight \in Nat
        /\ poolCount' \in 0 .. MaxPools
    <2>1. poolCount \in Nat /\ MaxPools \in Nat
      BY <1>0, StakeAssumption DEF TypeInv
    <2> QED BY <1>0, <2>1, StakeAssumption DEF Pids, PoolIds
  <1>2. pool \in PoolRecord
    <2>1. Maximum(block, schedule.startBlock) \in Nat
      BY <1>0, StakeAssumption DEF TypeInv, Maximum
    <2> QED BY <1>1, <2>1, StakeAssumption DEF PoolRecord
  <1>3. pools' \in [PoolIds -> PoolRecord]
        /\ \A p \in PoolIds : pools'[p] = IF p = c THEN pool ELSE pools[p]
    BY <1>0, <1>1, <1>2 DEF TypeInv
  <1>4. pool.poolAddress = token /\ pool.poolWeight = weight /\ pool.stTokenAmount = 0
    OBVIOUS
  <1> HIDE DEF pool
  <1>5. \A v \in Users, t \in AllTokens : InContract(v, t)' = InContract(v, t)
    BY <1>0, <1>4, AddPoolHoldings
  <1>6. UserFundsConserved'
    BY <1>0, <1>5 DEF Inv, UserFundsConserved, AllTokens
  <1>7. BooksBalance'
    BY <1>0, <1>5 DEF Inv, BooksBalance, HeldForStakers
  <1>8. UnusedPoolsAreEmpty'
    BY <1>0, <1>1, <1>3 DEF Inv, UnusedPoolsAreEmpty
  <1>9. totalWeight' = SumFunction([p \in PoolIds |-> pools'[p].poolWeight]) /\ totalWeight' \in Nat
    <2> DEFINE f == [p \in PoolIds |-> pools[p].poolWeight]
               g == [p \in PoolIds |-> pools'[p].poolWeight]
    <2>1. totalWeight = SumFunctionOnSet(f, PoolIds)
      BY DEF Inv, StakeAccounting, SumFunction
    <2>2. \A p \in PoolIds : f[p] \in Int
      BY <1>0 DEF TypeInv, PoolRecord
    <2>3. f[c] = 0 /\ g[c] = weight /\ \A p \in PoolIds \ {c} : g[p] = f[p]
      BY <1>1, <1>3, <1>4 DEF Inv, UnusedPoolsAreEmpty
    <2>4. totalWeight \in Nat
      BY <1>0 DEF TypeInv
    <2> HIDE DEF f, g
    <2>5. g[c] \in Int /\ IsFiniteSet(PoolIds)
      BY <1>0, <1>1, <2>3, PidsArePools
    <2>6. SumFunctionOnSet(g, PoolIds) = SumFunctionOnSet(f, PoolIds) + (g[c] - f[c])
      BY <1>1, <2>2, <2>3, <2>5, SumChange
    <2>7. totalWeight' = SumFunctionOnSet(g, PoolIds) /\ totalWeight' \in Nat
      BY <1>0, <1>1, <2>1, <2>3, <2>4, <2>6
    <2> QED BY <2>7 DEF g, SumFunction
  <1>10. \A p \in PoolIds :
            pools'[p].stTokenAmount = SumFunction([v \in Users |-> users'[p][v].amount])
    <2> TAKE p \in PoolIds
    <2>1. CASE p = c
      <3> DEFINE f == [v \in Users |-> users[c][v].amount]
      <3>1. users[c] = [v \in Users |-> NoUser]
        BY <1>1 DEF Inv, UnusedPoolsAreEmpty
      <3>2. \A v \in Users : f[v] = 0
        BY <3>1 DEF NoUser
      <3> HIDE DEF f
      <3>3. SumFunctionOnSet(f, Users) = 0
        BY <3>2, StakeAssumption, SumZero
      <3> QED BY <1>0, <1>3, <1>4, <2>1, <3>3 DEF f, SumFunction
    <2>2. CASE p # c
      BY <1>0, <1>3, <2>2 DEF Inv, StakeAccounting
    <2> QED BY <2>1, <2>2
  <1>11. StakeAccounting'
    BY <1>9, <1>10 DEF StakeAccounting
  <1>12. TypeInv'
    BY <1>0, <1>1, <1>3, <1>9 DEF TypeInv, addPool, funds
  <1> QED BY <1>6, <1>7, <1>8, <1>11, <1>12 DEF Inv

\* The external updatePool preserves the invariant.
LEMMA UpdatePoolKeeps ==
    ASSUME Inv, NEW pid \in Pids, NEW minDeposit \in MinDeposits, NEW locked \in LockBlocks,
           updatePool(pid, minDeposit, locked)
    PROVE  Inv'
  <1> DEFINE pool == [[pools[pid] EXCEPT !.minDepositAmount = minDeposit]
                          EXCEPT !.unstakeLockedBlocks = locked]
  <1>0. TypeInv /\ pid \in PoolIds
    BY PidsArePools DEF Inv
  <1>1. pools' = [pools EXCEPT ![pid] = pool]
    BY <1>0 DEF updatePool, TypeInv
  <1>2. /\ pool \in PoolRecord /\ pool.poolAddress = pools[pid].poolAddress
        /\ pool.poolWeight = pools[pid].poolWeight
        /\ pool.stTokenAmount = pools[pid].stTokenAmount
    <2>1. pools[pid] \in PoolRecord /\ minDeposit \in Nat /\ locked \in Nat
      BY <1>0, StakeAssumption DEF TypeInv
    <2> QED BY <2>1 DEF PoolRecord
  <1> HIDE DEF pool
  <1>3. pools' \in [PoolIds -> PoolRecord]
        /\ \A p \in PoolIds : pools'[p] = IF p = pid THEN pool ELSE pools[p]
    BY <1>0, <1>1, <1>2 DEF TypeInv
  <1>4. users' = users /\ balance' = balance /\ wallet' = wallet /\ paid' = paid
        /\ poolCount' = poolCount /\ totalWeight' = totalWeight
    BY DEF updatePool, config, funds
  <1>5. /\ UnusedPoolsAreEmpty' /\ StakeAccounting'
        /\ UserFundsConserved' /\ BooksBalance'
    BY <1>2, <1>3, <1>4, PoolStepKeeps
  <1>6. TypeInv'
    BY <1>0, <1>3 DEF TypeInv, updatePool, config, funds
  <1> QED BY <1>5, <1>6 DEF Inv

\* setPoolWeight preserves the invariant, with and without the update.
LEMMA SetPoolWeightKeeps ==
    ASSUME Inv, NEW pid \in Pids, NEW weight \in PoolWeights, NEW withUpdate \in BOOLEAN,
           setPoolWeight(pid, weight, withUpdate)
    PROVE  Inv'
  <1> DEFINE base == IF withUpdate THEN MassUpdated ELSE pools
  <1>0. TypeInv /\ pid \in PoolIds /\ weight \in Nat /\ (withUpdate => CanMassUpdate)
    BY PidsArePools, StakeAssumption DEF Inv, setPoolWeight
  <1>1. /\ base \in [PoolIds -> PoolRecord]
        /\ \A p \in PoolIds : /\ base[p].poolAddress = pools[p].poolAddress
                              /\ base[p].poolWeight = pools[p].poolWeight
                              /\ base[p].stTokenAmount = pools[p].stTokenAmount
        /\ \A p \in PoolIds \ Pids : base[p] = pools[p]
    <2>1. CASE withUpdate
      BY <1>0, <2>1, MassUpdatedFields
    <2>2. CASE ~withUpdate
      BY <1>0, <2>2 DEF TypeInv
    <2> QED BY <2>1, <2>2
  <1>2. /\ pools' = [base EXCEPT ![pid] = [base[pid] EXCEPT !.poolWeight = weight]]
        /\ totalWeight' = totalWeight - pools[pid].poolWeight + weight
        /\ users' = users /\ balance' = balance /\ wallet' = wallet /\ paid' = paid
        /\ poolCount' = poolCount
    BY <1>0, <1>1 DEF setPoolWeight, ReweightedTotal, funds
  <1> HIDE DEF base
  <1>3. /\ pools' \in [PoolIds -> PoolRecord]
        /\ \A p \in PoolIds : /\ pools'[p].poolAddress = pools[p].poolAddress
                              /\ pools'[p].stTokenAmount = pools[p].stTokenAmount
                              /\ pools'[p].poolWeight = IF p = pid THEN weight ELSE pools[p].poolWeight
    BY <1>0, <1>1, <1>2 DEF PoolRecord
  <1>4. UnusedPoolsAreEmpty'
    BY <1>2, <1>3 DEF Inv, UnusedPoolsAreEmpty, Pids
  <1>5. totalWeight' = SumFunction([p \in PoolIds |-> pools'[p].poolWeight]) /\ totalWeight' \in Nat
    <2> DEFINE f == [p \in PoolIds |-> pools[p].poolWeight]
               g == [p \in PoolIds |-> pools'[p].poolWeight]
    <2>1. totalWeight = SumFunctionOnSet(f, PoolIds)
      BY DEF Inv, StakeAccounting, SumFunction
    <2>2. \A p \in PoolIds : f[p] \in Int /\ g[p] \in Nat
      BY <1>0, <1>3 DEF TypeInv, PoolRecord
    <2>3. f[pid] = pools[pid].poolWeight /\ g[pid] = weight /\ \A p \in PoolIds \ {pid} : g[p] = f[p]
      BY <1>0, <1>3
    <2>4. totalWeight \in Nat
      BY <1>0 DEF TypeInv
    <2> HIDE DEF f, g
    <2>5. g[pid] \in Int /\ f[pid] \in Int /\ IsFiniteSet(PoolIds)
      BY <1>0, <2>2, PidsArePools
    <2>6. SumFunctionOnSet(g, PoolIds) = SumFunctionOnSet(f, PoolIds) + (g[pid] - f[pid])
      BY <1>0, <2>2, <2>3, <2>5, SumChange
    <2>7. totalWeight' = SumFunctionOnSet(g, PoolIds)
      BY <1>0, <1>2, <2>1, <2>3, <2>4, <2>5, <2>6
    <2>8. SumFunctionOnSet(g, PoolIds) \in Nat
      BY <2>2, <2>5, SumNat
    <2> QED BY <2>7, <2>8 DEF g, SumFunction
  <1>6. StakeAccounting'
    BY <1>2, <1>3, <1>5 DEF Inv, StakeAccounting
  <1>7. UserFundsConserved' /\ BooksBalance'
    BY <1>0, <1>2, <1>3, PidsArePools, FundsStay
  <1>8. accrued' \in Nat
    BY <1>0, MassUpdatedFields DEF setPoolWeight, TypeInv
  <1>9. TypeInv'
    BY <1>0, <1>3, <1>5, <1>8 DEF TypeInv, setPoolWeight, funds
  <1> QED BY <1>4, <1>6, <1>7, <1>9 DEF Inv

\* So do the steps that touch neither pools nor users.
LEMMA ConfigStepKeeps ==
    ASSUME Inv, AdvanceBlock \/ (\E rate \in Rates : setMetaNodePerBlock(rate))
                \/ (\E start \in StartBlocks : setStartBlock(start))
                \/ (\E end \in EndBlocks : setEndBlock(end))
                \/ pausedWithdraw \/ unpauseWithdraw \/ pauseClaim \/ unpauseClaim
    PROVE  Inv'
  <1> USE DEF Inv
  <1>1. /\ pools' = pools /\ users' = users /\ balance' = balance /\ wallet' = wallet
        /\ poolCount' = poolCount /\ totalWeight' = totalWeight
        /\ accrued' = accrued /\ paid' = paid /\ rounded' = rounded
    BY DEF AdvanceBlock, setMetaNodePerBlock, setStartBlock, setEndBlock, SetSchedule,
           pausedWithdraw, unpauseWithdraw, pauseClaim, unpauseClaim, SetPauses, config, funds
  <1>2. /\ UnusedPoolsAreEmpty' /\ StakeAccounting'
        /\ UserFundsConserved' /\ BooksBalance'
    <2> HIDE DEF Inv
    <2> QED BY <1>1, PoolStepKeeps
  <1>3. TypeInv'
    <2>1. CASE AdvanceBlock
      BY <1>1, <2>1, StakeAssumption DEF TypeInv, AdvanceBlock, config
    <2>2. CASE \E rate \in Rates : setMetaNodePerBlock(rate)
      BY <1>1, <2>2, StakeAssumption DEF TypeInv, setMetaNodePerBlock, SetSchedule
    <2>3. CASE \E start \in StartBlocks : setStartBlock(start)
      BY <1>1, <2>3, StakeAssumption DEF TypeInv, setStartBlock, SetSchedule
    <2>4. CASE \E end \in EndBlocks : setEndBlock(end)
      BY <1>1, <2>4, StakeAssumption DEF TypeInv, setEndBlock, SetSchedule
    <2>5. CASE pausedWithdraw \/ unpauseWithdraw \/ pauseClaim \/ unpauseClaim
      BY <1>1, <2>5 DEF TypeInv, pausedWithdraw, unpauseWithdraw, pauseClaim, unpauseClaim, SetPauses
    <2> QED BY <2>1, <2>2, <2>3, <2>4, <2>5
  <1> QED BY <1>2, <1>3

\* The invariant holds after initialize().
LEMMA InitInv ==
    ASSUME Init
    PROVE  Inv
  <1>1. TypeInv
    <2>1. NoUser \in UserRecord
      BY DEF NoUser, UserRecord
    <2>2. NoPool \in PoolRecord
      BY DEF NoPool, PoolRecord, PoolTokens
    <2>3. schedule \in [startBlock: Nat, endBlock: Nat, metaNodePerBlock: Nat]
      BY StakeAssumption DEF Init
    <2>4. pools \in [PoolIds -> PoolRecord] /\ users \in [PoolIds -> [Users -> UserRecord]]
      BY <2>1, <2>2 DEF Init
    <2>5. /\ balance \in [AllTokens -> Nat] /\ wallet \in [Users -> [AllTokens -> Nat]]
      BY StakeAssumption DEF Init
    <2>6. /\ block = 0 /\ poolCount = 0 /\ totalWeight = 0
          /\ accrued = 0 /\ paid = 0 /\ rounded = 0
          /\ withdrawPaused = FALSE /\ claimPaused = FALSE
      BY DEF Init
    <2>7. 0 \in 0 .. MaxBlock /\ 0 \in 0 .. MaxPools
      BY StakeAssumption
    <2> QED BY <2>3, <2>4, <2>5, <2>6, <2>7 DEF TypeInv
  <1>2. \A p \in PoolIds : users[p] = [u \in Users |-> NoUser] /\ pools[p] = NoPool
    BY DEF Init
  <1>3. UnusedPoolsAreEmpty
    BY <1>2 DEF UnusedPoolsAreEmpty, NoPool
  <1>4. StakeAccounting
    <2>1. ASSUME NEW p \in PoolIds
          PROVE  pools[p].stTokenAmount = SumFunction([u \in Users |-> users[p][u].amount])
      <3> DEFINE f == [u \in Users |-> users[p][u].amount]
      <3>1. \A u \in Users : f[u] = 0
        BY <1>2 DEF NoUser
      <3>2. pools[p].stTokenAmount = 0
        BY <1>2 DEF NoPool
      <3> HIDE DEF f
      <3>3. SumFunctionOnSet(f, Users) = 0
        BY <3>1, StakeAssumption, SumZero
      <3> QED BY <3>2, <3>3 DEF f, SumFunction
    <2>2. totalWeight = SumFunction([p \in PoolIds |-> pools[p].poolWeight])
      <3> DEFINE f == [p \in PoolIds |-> pools[p].poolWeight]
      <3>1. \A p \in PoolIds : f[p] = 0
        BY <1>2 DEF NoPool
      <3>2. totalWeight = 0
        BY DEF Init
      <3> HIDE DEF f
      <3>3. SumFunctionOnSet(f, PoolIds) = 0
        BY <1>1, <3>1, PidsArePools, SumZero
      <3> QED BY <3>2, <3>3 DEF f, SumFunction
    <2> QED BY <2>1, <2>2 DEF StakeAccounting
  <1>5. \A u, t : InContract(u, t) = 0
    <2> TAKE u, t
    <2>1. PoolsOf(t) = {}
      BY DEF Init, PoolsOf, Pids
    <2> QED BY <2>1, InContractIsSum, SumEmpty
  <1>6. UserFundsConserved
    <2>1. \A u \in Users, t \in PoolTokens : wallet[u][t] = Wallet
      BY DEF Init, AllTokens
    <2> QED BY <1>5, <2>1, StakeAssumption DEF UserFundsConserved
  <1>7. BooksBalance
    <2> SUFFICES ASSUME NEW t \in AllTokens
                 PROVE  HeldForStakers(t) = SumFunction([u \in Users |-> InContract(u, t)])
      BY DEF BooksBalance
    <2> DEFINE f == [u \in Users |-> InContract(u, t)]
    <2>1. HeldForStakers(t) = 0
      BY StakeAssumption DEF Init, HeldForStakers
    <2>2. \A u \in Users : f[u] = 0
      BY <1>5
    <2> HIDE DEF f
    <2>3. SumFunctionOnSet(f, Users) = 0
      BY <2>2, StakeAssumption, SumZero
    <2> QED BY <2>1, <2>3 DEF f, SumFunction
  <1> QED BY <1>1, <1>3, <1>4, <1>6, <1>7 DEF Inv

\* Every step preserves it.
LEMMA StepInv ==
    ASSUME Inv, [Next]_vars
    PROVE  Inv'
  <1>1. ASSUME NEW token \in PoolTokens, NEW weight \in PoolWeights,
               NEW minDeposit \in MinDeposits, NEW locked \in LockBlocks,
               addPool(token, weight, minDeposit, locked)
        PROVE  Inv'
    BY <1>1, AddPoolKeeps
  <1>2. ASSUME NEW pid \in Pids, NEW minDeposit \in MinDeposits, NEW locked \in LockBlocks,
               updatePool(pid, minDeposit, locked)
        PROVE  Inv'
    BY <1>2, UpdatePoolKeeps
  <1>3. ASSUME NEW pid \in Pids, NEW weight \in PoolWeights, NEW withUpdate \in BOOLEAN,
               setPoolWeight(pid, weight, withUpdate)
        PROVE  Inv'
    BY <1>3, SetPoolWeightKeeps
  <1>4. ASSUME NEW u \in Users, NEW amount \in Amounts, depositETH(u, amount)
        PROVE  Inv'
    BY <1>4, DepositKeeps DEF depositETH
  <1>5. ASSUME NEW u \in Users, NEW pid \in Pids, NEW amount \in Amounts, deposit(u, pid, amount)
        PROVE  Inv'
    BY <1>5, DepositKeeps DEF deposit
  <1>6. ASSUME NEW u \in Users, NEW pid \in Pids, NEW amount \in Amounts, unstake(u, pid, amount)
        PROVE  Inv'
    BY <1>6, UnstakeKeeps
  <1>7. ASSUME NEW u \in Users, NEW pid \in Pids, withdraw(u, pid)
        PROVE  Inv'
    BY <1>7, WithdrawKeeps
  <1>8. ASSUME NEW u \in Users, NEW pid \in Pids, claim(u, pid)
        PROVE  Inv'
    BY <1>8, ClaimKeeps
  <1>9. CASE massUpdatePools
    BY <1>9, MassUpdateKeeps
  <1>10. CASE AdvanceBlock \/ (\E rate \in Rates : setMetaNodePerBlock(rate))
                \/ (\E start \in StartBlocks : setStartBlock(start))
                \/ (\E end \in EndBlocks : setEndBlock(end))
                \/ pausedWithdraw \/ unpauseWithdraw \/ pauseClaim \/ unpauseClaim
    BY <1>10, ConfigStepKeeps
  <1>11. CASE UNCHANGED vars
    <2>1. TypeInv'
      BY <1>11 DEF vars, Inv, TypeInv
    <2> QED BY <1>11, <2>1, PoolStepKeeps DEF vars, Inv
  <1> QED BY <1>1, <1>2, <1>3, <1>4, <1>5, <1>6, <1>7, <1>8, <1>9, <1>10, <1>11
          DEF Next, AdminNext, UserNext

\* The invariant holds in every reachable state, for any users, tokens, amounts,
\* rates and number of pools.
THEOREM StakeInvariant == Spec => []Inv
  BY InitInv, StepInv, PTL DEF Spec

-----------------------------------------------------------------------------
(* What one step can do to one user's record. *)

\* A deposit leaves the queue and adds to what is pending.
Deposits(p, v) ==
    /\ users'[p][v].requests = users[p][v].requests
    /\ users'[p][v].pendingMetaNode >= users[p][v].pendingMetaNode

\* The pending reward becomes what the stake has earned since it was settled.
Replaces(p, v) ==
    LET acc == pools'[p].accMetaNodePerST
    IN  /\ users'[p][v].pendingMetaNode > 0
        /\ users'[p][v].pendingMetaNode
              = Settled(users[p][v].amount, acc) - users[p][v].finishedMetaNode
        /\ users'[p][v].finishedMetaNode = Settled(users'[p][v].amount, acc)

\* unstake appends at most one request, with the lock period of the pool.
Unstakes(p, v) ==
    /\ \/ users'[p][v].requests = users[p][v].requests
       \/ \E request \in Request :
             /\ request.unlockBlock = block + pools[p].unstakeLockedBlocks
             /\ users'[p][v].requests = Append(users[p][v].requests, request)
    /\ \/ Replaces(p, v)
       \/ users'[p][v].pendingMetaNode = users[p][v].pendingMetaNode

\* withdraw pops requests that are unlocked.
Withdraws(p, v) ==
    /\ ~withdrawPaused
    /\ LET old == users[p][v].requests
       IN  \E n \in 0 .. Len(old) :
             /\ users'[p][v].requests = SubSeq(old, n + 1, Len(old))
             /\ \A i \in 1 .. n : old[i].unlockBlock <= block
    /\ users'[p][v].pendingMetaNode = users[p][v].pendingMetaNode

\* claim leaves the queue and pays what is pending, as far as the fund goes.
Claims(p, v) ==
    /\ users'[p][v].requests = users[p][v].requests
    /\ users'[p][v].pendingMetaNode = 0
    /\ LET owed == Minimum(users[p][v].pendingMetaNode, balance[MetaNode])
       IN  paid' >= paid + owed /\ wallet'[v][MetaNode] >= wallet[v][MetaNode] + owed

\* Every step is one of these for every record.
RecordStep(p, v) ==
    \/ users'[p][v] = users[p][v]
    \/ Deposits(p, v) \/ Unstakes(p, v) \/ Withdraws(p, v) \/ Claims(p, v)

\* _deposit is a Deposits step for its user and leaves the others alone.
LEMMA DepositStep ==
    ASSUME Inv, NEW u \in Users, NEW pid \in Pids, NEW amount \in Amounts,
           _deposit(u, pid, amount), NEW p \in PoolIds, NEW v \in Users
    PROVE  RecordStep(p, v)
  <1> DEFINE user == users[pid][u]
             acc == UpdatedPool(pid).accMetaNodePerST
             r == Deposited(user, acc, amount)
  <1>1. TypeInv /\ pid \in PoolIds /\ CanUpdate(pid) /\ amount \in Nat
    BY PidsArePools, StakeAssumption DEF Inv, _deposit
  <1>2. users'[p][v] = IF p = pid /\ v = u THEN r ELSE users[p][v]
    <2>1. users' = [users EXCEPT ![pid][u] = r]
      BY DEF _deposit
    <2> HIDE DEF r
    <2> QED BY <1>1, <2>1 DEF TypeInv
  <1>3. user \in UserRecord
    BY <1>1 DEF TypeInv
  <1>4. acc \in Nat
    BY <1>1, UpdatedPoolFields DEF PoolRecord
  <1>5. user.amount > 0 => user.amount * acc >= user.finishedMetaNode
    BY DEF _deposit
  <1>6. r.requests = user.requests /\ r.pendingMetaNode >= user.pendingMetaNode
    <2> HIDE DEF user, acc
    <2> QED BY <1>1, <1>3, <1>4, <1>5, DepositedRecord
  <1> HIDE DEF r
  <1> QED BY <1>2, <1>6 DEF RecordStep, Deposits

\* unstake is an Unstakes step for its user and leaves the others alone.
LEMMA UnstakeStep ==
    ASSUME Inv, NEW u \in Users, NEW pid \in Pids, NEW amount \in Amounts,
           unstake(u, pid, amount), NEW p \in PoolIds, NEW v \in Users
    PROVE  RecordStep(p, v)
  <1> DEFINE user == users[pid][u]
             acc == UpdatedPool(pid).accMetaNodePerST
             unlockBlock == block + UpdatedPool(pid).unstakeLockedBlocks
             request == [amount |-> amount, unlockBlock |-> unlockBlock]
             r == Unstaked(user, acc, amount, unlockBlock)
  <1>1. TypeInv /\ pid \in PoolIds /\ CanUpdate(pid) /\ amount \in Nat
    BY PidsArePools, StakeAssumption DEF Inv, unstake, CanUnstake
  <1>2. users'[p][v] = IF p = pid /\ v = u THEN r ELSE users[p][v]
    <2>1. users' = [users EXCEPT ![pid][u] = r]
      BY DEF unstake
    <2> HIDE DEF r
    <2> QED BY <1>1, <2>1 DEF TypeInv
  <1>3. user \in UserRecord
    BY <1>1 DEF TypeInv
  <1>4. acc \in Nat
    BY <1>1, UpdatedPoolFields DEF PoolRecord
  <1>5. unlockBlock \in Nat /\ unlockBlock = block + pools[pid].unstakeLockedBlocks
    <2>1. UpdatedPool(pid).unstakeLockedBlocks = pools[pid].unstakeLockedBlocks
      BY <1>1, UpdatedPoolFields
    <2>2. pools[pid].unstakeLockedBlocks \in Nat
      BY <1>1 DEF TypeInv, PoolRecord
    <2>3. block \in Nat
      BY <1>1, StakeAssumption DEF TypeInv
    <2> QED BY <2>1, <2>2, <2>3
  <1>6. amount <= user.amount /\ Settled(user.amount, acc) >= user.finishedMetaNode
    BY DEF unstake, CanUnstake
  <1>7. /\ r.requests = IF amount > 0
                        THEN Append(user.requests, [amount |-> amount, unlockBlock |-> unlockBlock])
                        ELSE user.requests
        /\ \/ /\ r.pendingMetaNode > 0
              /\ r.pendingMetaNode = Settled(user.amount, acc) - user.finishedMetaNode
           \/ r.pendingMetaNode = user.pendingMetaNode
        /\ r.finishedMetaNode = Settled(user.amount - amount, acc)
        /\ r.amount = user.amount - amount
    <2> HIDE DEF user, acc, unlockBlock
    <2>1. unlockBlock \in Nat /\ amount \in Nat
      BY <1>1, <1>5
    <2> QED BY <1>3, <1>4, <1>6, <2>1, UnstakedRecord
  <1>8. amount > 0 => request \in Request /\ request.unlockBlock = block + pools[pid].unstakeLockedBlocks
    <2> HIDE DEF unlockBlock
    <2> QED BY <1>1, <1>5 DEF Request
  <1>9. r.requests = IF amount > 0 THEN Append(user.requests, request) ELSE user.requests
    BY <1>7
  <1>9a. pools'[pid].accMetaNodePerST = acc
    <2>1. UpdatedPool(pid) \in PoolRecord
      BY <1>1, UpdatedPoolFields
    <2>2. pools'[pid] = [UpdatedPool(pid) EXCEPT !.stTokenAmount = @ - amount]
      BY <1>1 DEF unstake, TypeInv
    <2> QED BY <2>1, <2>2 DEF PoolRecord
  <1> HIDE DEF r, request
  <1>10. CASE p = pid /\ v = u
    <2>1. users'[pid][u] = r
      BY <1>2, <1>10
    <2>2. \/ users'[pid][u].requests = user.requests
          \/ \E req \in Request :
                /\ req.unlockBlock = block + pools[pid].unstakeLockedBlocks
                /\ users'[pid][u].requests = Append(user.requests, req)
      BY <1>8, <1>9, <2>1
    <2>3. Replaces(pid, u) \/ users'[pid][u].pendingMetaNode = user.pendingMetaNode
      <3>1. pools'[pid].accMetaNodePerST = acc
        BY <1>9a
      <3> HIDE DEF acc
      <3> QED BY <1>7, <2>1, <3>1 DEF Replaces
    <2>4. Unstakes(pid, u)
      BY <2>2, <2>3 DEF Unstakes
    <2> QED BY <1>10, <2>4 DEF RecordStep
  <1>11. CASE ~(p = pid /\ v = u)
    BY <1>2, <1>11 DEF RecordStep
  <1> QED BY <1>10, <1>11

\* withdraw is a Withdraws step for its user and leaves the others alone.
LEMMA WithdrawStep ==
    ASSUME Inv, NEW u \in Users, NEW pid \in Pids, withdraw(u, pid),
           NEW p \in PoolIds, NEW v \in Users
    PROVE  RecordStep(p, v)
  <1> DEFINE user == users[pid][u]
             queue == user.requests
             n == popNum(queue)
             left == SubSeq(queue, n + 1, Len(queue))
             r == [user EXCEPT !.requests = left]
  <1>1. TypeInv /\ pid \in PoolIds
    BY PidsArePools DEF Inv
  <1>2. user \in UserRecord
    BY <1>1 DEF TypeInv
  <1>3. queue \in Seq(Request) /\ block \in Nat
    BY <1>1, <1>2, StakeAssumption DEF TypeInv, UserRecord
  <1>4. users' = [users EXCEPT ![pid][u] = r]
    BY <1>1 DEF withdraw, TypeInv
  <1>5. users'[p][v] = IF p = pid /\ v = u THEN r ELSE users[p][v]
    <2> HIDE DEF r
    <2> QED BY <1>1, <1>4 DEF TypeInv
  <1>6. n \in 0 .. Len(queue) /\ \A i \in 1 .. n : queue[i].unlockBlock <= block
    BY <1>3, PopNumSpec
  <1>7. ~withdrawPaused
    BY DEF withdraw
  <1> HIDE DEF n
  <1>8. r.requests = left /\ r.pendingMetaNode = user.pendingMetaNode
    BY <1>2 DEF UserRecord
  <1> HIDE DEF r
  <1> QED BY <1>5, <1>6, <1>7, <1>8 DEF RecordStep, Withdraws

\* claim is a Claims step for its user and leaves the others alone.
LEMMA ClaimStep ==
    ASSUME Inv, NEW u \in Users, NEW pid \in Pids, claim(u, pid),
           NEW p \in PoolIds, NEW v \in Users
    PROVE  RecordStep(p, v)
  <1> DEFINE user == users[pid][u]
             settled == Settled(user.amount, UpdatedPool(pid).accMetaNodePerST)
             reward == Minimum(settled - user.finishedMetaNode + user.pendingMetaNode,
                               balance[MetaNode])
             owed == Minimum(user.pendingMetaNode, balance[MetaNode])
             r1 == [user EXCEPT !.pendingMetaNode = 0]
             r == [r1 EXCEPT !.finishedMetaNode = settled]
  <1>1. TypeInv /\ pid \in PoolIds /\ CanClaim(u, pid)
    BY PidsArePools DEF Inv, claim
  <1>2. user \in UserRecord
    BY <1>1 DEF TypeInv
  <1>3. users' = [users EXCEPT ![pid][u] = r] /\ paid' = paid + reward
    BY <1>1, <1>2 DEF claim, TypeInv
  <1>4. users'[p][v] = IF p = pid /\ v = u THEN r ELSE users[p][v]
    <2> HIDE DEF r
    <2> QED BY <1>1, <1>3 DEF TypeInv
  <1>5. reward \in Nat /\ owed <= reward
    BY <1>1, ClaimedReward
  <1>6. paid' >= paid + owed
    <2>1. paid \in Nat
      BY <1>1 DEF TypeInv
    <2>2. user.pendingMetaNode \in Nat /\ balance[MetaNode] \in Nat
      BY <1>1, <1>2 DEF TypeInv, UserRecord, AllTokens
    <2>3. owed \in Nat
      BY <2>2 DEF Minimum
    <2> HIDE DEF owed, reward
    <2> QED BY <1>3, <1>5, <2>1, <2>3
  <1>6a. wallet'[u][MetaNode] >= wallet[u][MetaNode] + owed
    <2>1. wallet[u][MetaNode] \in Nat /\ MetaNode \in AllTokens
      BY <1>1, HeldForStakersInt DEF AllTokens
    <2>2. wallet' = [wallet EXCEPT ![u] =
                       [wallet[u] EXCEPT ![MetaNode] = wallet[u][MetaNode] + reward]]
      BY DEF claim, Pay
    <2>3. user.pendingMetaNode \in Nat /\ balance[MetaNode] \in Nat
      BY <1>1, <1>2 DEF TypeInv, UserRecord, AllTokens
    <2>4. owed \in Nat
      BY <2>3 DEF Minimum
    <2> HIDE DEF owed, reward
    <2>5. wallet'[u][MetaNode] = wallet[u][MetaNode] + reward
      BY <1>1, <2>1, <2>2 DEF TypeInv
    <2> QED BY <1>5, <2>1, <2>4, <2>5
  <1>7. r.requests = user.requests /\ r.pendingMetaNode = 0
    <2>1. r1 \in UserRecord /\ r1.requests = user.requests /\ r1.pendingMetaNode = 0
      BY <1>2 DEF UserRecord
    <2> HIDE DEF r1
    <2> QED BY <2>1 DEF UserRecord
  <1> HIDE DEF r
  <1> QED BY <1>4, <1>6, <1>6a, <1>7 DEF RecordStep, Claims

\* No call and no other step does anything else to a record.
LEMMA EveryRecordStep ==
    ASSUME Inv, [Next]_vars, NEW p \in PoolIds, NEW v \in Users
    PROVE  RecordStep(p, v)
  <1>1. CASE users' = users
    BY <1>1 DEF RecordStep
  <1>2. CASE AdvanceBlock \/ AdminNext \/ massUpdatePools \/ UNCHANGED vars
    <2>1. users' = users
      BY <1>2 DEF AdvanceBlock, AdminNext, addPool, updatePool, setPoolWeight, setMetaNodePerBlock,
                  setStartBlock, setEndBlock, SetSchedule, pausedWithdraw, unpauseWithdraw,
                  pauseClaim, unpauseClaim, SetPauses, massUpdatePools, funds, vars
    <2> QED BY <1>1, <2>1
  <1>3. ASSUME NEW u \in Users, NEW amount \in Amounts, depositETH(u, amount)
        PROVE  RecordStep(p, v)
    BY <1>3, DepositStep DEF depositETH
  <1>4. ASSUME NEW u \in Users, NEW pid \in Pids, NEW amount \in Amounts, deposit(u, pid, amount)
        PROVE  RecordStep(p, v)
    BY <1>4, DepositStep DEF deposit
  <1>5. ASSUME NEW u \in Users, NEW pid \in Pids, NEW amount \in Amounts, unstake(u, pid, amount)
        PROVE  RecordStep(p, v)
    BY <1>5, UnstakeStep
  <1>6. ASSUME NEW u \in Users, NEW pid \in Pids, withdraw(u, pid)
        PROVE  RecordStep(p, v)
    BY <1>6, WithdrawStep
  <1>7. ASSUME NEW u \in Users, NEW pid \in Pids, claim(u, pid)
        PROVE  RecordStep(p, v)
    BY <1>7, ClaimStep
  <1> QED BY <1>2, <1>3, <1>4, <1>5, <1>6, <1>7 DEF Next, UserNext

-----------------------------------------------------------------------------
(* The theorems. *)

\* Storage and balances keep their types whatever the calls: no checked
\* subtraction of the model goes below zero.
THEOREM TypeCorrect == Spec => []TypeOK
  <1>1. Inv => TypeOK
    BY TypeInvTypeOK DEF Inv
  <1> QED BY <1>1, StakeInvariant, PTL

\* stTokenAmount is always the sum of the stakes, and totalWeight that of the
\* weights.
THEOREM StakesAccounted == Spec => []StakeAccounting
  <1>1. Inv => StakeAccounting
    BY DEF Inv
  <1> QED BY <1>1, StakeInvariant, PTL

\* Wallet, stake and requests of a user always add up to what the user had,
\* and of MetaNode to at least that.
THEOREM FundsConserved == Spec => []UserFundsConserved
  <1>1. Inv => UserFundsConserved
    BY DEF Inv
  <1> QED BY <1>1, StakeInvariant, PTL

\* The contract's balance of a token is what its users staked or asked back and,
\* of MetaNode, what is left of the reward fund, also if MetaNode is staked.
THEOREM BooksBalanced == Spec => []BooksBalance
  <1>1. Inv => BooksBalance
    BY DEF Inv
  <1> QED BY <1>1, StakeInvariant, PTL

\* What users have in the contract of a token is there to be paid back, unless
\* the token is MetaNode and claims have paid out more than the reward fund.
StakesCovered ==
    \A token \in AllTokens :
        \/ SumFunction([u \in Users |-> InContract(u, token)]) <= balance[token]
        \/ token = MetaNode /\ paid > RewardFund

\* Stakes are covered, for any number of users and pools, whatever the token.
THEOREM Solvent == Spec => []StakesCovered
  <1>1. Inv => StakesCovered
    <2> SUFFICES ASSUME Inv, NEW token \in AllTokens
                 PROVE  \/ HeldForStakers(token) <= balance[token]
                        \/ token = MetaNode /\ paid > RewardFund
      BY DEF Inv, BooksBalance, StakesCovered
    <2>1. balance[token] \in Nat /\ paid \in Nat /\ RewardFund \in Nat
      BY StakeAssumption DEF Inv, TypeInv
    <2> QED BY <2>1 DEF HeldForStakers
  <1> QED BY <1>1, StakeInvariant, PTL

\* Queues lose unlocked requests at the front, gain one at the end that unlocks
\* after the lock period, and change in no other way.
THEOREM LocksRespected == Spec => LockRespected
  <1> DEFINE Respects(pid, u) ==
               LET old == users[pid][u].requests
                   new == users'[pid][u].requests
               IN  \/ new = old
                   \/ /\ Len(new) = Len(old) + 1
                      /\ SubSeq(new, 1, Len(old)) = old
                      /\ new[Len(new)].unlockBlock = block + pools[pid].unstakeLockedBlocks
                   \/ /\ ~withdrawPaused
                      /\ \E n \in 1 .. Len(old) :
                            /\ new = SubSeq(old, n + 1, Len(old))
                            /\ \A i \in 1 .. n : old[i].unlockBlock <= block
  <1>1. ASSUME Inv, [Next]_vars, NEW pid \in PoolIds, NEW u \in Users
        PROVE  Respects(pid, u)
    <2> DEFINE old == users[pid][u].requests
               new == users'[pid][u].requests
    <2>1. old \in Seq(Request)
      BY <1>1 DEF Inv, TypeInv, UserRecord
    <2>2. RecordStep(pid, u)
      BY <1>1, EveryRecordStep
    <2>3. CASE new = old
      BY <2>3
    <2>4. CASE Unstakes(pid, u) /\ new # old
      <3>1. PICK request \in Request :
               /\ request.unlockBlock = block + pools[pid].unstakeLockedBlocks
               /\ new = Append(old, request)
        BY <2>4 DEF Unstakes
      <3> HIDE DEF old, new
      <3>2. Len(new) = Len(old) + 1 /\ new[Len(new)] = request
        BY <2>1, <3>1
      <3>3. SubSeq(new, 1, Len(old)) = old
        BY <2>1, <3>1, AppendKeepsPrefix
      <3> QED BY <3>1, <3>2, <3>3, SMTT(30) DEF old, new
    <2>5. CASE Withdraws(pid, u) /\ new # old
      <3>1. PICK n \in 0 .. Len(old) :
               /\ new = SubSeq(old, n + 1, Len(old))
               /\ \A i \in 1 .. n : old[i].unlockBlock <= block
        BY <2>5 DEF Withdraws
      <3>2. n # 0
        <4> HIDE DEF old, new
        <4>1. SubSeq(old, 1, Len(old)) = old
          BY <2>1, SubSeqFull
        <4> QED BY <2>5, <3>1, <4>1
      <3>3. n \in 1 .. Len(old)
        BY <2>1, <3>2
      <3> QED BY <2>5, <3>1, <3>3 DEF Withdraws
    <2> QED BY <2>2, <2>3, <2>4, <2>5 DEF RecordStep, Deposits, Claims
  <1> DEFINE All == \A pid \in PoolIds, u \in Users : Respects(pid, u)
  <1>2. Inv /\ [Next]_vars => [All]_vars
    BY <1>1
  <1> QED BY <1>2, StakeInvariant, PTL DEF Spec, LockRespected

\* A pending reward gets smaller only when claim pays it or unstake replaces it.
THEOREM PendingAccounted == Spec => PendingPaidOrReplaced
  <1> DEFINE Kept(pid, u) ==
               LET old == users[pid][u]
                   new == users'[pid][u]
                   acc == pools'[pid].accMetaNodePerST
                   owed == Minimum(old.pendingMetaNode, balance[MetaNode])
               IN  new.pendingMetaNode < old.pendingMetaNode =>
                     \/ /\ new.pendingMetaNode = 0
                        /\ paid' >= paid + owed
                        /\ wallet'[u][MetaNode] >= wallet[u][MetaNode] + owed
                     \/ /\ new.pendingMetaNode > 0
                        /\ new.pendingMetaNode = Settled(old.amount, acc) - old.finishedMetaNode
                        /\ new.finishedMetaNode = Settled(new.amount, acc)
  <1>1. ASSUME Inv, [Next]_vars, NEW pid \in PoolIds, NEW u \in Users
        PROVE  Kept(pid, u)
    <2>1. RecordStep(pid, u)
      BY <1>1, EveryRecordStep
    <2>2. Inv'
      BY <1>1, StepInv
    <2>3. users[pid][u].pendingMetaNode \in Nat
      BY <1>1 DEF Inv, TypeInv, UserRecord
    <2>4. users'[pid][u].pendingMetaNode \in Nat
      BY <2>2 DEF Inv, TypeInv, UserRecord
    <2> QED BY <2>1, <2>3, <2>4 DEF RecordStep, Deposits, Unstakes, Replaces, Withdraws, Claims
  <1> DEFINE All == \A pid \in PoolIds, u \in Users : Kept(pid, u)
  <1>2. Inv /\ [Next]_vars => [All]_vars
    BY <1>1
  <1> QED BY <1>2, StakeInvariant, PTL DEF Spec, PendingPaidOrReplaced

\* Where the view answers, a claim in the same block pays what it shows.
THEOREM ViewIsRight == Spec => ViewPredictsClaim
  <1> DEFINE Predicts(pid, u) ==
               claim(u, pid) /\ CanViewPending(pid, u) =>
                   paid' = paid + Minimum(pendingMetaNode(pid, u), balance[MetaNode])
  <1>1. ASSUME Inv, [Next]_vars, NEW pid \in Pids, NEW u \in Users, claim(u, pid), CanViewPending(pid, u)
        PROVE  paid' = paid + Minimum(pendingMetaNode(pid, u), balance[MetaNode])
    <2>0. TypeInv /\ pid \in PoolIds
      BY <1>1, PidsArePools DEF Inv
    <2>1. ViewedAccumulator(pid) = UpdatedPool(pid).accMetaNodePerST
      <3> DEFINE reward == (PoolReward(pid) * Ether) \div pools[pid].stTokenAmount
      <3>1. UpdatedPool(pid).accMetaNodePerST =
               IF pools[pid].stTokenAmount > 0 THEN pools[pid].accMetaNodePerST + reward
               ELSE pools[pid].accMetaNodePerST
        BY <2>0 DEF UpdatedPool, TypeInv, PoolRecord
      <3>2. CASE UpToDate(pid)
        <4>1. pools[pid].accMetaNodePerST \in Nat /\ pools[pid].stTokenAmount \in Nat
          BY <2>0 DEF TypeInv, PoolRecord
        <4>2. PoolReward(pid) = 0
          BY <3>2 DEF PoolReward
        <4>3. pools[pid].stTokenAmount > 0 => reward = 0
          BY <4>1, <4>2, StakeAssumption, ZeroQuotient
        <4>4. ViewedAccumulator(pid) = pools[pid].accMetaNodePerST
          BY <3>2 DEF ViewedAccumulator
        <4> HIDE DEF reward
        <4> QED BY <3>1, <4>1, <4>3, <4>4
      <3>3. CASE ~UpToDate(pid)
        <4>1. pools[pid].stTokenAmount > 0
          BY <1>1, <3>3 DEF CanViewPending
        <4>2. ViewedAccumulator(pid) = pools[pid].accMetaNodePerST + reward
          BY <3>3 DEF ViewedAccumulator, PoolReward
        <4> HIDE DEF reward
        <4> QED BY <3>1, <4>1, <4>2
      <3> QED BY <3>2, <3>3
    <2>2. paid' = paid + Minimum(Settled(users[pid][u].amount, UpdatedPool(pid).accMetaNodePerST)
                                   - users[pid][u].finishedMetaNode + users[pid][u].pendingMetaNode,
                                 balance[MetaNode])
      BY <1>1 DEF claim
    <2> QED BY <2>1, <2>2 DEF pendingMetaNode
  <1> DEFINE All == \A pid \in Pids, u \in Users : Predicts(pid, u)
  <1>2. Inv /\ [Next]_vars => [All]_vars
    BY <1>1
  <1> QED BY <1>2, StakeInvariant, PTL DEF Spec, ViewPredictsClaim

-----------------------------------------------------------------------------
(* The rewards that are paid and those that are shared out. *)

\* What a record may still be paid, in parts of 1 ether: what is pending and what
\* the stake has earned, less what counts as settled.  A deposit stores the latter
\* without the division and can make this negative: the staker is stuck, and is
\* owed nothing rather than less than nothing.
Owed(user, acc) ==
    Maximum(0, Ether * (user.pendingMetaNode - user.finishedMetaNode) + user.amount * acc)

\* The sum over the users of a pool, and over the pools.
OwedSum(us, acc) == SumFunctionOnSet([u \in Users |-> Owed(us[u], acc)], Users)
PoolOwes(pid) == OwedSum(users[pid], pools[pid].accMetaNodePerST)
AllOwed == SumFunctionOnSet([pid \in PoolIds |-> PoolOwes(pid)], PoolIds)

\* What was paid and what is still owed is covered by what was shared out, but for
\* at most one unit per unstake that rounded.
RewardsCovered == Ether * paid + AllOwed <= Ether * (accrued + rounded)

\* Who has no stake has nothing settled.
NoStakeNothingSettled ==
    \A pid \in PoolIds, u \in Users :
        users[pid][u].amount = 0 => users[pid][u].finishedMetaNode = 0

\* PaidWithinAccrued is not inductive: it does not know what claim will pay next.
RewardInv == RewardsCovered /\ NoStakeNothingSettled

\* A quotient and its remainder.
LEMMA Division ==
    ASSUME NEW x \in Nat, NEW n \in Nat \ {0}
    PROVE  /\ x \div n \in Nat /\ x % n \in Nat /\ x % n < n
           /\ x = n * (x \div n) + (x % n)
  <1>1. x \div n \in Nat /\ x % n \in Nat /\ x % n < n
    OBVIOUS
  <1>2. x = n * (x \div n) + (x % n)
    OBVIOUS
  <1> QED BY <1>1, <1>2

\* A part of what is shared out to n is not more than the whole.
LEMMA ShareCovered ==
    ASSUME NEW x \in Nat, NEW n \in Nat \ {0}
    PROVE  n * (x \div n) <= x
  OBVIOUS

\* What is larger times Ether is larger.
LEMMA EtherCancels ==
    ASSUME NEW a \in Nat, NEW b \in Nat, Ether * a <= Ether * b
    PROVE  a <= b
  <1> SUFFICES ASSUME a > b PROVE FALSE
    OBVIOUS
  <1>1. PICK d \in Nat : a = b + 1 + d
    <2>1. a - b - 1 \in Nat /\ a = b + 1 + (a - b - 1)
      OBVIOUS
    <2> QED BY <2>1
  <1>2. Ether * a = Ether * b + Ether + Ether * d
    BY <1>1, StakeAssumption
  <1>3. Ether * d \in Nat /\ Ether * b \in Nat
    BY StakeAssumption, ProductNat
  <1> QED BY <1>2, <1>3, StakeAssumption

\* What is owed is a natural, and not less than its formula.
LEMMA OwedFacts ==
    ASSUME NEW user \in UserRecord, NEW acc \in Nat
    PROVE  /\ Owed(user, acc) \in Nat
           /\ Ether * (user.pendingMetaNode - user.finishedMetaNode) + user.amount * acc
                 <= Owed(user, acc)
           /\ \A b \in Nat :
                 Ether * (user.pendingMetaNode - user.finishedMetaNode) + user.amount * acc <= b
                     => Owed(user, acc) <= b
  <1> DEFINE t == Ether * (user.pendingMetaNode - user.finishedMetaNode) + user.amount * acc
  <1>1. /\ user.pendingMetaNode \in Nat /\ user.finishedMetaNode \in Nat /\ user.amount \in Nat
        /\ Ether \in Nat
    BY StakeAssumption DEF UserRecord
  <1>2. t \in Int
    BY <1>1
  <1>3. Owed(user, acc) = Maximum(0, t)
    BY DEF Owed
  <1> HIDE DEF t
  <1>4. /\ Owed(user, acc) \in Nat /\ t <= Owed(user, acc)
        /\ \A b \in Nat : t <= b => Owed(user, acc) <= b
    BY <1>2, <1>3 DEF Maximum
  <1> QED BY <1>4 DEF t

\* The arithmetic of a deposit of y more, in parts: E of them are one unit.
LEMMA DepositArithmetic ==
    ASSUME NEW D \in Int, NEW x \in Nat, NEW y \in Nat
    PROVE  Ether * (D - y) + (x + y) <= Ether * D + x
  <1>1. Ether * (D - y) = Ether * D - Ether * y
    BY StakeAssumption
  <1>2. y <= Ether * y
    <2>1. Ether = 1 + (Ether - 1) /\ Ether - 1 \in Nat
      BY StakeAssumption
    <2>2. Ether * y = y + (Ether - 1) * y
      BY <2>1
    <2>3. (Ether - 1) * y \in Nat
      BY <2>1, ProductNat
    <2> QED BY <2>2, <2>3
  <1>3. Ether * D \in Int /\ Ether * y \in Int
    BY StakeAssumption
  <1> QED BY <1>1, <1>2, <1>3

\* An accumulator that grows by d owes a stake that much more per token.
LEMMA OwedGrows ==
    ASSUME NEW user \in UserRecord, NEW acc \in Nat, NEW d \in Nat
    PROVE  Owed(user, acc + d) <= Owed(user, acc) + user.amount * d
  <1> DEFINE t == Ether * (user.pendingMetaNode - user.finishedMetaNode)
             o == Owed(user, acc)
             x == user.amount * acc
             y == user.amount * d
  <1>1. /\ user.pendingMetaNode \in Nat /\ user.finishedMetaNode \in Nat /\ user.amount \in Nat
        /\ Ether \in Nat
    BY StakeAssumption DEF UserRecord
  <1>2. t \in Int /\ x \in Nat /\ y \in Nat /\ user.amount * (acc + d) = x + y
    BY <1>1, ProductNat
  <1>3. o \in Nat /\ t + x <= o
    BY OwedFacts
  <1>4. \A b \in Nat : t + user.amount * (acc + d) <= b => Owed(user, acc + d) <= b
    BY OwedFacts
  <1> HIDE DEF t, x, y, o
  <1>5. o + y \in Nat /\ t + user.amount * (acc + d) <= o + y
    BY <1>2, <1>3
  <1>6. Owed(user, acc + d) <= o + y
    BY <1>4, <1>5
  <1> QED BY <1>6 DEF o, y

\* _deposit never raises what a staker is owed.
LEMMA DepositOwes ==
    ASSUME NEW user \in UserRecord, NEW acc \in Nat, NEW amount \in Nat,
           user.amount > 0 => user.amount * acc >= user.finishedMetaNode,
           user.amount = 0 => user.finishedMetaNode = 0
    PROVE  LET r == Deposited(user, acc, amount)
           IN  /\ Owed(r, acc) <= Owed(user, acc)
               /\ r.amount = 0 => r.finishedMetaNode = 0
  <1> DEFINE earned == IF user.amount > 0 THEN user.amount * acc - user.finishedMetaNode ELSE 0
             done == (user.amount + amount) * acc
             r == Deposited(user, acc, amount)
             x == user.amount * acc
             y == amount * acc
             D == user.pendingMetaNode - user.finishedMetaNode
             o == Owed(user, acc)
  <1>1. /\ user.amount \in Nat /\ user.finishedMetaNode \in Nat /\ user.pendingMetaNode \in Nat
        /\ Ether \in Nat
    BY StakeAssumption DEF UserRecord
  <1>2. r \in UserRecord /\ r.amount = user.amount + amount
    BY DepositedRecord
  <1>3. r.finishedMetaNode = done /\ r.pendingMetaNode = user.pendingMetaNode + earned
    <2>1. r = [user EXCEPT !.pendingMetaNode = user.pendingMetaNode + earned,
                           !.amount = user.amount + amount, !.finishedMetaNode = done]
      BY DEF Deposited
    <2> HIDE DEF earned, done, r
    <2> QED BY <2>1 DEF UserRecord
  <1>4. x \in Nat /\ y \in Nat /\ done = x + y
    BY <1>1, ProductNat
  <1>5. user.amount = 0 => x = 0
    BY <1>1
  <1>6. earned = x - user.finishedMetaNode
    BY <1>1, <1>4, <1>5
  <1>7. r.pendingMetaNode - r.finishedMetaNode = D - y /\ D \in Int
    <2> HIDE DEF earned, done, x, y, r
    <2> QED BY <1>1, <1>3, <1>4, <1>6
  <1>8. Ether * (D - y) + (x + y) <= Ether * D + x
    BY <1>4, <1>7, DepositArithmetic
  <1>9. Ether * D + x <= o /\ o \in Nat
    BY OwedFacts
  <1>10. \A b \in Nat : Ether * (r.pendingMetaNode - r.finishedMetaNode) + r.amount * acc <= b
                          => Owed(r, acc) <= b
    BY <1>2, OwedFacts
  <1>11. r.amount * acc = x + y
    BY <1>2, <1>4
  <1>12. Owed(r, acc) <= o
    <2>1. Ether * D \in Int /\ Ether * (D - y) \in Int
      BY <1>1, <1>4, <1>7
    <2> HIDE DEF D, x, y, o, r
    <2>2. Ether * (D - y) + (x + y) <= o
      BY <1>4, <1>8, <1>9, <2>1
    <2> QED BY <1>7, <1>9, <1>10, <1>11, <2>2
  <1>13. r.amount = 0 => r.finishedMetaNode = 0
    <2>1. r.amount = 0 => user.amount + amount = 0
      BY <1>2
    <2> HIDE DEF r
    <2> QED BY <1>3, <2>1
  <1> QED BY <1>12, <1>13

\* unstake raises what a staker is owed by less than one unit, if it rounds, and
\* otherwise not at all.
LEMMA UnstakeOwes ==
    ASSUME NEW user \in UserRecord, NEW acc \in Nat, NEW amount \in Nat, NEW unlockBlock \in Nat,
           amount <= user.amount, Settled(user.amount, acc) >= user.finishedMetaNode
    PROVE  LET r == Unstaked(user, acc, amount, unlockBlock)
               d == IF RoundsDown(user, acc, amount) THEN 1 ELSE 0
           IN  /\ Owed(r, acc) <= Owed(user, acc) + Ether * d
               /\ r.amount = 0 => r.finishedMetaNode = 0
  <1> DEFINE left == user.amount - amount
             x == user.amount * acc
             y == left * acc
             p == x \div Ether
             q == y \div Ether
             r == Unstaked(user, acc, amount, unlockBlock)
             d == IF RoundsDown(user, acc, amount) THEN 1 ELSE 0
             D == user.pendingMetaNode - user.finishedMetaNode
             earned == p - user.finishedMetaNode
             pending == IF earned > 0 THEN earned ELSE user.pendingMetaNode
             queue == IF amount > 0
                      THEN Append(user.requests, [amount |-> amount, unlockBlock |-> unlockBlock])
                      ELSE user.requests
             o == Owed(user, acc)
  <1>1. /\ user.amount \in Nat /\ user.finishedMetaNode \in Nat /\ user.pendingMetaNode \in Nat
        /\ left \in Nat /\ Ether \in Nat \ {0}
    BY StakeAssumption DEF UserRecord
  <1>2. x \in Nat /\ y \in Nat
    BY <1>1, ProductNat
  <1>3. /\ p \in Nat /\ x % Ether \in Nat /\ x % Ether < Ether /\ x = Ether * p + (x % Ether)
        /\ q \in Nat /\ y % Ether \in Nat /\ y % Ether < Ether /\ y = Ether * q + (y % Ether)
    <2> HIDE DEF x, y
    <2> QED BY <1>1, <1>2, Division
  <1>4. r \in UserRecord
    BY UnstakedRecord
  <1>5. r.amount = left /\ r.finishedMetaNode = q /\ r.pendingMetaNode = pending
    <2>1. r = [user EXCEPT !.pendingMetaNode = pending, !.amount = left,
                           !.requests = queue, !.finishedMetaNode = q]
      BY DEF Unstaked, Settled
    <2> HIDE DEF pending, left, queue, q, r
    <2> QED BY <2>1 DEF UserRecord
  <1>6. earned \in Nat /\ pending \in Nat /\ pending <= D + p /\ D \in Int
    <2>1. earned \in Nat
      BY <1>1, <1>3 DEF Settled
    <2> HIDE DEF p
    <2> QED BY <1>1, <1>3, <2>1
  <1>7. Ether * D + x <= o /\ o \in Nat
    BY OwedFacts
  <1>8. Ether * pending <= Ether * D + Ether * p
    <2>1. Ether * (D + p) = Ether * D + Ether * p
      BY <1>1, <1>3, <1>6
    <2>2. D + p - pending \in Nat
      BY <1>3, <1>6
    <2> HIDE DEF D, p, pending, earned
    <2>3. Ether * (D + p) = Ether * pending + Ether * (D + p - pending)
      BY <1>1, <1>3, <1>6
    <2>4. Ether * (D + p - pending) \in Nat /\ Ether * pending \in Nat
      BY <1>1, <1>6, <2>2, ProductNat
    <2> QED BY <2>1, <2>3, <2>4
  <1>9. y % Ether <= (x % Ether) + Ether * d
    <2>1. CASE RoundsDown(user, acc, amount)
      <3>1. d = 1
        BY <2>1
      <3> HIDE DEF d, x, y
      <3> QED BY <1>1, <1>3, <3>1
    <2>2. CASE ~RoundsDown(user, acc, amount)
      <3>1. d = 0
        BY <2>2
      <3>2. amount = 0 \/ y % Ether = 0
        BY <1>1, <2>2 DEF RoundsDown
      <3>3. amount = 0 => y = x
        BY <1>1
      <3> HIDE DEF d, x, y
      <3> QED BY <1>1, <1>3, <3>1, <3>2, <3>3
    <2> QED BY <2>1, <2>2
  <1>10. Ether * (pending - q) + y <= o + Ether * d
    <2>0. d \in Int
      OBVIOUS
    <2> HIDE DEF pending, q, y, o, d, D, p, x, earned
    <2>1. Ether * (pending - q) = Ether * pending - Ether * q
      BY <1>1, <1>3, <1>6
    <2>2. /\ Ether * pending \in Int /\ Ether * q \in Int /\ Ether * D \in Int
          /\ Ether * p \in Int /\ Ether * d \in Int
      BY <1>1, <1>3, <1>6, <2>0
    <2> QED BY <1>2, <1>3, <1>7, <1>8, <1>9, <2>1, <2>2
  <1>11. \A b \in Nat : Ether * (r.pendingMetaNode - r.finishedMetaNode) + r.amount * acc <= b
                          => Owed(r, acc) <= b
    BY <1>4, OwedFacts
  <1>12. Owed(r, acc) <= o + Ether * d
    <2>1. o + Ether * d \in Nat
      BY <1>1, <1>7
    <2>2. Ether * (r.pendingMetaNode - r.finishedMetaNode) + r.amount * acc
             = Ether * (pending - q) + y
      BY <1>5
    <2> HIDE DEF o, d, r, pending, q, y
    <2> QED BY <1>10, <1>11, <2>1, <2>2
  <1>13. r.amount = 0 => r.finishedMetaNode = 0
    <2>1. left = 0 => y = 0
      BY <1>1
    <2>2. 0 \div Ether = 0
      BY <1>1
    <2> HIDE DEF r, y, left
    <2> QED BY <1>5, <2>1, <2>2
  <1> QED BY <1>12, <1>13

\* claim pays out of what the staker is owed.
LEMMA ClaimOwes ==
    ASSUME NEW user \in UserRecord, NEW acc \in Nat, NEW reward \in Nat,
           Settled(user.amount, acc) >= user.finishedMetaNode,
           reward <= Settled(user.amount, acc) - user.finishedMetaNode + user.pendingMetaNode,
           NEW r \in UserRecord, r.amount = user.amount, r.pendingMetaNode = 0,
           r.finishedMetaNode = Settled(user.amount, acc)
    PROVE  /\ Ether * reward + Owed(r, acc) <= Owed(user, acc)
           /\ r.amount = 0 => r.finishedMetaNode = 0
  <1> DEFINE x == user.amount * acc
             p == x \div Ether
             rest == x % Ether
             D == user.pendingMetaNode - user.finishedMetaNode
             o == Owed(user, acc)
  <1>1. /\ user.amount \in Nat /\ user.finishedMetaNode \in Nat /\ user.pendingMetaNode \in Nat
        /\ Ether \in Nat \ {0}
    BY StakeAssumption DEF UserRecord
  <1>2. x \in Nat
    BY <1>1, ProductNat
  <1>3. p \in Nat /\ rest \in Nat /\ rest < Ether /\ x = Ether * p + rest
    <2> HIDE DEF x
    <2> QED BY <1>1, <1>2, Division
  <1>4. Ether * D + x <= o /\ o \in Nat /\ D \in Int
    <2>1. D \in Int
      BY <1>1
    <2>2. Ether * D + x <= o /\ o \in Nat
      BY OwedFacts
    <2> QED BY <2>1, <2>2
  <1>5. Ether * reward <= Ether * D + Ether * p
    <2>1. D + p - reward \in Nat
      BY <1>1, <1>3 DEF Settled
    <2> HIDE DEF p, D
    <2>2. /\ Ether * (D + p) = Ether * D + Ether * p
          /\ Ether * (D + p) = Ether * reward + Ether * (D + p - reward)
      BY <1>1, <1>3, <1>4
    <2>3. Ether * (D + p - reward) \in Nat /\ Ether * reward \in Nat
      BY <1>1, <2>1, ProductNat
    <2> QED BY <2>2, <2>3
  <1>6. Ether * (r.pendingMetaNode - r.finishedMetaNode) + r.amount * acc = rest
    <2>1. Ether * (0 - p) = 0 - Ether * p
      BY <1>1, <1>3
    <2>2. Ether * p \in Int
      BY <1>1, <1>3
    <2>3. r.finishedMetaNode = p /\ r.amount * acc = x
      BY DEF Settled
    <2> HIDE DEF p, x, rest
    <2> QED BY <1>3, <2>1, <2>2, <2>3
  <1>7. Owed(r, acc) <= rest /\ Owed(r, acc) \in Nat
    BY <1>3, <1>6, OwedFacts
  <1>8. Ether * reward + Owed(r, acc) <= o
    <2>1. Ether * reward \in Int /\ Ether * D \in Int /\ Ether * p \in Int
      BY <1>1, <1>3, <1>4
    <2> HIDE DEF rest, x, p, D, o
    <2> QED BY <1>3, <1>4, <1>5, <1>7, <2>1
  <1>9. r.amount = 0 => r.finishedMetaNode = 0
    <2>1. user.amount = 0 => x = 0
      BY <1>1
    <2>2. 0 \div Ether = 0
      BY <1>1
    <2>3. r.finishedMetaNode = x \div Ether
      BY DEF Settled
    <2> HIDE DEF x
    <2> QED BY <2>1, <2>2, <2>3
  <1> QED BY <1>8, <1>9

\* The records of the users of one pool.
AreUsers(us) == us \in [Users -> UserRecord]

\* What the users of a pool are owed is a natural.
LEMMA OwedSumNat ==
    ASSUME NEW us, AreUsers(us), NEW acc \in Nat
    PROVE  OwedSum(us, acc) \in Nat
  <1> DEFINE f == [u \in Users |-> Owed(us[u], acc)]
  <1>1. \A u \in Users : f[u] \in Nat
    BY OwedFacts DEF AreUsers
  <1> HIDE DEF f
  <1>2. SumFunctionOnSet(f, Users) \in Nat
    BY <1>1, SumNat, StakeAssumption
  <1> QED BY <1>2 DEF OwedSum, f

\* It grows with the accumulator by that much per staked token.
LEMMA OwedSumGrows ==
    ASSUME NEW us, AreUsers(us), NEW acc \in Nat, NEW d \in Nat
    PROVE  OwedSum(us, acc + d) <= OwedSum(us, acc) + SumFunction([u \in Users |-> us[u].amount]) * d
  <1> DEFINE f == [u \in Users |-> Owed(us[u], acc)]
             g == [u \in Users |-> Owed(us[u], acc + d)]
             h == [u \in Users |-> us[u].amount]
  <1>1. \A u \in Users : us[u] \in UserRecord /\ us[u].amount \in Nat
    BY DEF AreUsers, UserRecord
  <1>2. \A u \in Users : f[u] \in Int /\ g[u] \in Int /\ h[u] \in Int
    <2>1. acc + d \in Nat
      OBVIOUS
    <2> QED BY <1>1, <2>1, OwedFacts
  <1>3. \A u \in Users : g[u] <= f[u] + h[u] * d
    BY <1>1, OwedGrows
  <1>4. DOMAIN h = Users
    OBVIOUS
  <1> HIDE DEF f, g, h
  <1>5. SumFunctionOnSet(g, Users) <= SumFunctionOnSet(f, Users) + SumFunctionOnSet(h, Users) * d
    BY <1>2, <1>3, SumGrows, StakeAssumption
  <1>6. SumFunctionOnSet(h, Users) = SumFunction(h)
    BY <1>4 DEF SumFunction
  <1> QED BY <1>5, <1>6 DEF OwedSum, f, g, h

\* Rewriting one record changes it by the difference.
LEMMA OwedSumMoves ==
    ASSUME NEW us, AreUsers(us), NEW new, AreUsers(new), NEW acc \in Nat, NEW u \in Users,
           \A v \in Users \ {u} : new[v] = us[v]
    PROVE  OwedSum(new, acc) = OwedSum(us, acc) + (Owed(new[u], acc) - Owed(us[u], acc))
  <1> DEFINE f == [v \in Users |-> Owed(us[v], acc)]
             g == [v \in Users |-> Owed(new[v], acc)]
  <1>1. \A v \in Users : f[v] \in Int /\ g[v] \in Int
    BY OwedFacts DEF AreUsers
  <1>2. \A v \in Users \ {u} : g[v] = f[v]
    OBVIOUS
  <1>3. f[u] = Owed(us[u], acc) /\ g[u] = Owed(new[u], acc)
    OBVIOUS
  <1> HIDE DEF f, g
  <1>4. SumFunctionOnSet(g, Users) = SumFunctionOnSet(f, Users) + (g[u] - f[u])
    BY <1>1, <1>2, SumChange, StakeAssumption
  <1> QED BY <1>3, <1>4 DEF OwedSum, f, g

\* updatePool owes the stakers of a pool no more than it shares out.
LEMMA UpdateShares ==
    ASSUME Inv, NEW pid \in PoolIds, CanUpdate(pid)
    PROVE  OwedSum(users[pid], UpdatedPool(pid).accMetaNodePerST)
               <= PoolOwes(pid) + SharedOut(pid) * Ether
  <1> DEFINE us == users[pid]
             acc == pools[pid].accMetaNodePerST
             st == pools[pid].stTokenAmount
             reward == PoolReward(pid)
             d == (reward * Ether) \div st
  <1>1. TypeInv /\ AreUsers(us) /\ acc \in Nat /\ st \in Nat /\ Ether \in Nat
    BY StakeAssumption DEF Inv, TypeInv, AreUsers, PoolRecord
  <1>2. reward \in Nat /\ SharedOut(pid) = IF st > 0 THEN reward ELSE 0
    BY <1>1, RewardNat DEF SharedOut
  <1>3. UpdatedPool(pid).accMetaNodePerST = IF st > 0 THEN acc + d ELSE acc
    BY <1>1 DEF UpdatedPool, TypeInv, PoolRecord
  <1>4. st = SumFunction([u \in Users |-> us[u].amount])
    BY DEF Inv, StakeAccounting
  <1>5. PoolOwes(pid) = OwedSum(us, acc) /\ OwedSum(us, acc) \in Nat
    BY <1>1, OwedSumNat DEF PoolOwes
  <1>6. CASE st > 0
    <2>1. reward * Ether \in Nat /\ st \in Nat \ {0}
      BY <1>1, <1>2, <1>6, ProductNat
    <2>2. d \in Nat /\ st * d <= reward * Ether
      <3> HIDE DEF reward, st
      <3> QED BY <2>1, QuotientNat, ShareCovered
    <2> HIDE DEF us, acc, d
    <2>3. OwedSum(us, acc + d) <= OwedSum(us, acc) + SumFunction([u \in Users |-> us[u].amount]) * d
      BY <1>1, <2>2, OwedSumGrows
    <2>4. OwedSum(us, acc + d) \in Nat
      <3>1. acc + d \in Nat
        BY <1>1, <2>2
      <3> QED BY <1>1, <3>1, OwedSumNat
    <2>5. OwedSum(us, acc + d) <= OwedSum(us, acc) + reward * Ether
      <3>1. SumFunction([u \in Users |-> us[u].amount]) * d = st * d /\ st * d \in Nat
        BY <1>1, <1>4, <2>2, ProductNat
      <3> HIDE DEF st, reward
      <3> QED BY <1>5, <2>1, <2>2, <2>3, <2>4, <3>1
    <2> QED BY <1>2, <1>3, <1>5, <1>6, <2>5 DEF us
  <1>7. CASE ~(st > 0)
    <2>1. SharedOut(pid) * Ether = 0
      BY <1>1, <1>2, <1>7
    <2> QED BY <1>3, <1>5, <1>7, <2>1
  <1> QED BY <1>6, <1>7

\* A step that raises what pool p owes by at most h[p] units, where the history
\* variables account for all h[p], keeps the rewards covered.
LEMMA CoveredStep ==
    ASSUME Inv, Inv', RewardsCovered, NEW h,
           \A p \in PoolIds : h[p] \in Int /\ PoolOwes(p)' <= PoolOwes(p) + h[p] * Ether,
           SumFunctionOnSet(h, PoolIds) = (accrued' + rounded' - paid') - (accrued + rounded - paid)
    PROVE  RewardsCovered'
  <1> DEFINE f == [p \in PoolIds |-> PoolOwes(p)]
             g == [p \in PoolIds |-> PoolOwes(p)']
             H == SumFunctionOnSet(h, PoolIds)
             F == SumFunctionOnSet(f, PoolIds)
             J == SumFunctionOnSet(g, PoolIds)
  <1>1. ASSUME NEW p \in PoolIds
        PROVE  f[p] \in Nat /\ g[p] \in Nat
    <2>1. /\ AreUsers(users[p]) /\ pools[p].accMetaNodePerST \in Nat
      BY DEF Inv, TypeInv, AreUsers, PoolRecord
    <2>2. /\ AreUsers(users'[p]) /\ pools'[p].accMetaNodePerST \in Nat
      BY DEF Inv, TypeInv, AreUsers, PoolRecord
    <2> QED BY <2>1, <2>2, OwedSumNat DEF PoolOwes
  <1>2. \A p \in PoolIds : g[p] <= f[p] + h[p] * Ether
    OBVIOUS
  <1>3. IsFiniteSet(PoolIds) /\ Ether \in Int
    BY PidsArePools, StakeAssumption DEF Inv
  <1>4. AllOwed = F /\ AllOwed' = J
    BY DEF AllOwed
  <1> HIDE DEF f, g
  <1>5. J <= F + H * Ether
    BY <1>1, <1>2, <1>3, SumGrows
  <1>6. F \in Nat /\ J \in Nat /\ H \in Int
    BY <1>1, <1>3, SumNat, SumInt
  <1>7. /\ paid \in Nat /\ accrued \in Nat /\ rounded \in Nat
        /\ paid' \in Nat /\ accrued' \in Nat /\ rounded' \in Nat
    BY DEF Inv, TypeInv
  <1>8. Ether * paid + F <= Ether * (accrued + rounded)
    BY <1>4 DEF RewardsCovered
  <1> HIDE DEF F, J, H
  <1>9. H = (accrued' + rounded' - paid') - (accrued + rounded - paid)
    BY DEF H
  <1>10. H * Ether = Ether * (accrued' + rounded') - Ether * paid'
                      - (Ether * (accrued + rounded) - Ether * paid)
    <2> DEFINE a == accrued + rounded
               b == accrued' + rounded'
    <2>1. a \in Int /\ b \in Int /\ H = (b - paid') - (a - paid)
      BY <1>7, <1>9
    <2> HIDE DEF a, b
    <2>2. ((b - paid') - (a - paid)) * Ether
             = Ether * b - Ether * paid' - (Ether * a - Ether * paid)
      BY <1>3, <1>7, <2>1
    <2> QED BY <2>1, <2>2 DEF a, b
  <1>11. /\ Ether * (accrued' + rounded') \in Int /\ Ether * paid' \in Int
         /\ Ether * (accrued + rounded) \in Int /\ Ether * paid \in Int /\ H * Ether \in Int
    BY <1>3, <1>6, <1>7
  <1>12. Ether * paid' + J <= Ether * (accrued' + rounded')
    BY <1>5, <1>6, <1>8, <1>10, <1>11
  <1> QED BY <1>4, <1>12 DEF RewardsCovered

\* A step that leaves the history and what every record is owed alone.
LEMMA CoveredStays ==
    ASSUME Inv, Inv', RewardsCovered, paid' = paid, accrued' = accrued, rounded' = rounded,
           \A p \in PoolIds : PoolOwes(p)' = PoolOwes(p)
    PROVE  RewardsCovered'
  <1>1. AllOwed' = AllOwed
    BY DEF AllOwed
  <1> QED BY <1>1 DEF RewardsCovered

\* A sum with one summand other than zero.
LEMMA SumSingle ==
    ASSUME NEW f, NEW S, IsFiniteSet(S), NEW y \in S, f[y] \in Int,
           \A x \in S \ {y} : f[x] = 0
    PROVE  SumFunctionOnSet(f, S) = f[y]
  <1>1. \A x \in S : f[x] \in Int
    OBVIOUS
  <1>2. SumFunctionOnSet(f, S) = f[y] + SumFunctionOnSet(f, S \ {y})
    BY <1>1, SumRemove
  <1>3. IsFiniteSet(S \ {y})
    BY FS_RemoveElement
  <1>4. SumFunctionOnSet(f, S \ {y}) = 0
    BY <1>3, SumZero
  <1> QED BY <1>2, <1>4

\* A user's call: it updates pool pid, writes r as the record of u, pays e units and
\* rounds d times, and owes the user that much less or more.
RewardCall(pid, u, r, e, d) ==
    LET acc == UpdatedPool(pid).accMetaNodePerST
    IN  /\ users' = [users EXCEPT ![pid][u] = r]
        /\ \A p \in PoolIds :
              pools'[p].accMetaNodePerST = IF p = pid THEN acc ELSE pools[p].accMetaNodePerST
        /\ Ether * e + Owed(r, acc) <= Owed(users[pid][u], acc) + Ether * d
        /\ r.amount = 0 => r.finishedMetaNode = 0
        /\ paid' = paid + e /\ rounded' = rounded + d /\ accrued' = accrued + SharedOut(pid)

\* Every such call keeps the rewards covered.
LEMMA RewardCallKeeps ==
    ASSUME Inv, Inv', RewardInv, NEW u \in Users, NEW pid \in PoolIds, CanUpdate(pid),
           NEW r \in UserRecord, NEW e \in Nat, NEW d \in Nat, RewardCall(pid, u, r, e, d)
    PROVE  RewardInv'
  <1> DEFINE up == UpdatedPool(pid)
             acc == up.accMetaNodePerST
             k == SharedOut(pid) + d - e
             h == [p \in PoolIds |-> IF p = pid THEN k ELSE 0]
             o == Owed(users[pid][u], acc)
             n == Owed(r, acc)
             S == OwedSum(users[pid], acc)
             N == OwedSum(users'[pid], acc)
  <1>0. TypeInv /\ SharedOut(pid) \in Nat /\ Ether \in Nat
    BY RewardNat, StakeAssumption DEF Inv
  <1>1. acc \in Nat
    BY <1>0, UpdatedPoolFields DEF PoolRecord
  <1>2. /\ users'[pid][u] = r
        /\ \A v \in Users \ {u} : users'[pid][v] = users[pid][v]
        /\ \A p \in PoolIds \ {pid} : users'[p] = users[p]
    BY <1>0 DEF RewardCall, TypeInv
  <1>3. AreUsers(users[pid]) /\ AreUsers(users'[pid])
    BY DEF Inv, TypeInv, AreUsers
  <1>4. users[pid][u] \in UserRecord
    BY <1>0 DEF TypeInv
  <1>5. o \in Nat /\ n \in Nat /\ S \in Nat /\ N \in Nat
    <2> HIDE DEF acc
    <2> QED BY <1>1, <1>3, <1>4, OwedFacts, OwedSumNat
  <1>6. N = S + (n - o)
    <2> HIDE DEF acc
    <2>1. N = S + (Owed(users'[pid][u], acc) - o)
      BY <1>1, <1>2, <1>3, OwedSumMoves
    <2> QED BY <1>2, <2>1
  <1>7. Ether * e + n <= o + Ether * d
    BY DEF RewardCall
  <1>8. PoolOwes(pid)' = N
    BY DEF RewardCall, PoolOwes
  <1>9. PoolOwes(pid) \in Nat /\ S <= PoolOwes(pid) + SharedOut(pid) * Ether
    <2>1. pools[pid].accMetaNodePerST \in Nat
      BY <1>0 DEF TypeInv, PoolRecord
    <2>2. PoolOwes(pid) \in Nat
      BY <1>3, <2>1, OwedSumNat DEF PoolOwes
    <2> QED BY <2>2, UpdateShares
  <1>10. PoolOwes(pid)' <= PoolOwes(pid) + k * Ether
    <2> HIDE DEF S, N, n, o, up
    <2>1. k * Ether = SharedOut(pid) * Ether + Ether * d - Ether * e
      BY <1>0
    <2>2. SharedOut(pid) * Ether \in Int /\ Ether * d \in Int /\ Ether * e \in Int
      BY <1>0
    <2> HIDE DEF k
    <2> QED BY <1>5, <1>6, <1>7, <1>8, <1>9, <2>1, <2>2
  <1>11. k \in Int
    BY <1>0
  <1>12. ASSUME NEW p \in PoolIds, p # pid
         PROVE  PoolOwes(p)' <= PoolOwes(p) + 0 * Ether
    <2>1. PoolOwes(p)' = PoolOwes(p)
      BY <1>2, <1>12 DEF RewardCall, PoolOwes
    <2>2. AreUsers(users[p]) /\ pools[p].accMetaNodePerST \in Nat
      BY <1>0 DEF TypeInv, AreUsers, PoolRecord
    <2>3. PoolOwes(p) \in Nat
      BY <2>2, OwedSumNat DEF PoolOwes
    <2> QED BY <1>0, <2>1, <2>3
  <1>13. SumFunctionOnSet(h, PoolIds) = k
    <2>1. IsFiniteSet(PoolIds) /\ h[pid] = k /\ \A p \in PoolIds \ {pid} : h[p] = 0
      BY <1>0, PidsArePools
    <2> HIDE DEF h, k
    <2> QED BY <1>11, <2>1, SumSingle
  <1>14. k = (accrued' + rounded' - paid') - (accrued + rounded - paid)
    BY <1>0 DEF RewardCall, TypeInv
  <1>15. \A p \in PoolIds : h[p] \in Int /\ PoolOwes(p)' <= PoolOwes(p) + h[p] * Ether
    <2> HIDE DEF k
    <2> QED BY <1>10, <1>11, <1>12
  <1>16. RewardsCovered'
    <2> HIDE DEF h, k
    <2> QED BY <1>13, <1>14, <1>15, CoveredStep DEF RewardInv
  <1>17. NoStakeNothingSettled'
    <2>1. \A p \in PoolIds, v \in Users :
             users'[p][v] = IF p = pid /\ v = u THEN r ELSE users[p][v]
      BY <1>2
    <2>2. r.amount = 0 => r.finishedMetaNode = 0
      BY DEF RewardCall
    <2> QED BY <2>1, <2>2 DEF RewardInv, NoStakeNothingSettled
  <1> QED BY <1>16, <1>17 DEF RewardInv

\* _deposit keeps the rewards covered.
LEMMA DepositKeepsRewards ==
    ASSUME Inv, Inv', RewardInv, NEW u \in Users, NEW pid \in Pids, NEW amount \in Amounts,
           _deposit(u, pid, amount)
    PROVE  RewardInv'
  <1> DEFINE user == users[pid][u]
             up == UpdatedPool(pid)
             acc == up.accMetaNodePerST
             r == Deposited(user, acc, amount)
             pool == [up EXCEPT !.stTokenAmount = up.stTokenAmount + amount]
  <1>1. TypeInv /\ pid \in PoolIds /\ CanUpdate(pid) /\ amount \in Nat
    BY PidsArePools, StakeAssumption DEF Inv, _deposit
  <1>2. up \in PoolRecord /\ acc \in Nat /\ user \in UserRecord
    BY <1>1, UpdatedPoolFields DEF TypeInv, PoolRecord
  <1>3. /\ user.amount > 0 => user.amount * acc >= user.finishedMetaNode
        /\ user.amount = 0 => user.finishedMetaNode = 0
    BY <1>1 DEF _deposit, RewardInv, NoStakeNothingSettled
  <1>4. r \in UserRecord /\ Owed(r, acc) <= Owed(user, acc) /\ (r.amount = 0 => r.finishedMetaNode = 0)
    <2> HIDE DEF user, acc
    <2> QED BY <1>1, <1>2, <1>3, DepositedRecord, DepositOwes
  <1>5. pool.accMetaNodePerST = acc /\ pools' = [pools EXCEPT ![pid] = pool]
    BY <1>2 DEF _deposit, PoolRecord
  <1>6. \A p \in PoolIds :
           pools'[p].accMetaNodePerST = IF p = pid THEN acc ELSE pools[p].accMetaNodePerST
    <2> HIDE DEF pool
    <2> QED BY <1>1, <1>5 DEF TypeInv
  <1>7. users' = [users EXCEPT ![pid][u] = r] /\ paid' = paid + 0 /\ rounded' = rounded + 0
        /\ accrued' = accrued + SharedOut(pid)
    BY <1>1 DEF _deposit, TypeInv
  <1>8. Ether * 0 + Owed(r, acc) <= Owed(user, acc) + Ether * 0
    <2>1. Owed(r, acc) \in Nat /\ Owed(user, acc) \in Nat
      BY <1>2, <1>4, OwedFacts
    <2> QED BY <1>4, <2>1, StakeAssumption
  <1> HIDE DEF r
  <1>9. RewardCall(pid, u, r, 0, 0)
    BY <1>4, <1>6, <1>7, <1>8 DEF RewardCall
  <1> QED BY <1>1, <1>4, <1>9, RewardCallKeeps

\* unstake keeps the rewards covered: what it gives twice is counted.
LEMMA UnstakeKeepsRewards ==
    ASSUME Inv, Inv', RewardInv, NEW u \in Users, NEW pid \in Pids, NEW amount \in Amounts,
           unstake(u, pid, amount)
    PROVE  RewardInv'
  <1> DEFINE user == users[pid][u]
             up == UpdatedPool(pid)
             acc == up.accMetaNodePerST
             unlockBlock == block + up.unstakeLockedBlocks
             r == Unstaked(user, acc, amount, unlockBlock)
             d == IF RoundsDown(user, acc, amount) THEN 1 ELSE 0
             pool == [up EXCEPT !.stTokenAmount = up.stTokenAmount - amount]
  <1>1. TypeInv /\ pid \in PoolIds /\ CanUpdate(pid) /\ amount \in Nat
    BY PidsArePools, StakeAssumption DEF Inv, unstake, CanUnstake
  <1>2. up \in PoolRecord /\ acc \in Nat /\ user \in UserRecord /\ unlockBlock \in Nat
    <2>1. up \in PoolRecord /\ user \in UserRecord
      BY <1>1, UpdatedPoolFields DEF TypeInv
    <2>2. acc \in Nat /\ up.unstakeLockedBlocks \in Nat
      BY <2>1 DEF PoolRecord
    <2>3. block \in Nat
      BY <1>1, StakeAssumption DEF TypeInv
    <2> QED BY <2>1, <2>2, <2>3
  <1>3. amount <= user.amount /\ Settled(user.amount, acc) >= user.finishedMetaNode
    BY DEF unstake, CanUnstake
  <1>4. r \in UserRecord /\ Owed(r, acc) <= Owed(user, acc) + Ether * d
        /\ (r.amount = 0 => r.finishedMetaNode = 0)
    <2> HIDE DEF user, acc, unlockBlock
    <2>1. r \in UserRecord
      BY <1>1, <1>2, <1>3, UnstakedRecord
    <2>2. Owed(r, acc) <= Owed(user, acc) + Ether * d /\ (r.amount = 0 => r.finishedMetaNode = 0)
      BY <1>1, <1>2, <1>3, UnstakeOwes
    <2> QED BY <2>1, <2>2
  <1>5. pool.accMetaNodePerST = acc /\ pools' = [pools EXCEPT ![pid] = pool]
    BY <1>2 DEF unstake, PoolRecord
  <1>6. \A p \in PoolIds :
           pools'[p].accMetaNodePerST = IF p = pid THEN acc ELSE pools[p].accMetaNodePerST
    <2> HIDE DEF pool
    <2> QED BY <1>1, <1>5 DEF TypeInv
  <1>7. users' = [users EXCEPT ![pid][u] = r] /\ paid' = paid + 0 /\ rounded' = rounded + d
        /\ accrued' = accrued + SharedOut(pid)
    BY <1>1 DEF unstake, TypeInv
  <1>8. Ether * 0 + Owed(r, acc) <= Owed(user, acc) + Ether * d /\ d \in Nat
    <2>1. Owed(r, acc) \in Nat
      BY <1>2, <1>4, OwedFacts
    <2>2. Ether * 0 + Owed(r, acc) = Owed(r, acc)
      BY <2>1, StakeAssumption
    <2>3. d \in Nat
      OBVIOUS
    <2> HIDE DEF d
    <2> QED BY <1>4, <2>2, <2>3
  <1> HIDE DEF r, d
  <1>9. RewardCall(pid, u, r, 0, d)
    BY <1>4, <1>6, <1>7, <1>8 DEF RewardCall
  <1> QED BY <1>1, <1>4, <1>8, <1>9, RewardCallKeeps

\* claim keeps the rewards covered: it pays what was owed.
LEMMA ClaimKeepsRewards ==
    ASSUME Inv, Inv', RewardInv, NEW u \in Users, NEW pid \in Pids, claim(u, pid)
    PROVE  RewardInv'
  <1> DEFINE user == users[pid][u]
             up == UpdatedPool(pid)
             acc == up.accMetaNodePerST
             settled == Settled(user.amount, acc)
             reward == Minimum(settled - user.finishedMetaNode + user.pendingMetaNode,
                               balance[MetaNode])
             r1 == [user EXCEPT !.pendingMetaNode = 0]
             r == [r1 EXCEPT !.finishedMetaNode = settled]
  <1>1. TypeInv /\ pid \in PoolIds /\ CanUpdate(pid) /\ CanClaim(u, pid)
    BY PidsArePools DEF Inv, claim, CanClaim
  <1>2. up \in PoolRecord /\ acc \in Nat /\ user \in UserRecord
    BY <1>1, UpdatedPoolFields DEF TypeInv, PoolRecord
  <1>3. settled \in Nat /\ reward \in Nat /\ settled >= user.finishedMetaNode
    BY <1>1, ClaimedReward DEF CanClaim
  <1>4. reward <= settled - user.finishedMetaNode + user.pendingMetaNode
    <2>1. /\ user.finishedMetaNode \in Nat /\ user.pendingMetaNode \in Nat
          /\ balance[MetaNode] \in Nat
      BY <1>1, <1>2 DEF TypeInv, UserRecord, AllTokens
    <2> HIDE DEF settled, user
    <2> QED BY <1>3, <2>1 DEF Minimum
  <1>5. /\ users' = [users EXCEPT ![pid][u] = r] /\ pools' = [pools EXCEPT ![pid] = up]
        /\ paid' = paid + reward /\ rounded' = rounded + 0 /\ accrued' = accrued + SharedOut(pid)
    <2>1. /\ users' = [users EXCEPT ![pid][u] = r] /\ pools' = [pools EXCEPT ![pid] = up]
          /\ paid' = paid + reward
      BY <1>1, <1>2 DEF claim, TypeInv
    <2>2. rounded' = rounded /\ accrued' = accrued + SharedOut(pid)
      BY DEF claim
    <2>3. rounded \in Nat
      BY <1>1 DEF TypeInv
    <2> QED BY <2>1, <2>2, <2>3
  <1>6. /\ r \in UserRecord /\ r.amount = user.amount /\ r.pendingMetaNode = 0
        /\ r.finishedMetaNode = settled
    <2>1. r1 \in UserRecord /\ r1.amount = user.amount /\ r1.pendingMetaNode = 0
      BY <1>2 DEF UserRecord
    <2> HIDE DEF r1, settled
    <2> QED BY <1>3, <2>1 DEF UserRecord
  <1> HIDE DEF r, reward
  <1>7. /\ Ether * reward + Owed(r, acc) <= Owed(user, acc)
        /\ r.amount = 0 => r.finishedMetaNode = 0
    <2> HIDE DEF user, acc
    <2> QED BY <1>2, <1>3, <1>4, <1>6, ClaimOwes
  <1>8. Ether * reward + Owed(r, acc) <= Owed(user, acc) + Ether * 0
    <2>1. Owed(user, acc) \in Nat
      BY <1>2, OwedFacts
    <2>2. Owed(user, acc) + Ether * 0 = Owed(user, acc)
      BY <2>1, StakeAssumption
    <2> QED BY <1>7, <2>2
  <1>9. \A p \in PoolIds :
           pools'[p].accMetaNodePerST = IF p = pid THEN acc ELSE pools[p].accMetaNodePerST
    <2>1. \A p \in PoolIds : pools'[p] = IF p = pid THEN up ELSE pools[p]
      BY <1>1, <1>5 DEF TypeInv
    <2> QED BY <2>1
  <1>10. RewardCall(pid, u, r, reward, 0)
    BY <1>5, <1>7, <1>8, <1>9 DEF RewardCall
  <1> QED BY <1>1, <1>3, <1>6, <1>10, RewardCallKeeps

\* A step that touches neither the history nor what the records are owed.
LEMMA QuietStepKeepsRewards ==
    ASSUME Inv, Inv', RewardInv, paid' = paid, accrued' = accrued, rounded' = rounded,
           \A p \in PoolIds : pools'[p].accMetaNodePerST = pools[p].accMetaNodePerST,
           \A p \in PoolIds, v \in Users :
              /\ users'[p][v].amount = users[p][v].amount
              /\ users'[p][v].finishedMetaNode = users[p][v].finishedMetaNode
              /\ users'[p][v].pendingMetaNode = users[p][v].pendingMetaNode
    PROVE  RewardInv'
  <1>1. ASSUME NEW p \in PoolIds
        PROVE  PoolOwes(p)' = PoolOwes(p)
    <2> DEFINE acc == pools[p].accMetaNodePerST
               f == [v \in Users |-> Owed(users[p][v], acc)]
               g == [v \in Users |-> Owed(users'[p][v], acc)]
    <2>1. \A v \in Users : Owed(users'[p][v], acc) = Owed(users[p][v], acc)
      BY DEF Owed
    <2>2. f = g
      <3> HIDE DEF acc
      <3> QED BY <2>1
    <2>3. PoolOwes(p) = SumFunctionOnSet(f, Users) /\ PoolOwes(p)' = SumFunctionOnSet(g, Users)
      BY DEF PoolOwes, OwedSum
    <2> QED BY <2>2, <2>3
  <1>2. RewardsCovered'
    BY <1>1, CoveredStays DEF RewardInv
  <1>3. NoStakeNothingSettled'
    BY DEF RewardInv, NoStakeNothingSettled
  <1> QED BY <1>2, <1>3 DEF RewardInv

\* withdraw pops requests and leaves the rewards alone.
LEMMA WithdrawKeepsRewards ==
    ASSUME Inv, Inv', RewardInv, NEW u \in Users, NEW pid \in Pids, withdraw(u, pid)
    PROVE  RewardInv'
  <1> DEFINE user == users[pid][u]
             left == SubSeq(user.requests, popNum(user.requests) + 1, Len(user.requests))
             r == [user EXCEPT !.requests = left]
  <1>1. TypeInv /\ pid \in PoolIds
    BY PidsArePools DEF Inv
  <1>2. user \in UserRecord
    BY <1>1 DEF TypeInv
  <1>3. users' = [users EXCEPT ![pid][u] = r]
    BY <1>1 DEF withdraw, TypeInv
  <1>4. paid' = paid /\ accrued' = accrued /\ rounded' = rounded /\ pools' = pools
    BY DEF withdraw
  <1>5. /\ r.amount = user.amount /\ r.finishedMetaNode = user.finishedMetaNode
        /\ r.pendingMetaNode = user.pendingMetaNode
    <2> HIDE DEF left
    <2> QED BY <1>2 DEF UserRecord
  <1> HIDE DEF r
  <1>6. \A p \in PoolIds, v \in Users :
           users'[p][v] = IF p = pid /\ v = u THEN r ELSE users[p][v]
    BY <1>1, <1>3 DEF TypeInv
  <1>7. \A p \in PoolIds, v \in Users :
           /\ users'[p][v].amount = users[p][v].amount
           /\ users'[p][v].finishedMetaNode = users[p][v].finishedMetaNode
           /\ users'[p][v].pendingMetaNode = users[p][v].pendingMetaNode
    BY <1>5, <1>6
  <1> QED BY <1>4, <1>7, QuietStepKeepsRewards

\* Updating every pool in use owes the stakers what is shared out.
LEMMA MassUpdateShares ==
    ASSUME Inv, Inv', RewardInv, CanMassUpdate, users' = users, paid' = paid, rounded' = rounded,
           accrued' = accrued + SumFunctionOnSet([p \in Pids |-> SharedOut(p)], Pids),
           \A p \in PoolIds : pools'[p].accMetaNodePerST = MassUpdated[p].accMetaNodePerST
    PROVE  RewardInv'
  <1> DEFINE s == [p \in Pids |-> SharedOut(p)]
             h == [p \in PoolIds |-> IF p \in Pids THEN SharedOut(p) ELSE 0]
  <1>1. TypeInv /\ Pids \subseteq PoolIds /\ IsFiniteSet(Pids) /\ IsFiniteSet(PoolIds)
    BY PidsArePools DEF Inv
  <1>2. \A p \in Pids : CanUpdate(p) /\ SharedOut(p) \in Nat
    BY <1>1, RewardNat DEF CanMassUpdate
  <1>3. ASSUME NEW p \in PoolIds
        PROVE  h[p] \in Int /\ PoolOwes(p)' <= PoolOwes(p) + h[p] * Ether
    <2>1. CASE p \in Pids
      <3>1. MassUpdated[p] = UpdatedPool(p)
        BY <2>1 DEF MassUpdated
      <3>2. PoolOwes(p)' = OwedSum(users[p], UpdatedPool(p).accMetaNodePerST)
        BY <3>1 DEF PoolOwes
      <3>3. OwedSum(users[p], UpdatedPool(p).accMetaNodePerST) <= PoolOwes(p) + SharedOut(p) * Ether
        BY <1>2, <2>1, UpdateShares
      <3>4. h[p] = SharedOut(p) /\ SharedOut(p) \in Nat
        BY <1>2, <2>1
      <3> HIDE DEF h
      <3> QED BY <3>2, <3>3, <3>4
    <2>2. CASE p \notin Pids
      <3>1. MassUpdated[p] = pools[p]
        BY <2>2 DEF MassUpdated
      <3>2. PoolOwes(p)' = PoolOwes(p)
        BY <3>1 DEF PoolOwes
      <3>3. AreUsers(users[p]) /\ pools[p].accMetaNodePerST \in Nat
        BY <1>1 DEF TypeInv, AreUsers, PoolRecord
      <3>4. PoolOwes(p) \in Nat
        BY <3>3, OwedSumNat DEF PoolOwes
      <3>5. h[p] = 0
        BY <2>2
      <3> HIDE DEF h
      <3>6. h[p] * Ether = 0
        BY <3>5, StakeAssumption
      <3> QED BY <3>2, <3>4, <3>5, <3>6
    <2> QED BY <2>1, <2>2
  <1>4. SumFunctionOnSet(h, PoolIds) = SumFunctionOnSet(s, Pids)
    <2>1. \A p \in PoolIds : h[p] \in Int /\ (p \notin Pids => h[p] = 0)
      BY <1>3
    <2>2. \A p \in Pids : h[p] = s[p]
      BY <1>1
    <2>3. PoolIds \cap Pids = Pids
      BY <1>1
    <2> HIDE DEF h, s
    <2>4. SumFunctionOnSet(h, PoolIds) = SumFunctionOnSet(h, PoolIds \cap Pids)
      BY <1>1, <2>1, SumOfPart
    <2>5. SumFunctionOnSet(h, Pids) = SumFunctionOnSet(s, Pids)
      BY <1>1, <2>2, SumSame
    <2> QED BY <2>3, <2>4, <2>5
  <1>5. SumFunctionOnSet(s, Pids) = (accrued' + rounded' - paid') - (accrued + rounded - paid)
    <2>1. SumFunctionOnSet(s, Pids) \in Nat
      BY <1>1, MassUpdatedFields
    <2>2. accrued \in Nat /\ rounded \in Nat /\ paid \in Nat
      BY <1>1 DEF TypeInv
    <2>3. accrued' = accrued + SumFunctionOnSet(s, Pids)
      OBVIOUS
    <2> HIDE DEF s
    <2> QED BY <2>1, <2>2, <2>3
  <1> HIDE DEF h, s
  <1>6. RewardsCovered'
    BY <1>3, <1>4, <1>5, CoveredStep DEF RewardInv
  <1>7. NoStakeNothingSettled'
    BY DEF RewardInv, NoStakeNothingSettled
  <1> QED BY <1>6, <1>7 DEF RewardInv

\* massUpdatePools keeps the rewards covered.
LEMMA MassUpdateKeepsRewards ==
    ASSUME Inv, Inv', RewardInv, massUpdatePools
    PROVE  RewardInv'
  <1>1. /\ CanMassUpdate /\ users' = users /\ paid' = paid /\ rounded' = rounded
        /\ pools' = MassUpdated
        /\ accrued' = accrued + SumFunctionOnSet([p \in Pids |-> SharedOut(p)], Pids)
    BY DEF massUpdatePools, funds
  <1>2. \A p \in PoolIds : pools'[p].accMetaNodePerST = MassUpdated[p].accMetaNodePerST
    BY <1>1
  <1> QED BY <1>1, <1>2, MassUpdateShares

\* So does setPoolWeight, with and without the update.
LEMMA SetPoolWeightKeepsRewards ==
    ASSUME Inv, Inv', RewardInv, NEW pid \in Pids, NEW weight \in PoolWeights,
           NEW withUpdate \in BOOLEAN, setPoolWeight(pid, weight, withUpdate)
    PROVE  RewardInv'
  <1> DEFINE base == IF withUpdate THEN MassUpdated ELSE pools
  <1>1. TypeInv /\ pid \in PoolIds /\ (withUpdate => CanMassUpdate)
    BY PidsArePools DEF Inv, setPoolWeight
  <1>2. base \in [PoolIds -> PoolRecord]
    <2>1. CASE withUpdate
      BY <1>1, <2>1, MassUpdatedFields
    <2>2. CASE ~withUpdate
      BY <1>1, <2>2 DEF TypeInv
    <2> QED BY <2>1, <2>2
  <1>3. /\ pools' = [base EXCEPT ![pid] = [base[pid] EXCEPT !.poolWeight = weight]]
        /\ users' = users /\ paid' = paid /\ rounded' = rounded
    BY <1>1, <1>2 DEF setPoolWeight, funds
  <1>4. \A p \in PoolIds : pools'[p].accMetaNodePerST = base[p].accMetaNodePerST
    <2> HIDE DEF base
    <2> QED BY <1>1, <1>2, <1>3 DEF PoolRecord
  <1>5. CASE withUpdate
    <2>1. \A p \in PoolIds : pools'[p].accMetaNodePerST = MassUpdated[p].accMetaNodePerST
      BY <1>4, <1>5
    <2>2. accrued' = accrued + SumFunctionOnSet([p \in Pids |-> SharedOut(p)], Pids)
      BY <1>5 DEF setPoolWeight
    <2> QED BY <1>1, <1>3, <1>5, <2>1, <2>2, MassUpdateShares
  <1>6. CASE ~withUpdate
    <2>1. \A p \in PoolIds : pools'[p].accMetaNodePerST = pools[p].accMetaNodePerST
      BY <1>4, <1>6
    <2>2. accrued' = accrued
      BY <1>6 DEF setPoolWeight
    <2> QED BY <1>3, <2>1, <2>2, QuietStepKeepsRewards
  <1> QED BY <1>5, <1>6

\* A user without a record is owed nothing, whatever the accumulator.
LEMMA NobodyOwed ==
    ASSUME NEW us, us = [u \in Users |-> NoUser], NEW acc \in Nat
    PROVE  OwedSum(us, acc) = 0
  <1> DEFINE f == [u \in Users |-> Owed(us[u], acc)]
  <1>1. ASSUME NEW u \in Users
        PROVE  f[u] = 0
    <2>1. us[u].amount = 0 /\ us[u].finishedMetaNode = 0 /\ us[u].pendingMetaNode = 0
      BY DEF NoUser
    <2>2. Ether * (0 - 0) + 0 * acc = 0
      BY StakeAssumption
    <2>3. Owed(us[u], acc) = Maximum(0, 0)
      BY <2>1, <2>2 DEF Owed
    <2> QED BY <2>3 DEF Maximum
  <1> HIDE DEF f
  <1>2. SumFunctionOnSet(f, Users) = 0
    BY <1>1, StakeAssumption, SumZero
  <1> QED BY <1>2 DEF OwedSum, f

\* addPool starts an accumulator for which nobody has a stake.
LEMMA AddPoolKeepsRewards ==
    ASSUME Inv, Inv', RewardInv, NEW token \in PoolTokens, NEW weight \in PoolWeights,
           NEW minDeposit \in MinDeposits, NEW locked \in LockBlocks,
           addPool(token, weight, minDeposit, locked)
    PROVE  RewardInv'
  <1> DEFINE c == poolCount
             pool == [poolAddress |-> token, poolWeight |-> weight, minDepositAmount |-> minDeposit,
                      lastRewardBlock |-> Maximum(block, schedule.startBlock),
                      accMetaNodePerST |-> 0, stTokenAmount |-> 0, unstakeLockedBlocks |-> locked]
  <1>1. /\ TypeInv /\ users' = users /\ paid' = paid /\ rounded' = rounded /\ accrued' = accrued
        /\ pools' = [pools EXCEPT ![c] = pool]
    BY DEF Inv, addPool, funds
  <1>2. c \notin Pids
    BY <1>1 DEF TypeInv, Pids
  <1> HIDE DEF pool
  <1>3. ASSUME NEW p \in PoolIds
        PROVE  PoolOwes(p)' = PoolOwes(p)
    <2>1. CASE p = c
      <3>1. users[p] = [u \in Users |-> NoUser]
        BY <1>2, <2>1 DEF Inv, UnusedPoolsAreEmpty
      <3>2. pools[p].accMetaNodePerST \in Nat
        BY <1>1 DEF TypeInv, PoolRecord
      <3>3. pools'[p].accMetaNodePerST \in Nat
        BY DEF Inv, TypeInv, PoolRecord
      <3>4. PoolOwes(p) = 0
        BY <3>1, <3>2, NobodyOwed DEF PoolOwes
      <3>5. OwedSum(users[p], pools'[p].accMetaNodePerST) = 0
        BY <3>1, <3>3, NobodyOwed
      <3> QED BY <1>1, <3>4, <3>5 DEF PoolOwes
    <2>2. CASE p # c
      <3>1. pools'[p] = pools[p]
        BY <1>1, <2>2 DEF TypeInv
      <3> QED BY <1>1, <3>1 DEF PoolOwes
    <2> QED BY <2>1, <2>2
  <1>4. RewardsCovered'
    BY <1>1, <1>3, CoveredStays DEF RewardInv
  <1>5. NoStakeNothingSettled'
    BY <1>1 DEF RewardInv, NoStakeNothingSettled
  <1> QED BY <1>4, <1>5 DEF RewardInv

\* The external updatePool changes neither accumulator nor records.
LEMMA UpdatePoolKeepsRewards ==
    ASSUME Inv, Inv', RewardInv, NEW pid \in Pids, NEW minDeposit \in MinDeposits,
           NEW locked \in LockBlocks, updatePool(pid, minDeposit, locked)
    PROVE  RewardInv'
  <1> DEFINE pool == [[pools[pid] EXCEPT !.minDepositAmount = minDeposit]
                          EXCEPT !.unstakeLockedBlocks = locked]
  <1>1. TypeInv /\ pid \in PoolIds
    BY PidsArePools DEF Inv
  <1>2. pools' = [pools EXCEPT ![pid] = pool]
    BY <1>1 DEF updatePool, TypeInv
  <1>3. pool.accMetaNodePerST = pools[pid].accMetaNodePerST
    BY <1>1 DEF TypeInv, PoolRecord
  <1>4. users' = users /\ paid' = paid /\ rounded' = rounded /\ accrued' = accrued
    BY DEF updatePool, funds
  <1> HIDE DEF pool
  <1>5. \A p \in PoolIds : pools'[p].accMetaNodePerST = pools[p].accMetaNodePerST
    BY <1>1, <1>2, <1>3 DEF TypeInv
  <1> QED BY <1>4, <1>5, QuietStepKeepsRewards

\* Nothing is owed after initialize().
LEMMA InitRewards ==
    ASSUME Init, Inv
    PROVE  RewardInv
  <1> DEFINE f == [p \in PoolIds |-> PoolOwes(p)]
  <1>1. \A p \in PoolIds : users[p] = [u \in Users |-> NoUser]
    BY DEF Init
  <1>2. ASSUME NEW p \in PoolIds
        PROVE  f[p] = 0
    <2>1. pools[p].accMetaNodePerST \in Nat
      BY DEF Inv, TypeInv, PoolRecord
    <2>2. PoolOwes(p) = 0
      BY <1>1, <2>1, NobodyOwed DEF PoolOwes
    <2> QED BY <2>2
  <1>3. IsFiniteSet(PoolIds)
    BY PidsArePools DEF Inv
  <1> HIDE DEF f
  <1>4. SumFunctionOnSet(f, PoolIds) = 0
    BY <1>2, <1>3, SumZero
  <1>5. AllOwed = 0
    BY <1>4 DEF AllOwed, f
  <1>6. paid = 0 /\ accrued = 0 /\ rounded = 0
    BY DEF Init
  <1>7. RewardsCovered
    BY <1>5, <1>6, StakeAssumption DEF RewardsCovered
  <1>8. NoStakeNothingSettled
    BY <1>1 DEF NoStakeNothingSettled, NoUser
  <1> QED BY <1>7, <1>8 DEF RewardInv

\* Every step keeps the rewards covered.
LEMMA StepRewards ==
    ASSUME Inv, Inv', RewardInv, [Next]_vars
    PROVE  RewardInv'
  <1>1. ASSUME NEW token \in PoolTokens, NEW weight \in PoolWeights,
               NEW minDeposit \in MinDeposits, NEW locked \in LockBlocks,
               addPool(token, weight, minDeposit, locked)
        PROVE  RewardInv'
    BY <1>1, AddPoolKeepsRewards
  <1>2. ASSUME NEW pid \in Pids, NEW minDeposit \in MinDeposits, NEW locked \in LockBlocks,
               updatePool(pid, minDeposit, locked)
        PROVE  RewardInv'
    BY <1>2, UpdatePoolKeepsRewards
  <1>3. ASSUME NEW pid \in Pids, NEW weight \in PoolWeights, NEW withUpdate \in BOOLEAN,
               setPoolWeight(pid, weight, withUpdate)
        PROVE  RewardInv'
    BY <1>3, SetPoolWeightKeepsRewards
  <1>4. ASSUME NEW u \in Users, NEW amount \in Amounts, depositETH(u, amount)
        PROVE  RewardInv'
    BY <1>4, DepositKeepsRewards DEF depositETH
  <1>5. ASSUME NEW u \in Users, NEW pid \in Pids, NEW amount \in Amounts, deposit(u, pid, amount)
        PROVE  RewardInv'
    BY <1>5, DepositKeepsRewards DEF deposit
  <1>6. ASSUME NEW u \in Users, NEW pid \in Pids, NEW amount \in Amounts, unstake(u, pid, amount)
        PROVE  RewardInv'
    BY <1>6, UnstakeKeepsRewards
  <1>7. ASSUME NEW u \in Users, NEW pid \in Pids, withdraw(u, pid)
        PROVE  RewardInv'
    BY <1>7, WithdrawKeepsRewards
  <1>8. ASSUME NEW u \in Users, NEW pid \in Pids, claim(u, pid)
        PROVE  RewardInv'
    BY <1>8, ClaimKeepsRewards
  <1>9. CASE massUpdatePools
    BY <1>9, MassUpdateKeepsRewards
  <1>10. CASE \/ AdvanceBlock
              \/ \E rate \in Rates : setMetaNodePerBlock(rate)
              \/ \E start \in StartBlocks : setStartBlock(start)
              \/ \E end \in EndBlocks : setEndBlock(end)
              \/ pausedWithdraw \/ unpauseWithdraw \/ pauseClaim \/ unpauseClaim
              \/ UNCHANGED vars
    <2>1. /\ pools' = pools /\ users' = users
          /\ accrued' = accrued /\ paid' = paid /\ rounded' = rounded
      BY <1>10 DEF AdvanceBlock, setMetaNodePerBlock, setStartBlock, setEndBlock, SetSchedule,
                   pausedWithdraw, unpauseWithdraw, pauseClaim, unpauseClaim, SetPauses, funds, vars
    <2> QED BY <2>1, QuietStepKeepsRewards
  <1> QED BY <1>1, <1>2, <1>3, <1>4, <1>5, <1>6, <1>7, <1>8, <1>9, <1>10
          DEF Next, AdminNext, UserNext

\* What was paid is within what was shared out and the units given twice by
\* rounding, because what is still owed is not negative.
LEMMA CoveredBounds ==
    ASSUME Inv, RewardInv
    PROVE  PaidWithinAccrued
  <1> DEFINE f == [p \in PoolIds |-> PoolOwes(p)]
             b == accrued + rounded
  <1>1. ASSUME NEW p \in PoolIds
        PROVE  f[p] \in Nat
    <2>1. AreUsers(users[p]) /\ pools[p].accMetaNodePerST \in Nat
      BY DEF Inv, TypeInv, AreUsers, PoolRecord
    <2> QED BY <2>1, OwedSumNat DEF PoolOwes
  <1>2. IsFiniteSet(PoolIds)
    BY PidsArePools DEF Inv
  <1>3. AllOwed = SumFunctionOnSet(f, PoolIds)
    BY DEF AllOwed
  <1>4. paid \in Nat /\ b \in Nat
    BY DEF Inv, TypeInv
  <1>5. Ether * paid + AllOwed <= Ether * b
    BY DEF RewardInv, RewardsCovered
  <1> HIDE DEF f, b
  <1>6. AllOwed \in Nat
    BY <1>1, <1>2, <1>3, SumNat
  <1>7. Ether * paid \in Nat /\ Ether * b \in Nat
    BY <1>4, StakeAssumption, ProductNat
  <1>8. Ether * paid <= Ether * b
    BY <1>5, <1>6, <1>7
  <1>9. paid <= b
    BY <1>4, <1>8, EtherCancels
  <1> QED BY <1>9 DEF PaidWithinAccrued, b

\* Rewards paid never exceed those shared out by more than one unit for each
\* unstake that rounded, for every fixed-point scale, rate and history of calls.
THEOREM RewardsBounded == Spec => []PaidWithinAccrued
  <1>1. Init /\ Inv => RewardInv
    BY InitRewards
  <1>2. Inv /\ Inv' /\ RewardInv /\ [Next]_vars => RewardInv'
    BY StepRewards
  <1>3. Inv /\ RewardInv => PaidWithinAccrued
    BY CoveredBounds
  <1> QED BY <1>1, <1>2, <1>3, StakeInvariant, PTL DEF Spec
=============================================================================
