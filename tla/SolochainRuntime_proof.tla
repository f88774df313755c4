------------------------ MODULE SolochainRuntime_proof ------------------------
(* Proofs about the runtime of the demo chain, for every genesis, deposit,     *)
(* weight limit, number of kept hashes and set of calls.                       *)
EXTENDS SolochainRuntime, SumTheorems

-----------------------------------------------------------------------------
(* The inductive invariant. *)

\* Every variable has its type; the pool holds signed extrinsics only.
TypeInv ==
    /\ block \in Nat /\ building \in BOOLEAN /\ weight \in Nat
    /\ balance \in [Accounts -> Nat] /\ issuance \in Int
    /\ nonce \in [Accounts -> Nat] /\ life \in [Accounts -> Nat]
    /\ signed \subseteq Extrinsic /\ pool \subseteq signed
    /\ block <= MaxBlock
    /\ included \subseteq [xt: Extrinsic, block: Nat, life: Nat]
    /\ IsFiniteSet(included)

\* The newest block whose hash is known.
Best == IF building THEN block - 1 ELSE block

\* The kept hashes reach back BlockHashCount blocks from the best block, and
\* that of block 0, against which immortal extrinsics are signed, is kept always.
HashesKept ==
    /\ Best \in Nat /\ 0 \in hashes
    /\ \A b \in Nat : b <= Best /\ Best - BlockHashCount <= b => b \in hashes

\* Nothing is signed for an era that begins in the future.
BornInThePast == \A x \in signed : x.birth <= Best

\* Immortal extrinsics are signed against block 0.
ImmortalFromGenesis == \A x \in signed : x.period = Immortal => x.birth = 0

\* An inclusion belongs to a life its signer has had.
LivesInOrder == \A i \in included : i.life <= life[i.xt.signer]

\* In no life was a nonce used twice.
OncePerLife ==
    \A i, j \in included :
        i.xt.signer = j.xt.signer /\ i.xt.nonce = j.xt.nonce /\ i.life = j.life => i = j

\* Block b lies in the era of x.
InEra(x, b) == x.birth <= b /\ (x.period # Immortal => b < x.birth + x.period)

\* What is in the chain was in its era when it was included.
WithinEra == \A i \in included : InEra(i.xt, i.block)

\* The hashes, the ledger and the history do not depend on each other but for
\* their types; WithinEra needs the births, and EachNonceOncePerLife the lives.
Inv ==
    /\ TypeInv
    /\ HashesKept /\ BornInThePast /\ ImmortalFromGenesis
    /\ LedgerBalanced
    /\ LivesInOrder /\ OncePerLife /\ WithinEra /\ EachNonceOncePerLife

-----------------------------------------------------------------------------
(* The period of an era. *)

\* The next power of two is the least of the powers that are large enough.
LEMMA NextPowerFacts ==
    ASSUME NEW n \in 0 .. MaxPower
    PROVE  /\ NextPowerOfTwo(n) \in Powers /\ NextPowerOfTwo(n) >= n
           /\ \A q \in Powers : q >= n => NextPowerOfTwo(n) <= q
  <1> DEFINE T == {q \in Powers : q >= n}
  <1>1. T \subseteq Nat /\ MaxPower \in T
    BY DEF Powers, MaxPower
  <1>2. \E p \in T : \A q \in T : p <= q
    BY <1>1, LeastNat
  <1>3. NextPowerOfTwo(n) = CHOOSE p \in T : \A q \in T : p <= q
    BY DEF NextPowerOfTwo, Min
  <1>4. NextPowerOfTwo(n) \in T /\ \A q \in T : NextPowerOfTwo(n) <= q
    BY <1>2, <1>3
  <1> QED BY <1>4

\* Half of a power of two is a power of two, but for the half of one.
LEMMA HalfOfPower ==
    ASSUME NEW p \in Powers
    PROVE  /\ p \in Nat /\ p \div 2 \in 0 .. MaxPower
           /\ IF p = 1 THEN p \div 2 = 0 ELSE p \div 2 \in Powers /\ p \div 2 < p
  BY DEF Powers, MaxPower

\* The period that is asked for is a power of two below BlockHashCount.
LEMMA PeriodFacts ==
    /\ Period \in Nat /\ Period >= 4
    /\ BlockHashCount >= 2 => Period <= BlockHashCount + 2
  <1> DEFINE p == NextPowerOfTwo(BlockHashCount)
             h == p \div 2
             r == NextPowerOfTwo(h)
  <1>1. BlockHashCount \in 1 .. MaxPower /\ MaxPower \in Nat
    BY RuntimeAssumption DEF MaxPower
  <1>2. p \in Powers /\ \A q \in Powers : q >= BlockHashCount => p <= q
    BY <1>1, NextPowerFacts
  <1>3. p \in Nat /\ h \in 0 .. MaxPower /\ IF p = 1 THEN h = 0 ELSE h \in Powers /\ h < p
    <2> HIDE DEF p
    <2> QED BY <1>2, HalfOfPower
  <1> HIDE DEF p, h
  <1>4. r \in Powers /\ \A q \in Powers : q >= h => r <= q
    BY <1>3, NextPowerFacts
  <1>5. 1 \in Powers /\ Powers \subseteq Nat
    BY DEF Powers, MaxPower
  <1> HIDE DEF r
  <1>6. r <= 1 \/ r < BlockHashCount
    BY <1>1, <1>2, <1>3, <1>4, <1>5 DEF MaxPower
  <1>7. r \in Nat
    BY <1>4, <1>5
  <1>8. Period = Max({4, r})
    BY DEF Period, r, h, p
  <1>9. Period = IF r <= 4 THEN 4 ELSE r
    <2> DEFINE m == IF r <= 4 THEN 4 ELSE r
    <2>1. m \in {4, r} /\ \A y \in {4, r} : m >= y
      BY <1>7
    <2>2. \A x \in {4, r} : (\A y \in {4, r} : x >= y) => x = m
      BY <1>7
    <2> HIDE DEF m
    <2>3. Max({4, r}) = m
      BY <2>1, <2>2 DEF Max
    <2> QED BY <2>3, <1>8 DEF m
  <1> QED BY <1>1, <1>6, <1>7, <1>9

-----------------------------------------------------------------------------
(* Calls. *)

\* The calls that clients sign, by what their dispatch reads of them.
LEMMA CallShape ==
    ASSUME NEW c \in Calls
    PROVE  \/ IsTemplate(c)
           \/ /\ c.name \in {"transfer_allow_death", "transfer_keep_alive"}
              /\ c.dest \in Accounts /\ c.value \in Nat
           \/ /\ c.name = "sudo"
              /\ \/ IsTemplate(c.call)
                 \/ /\ c.call.name = "force_set_balance"
                    /\ c.call.who \in Accounts /\ c.call.value = 0
  <1>1. CASE c \in {[name |-> "do_something", value |-> v] : v \in Values}
    BY <1>1 DEF IsTemplate
  <1>2. CASE c = [name |-> "cause_error"]
    BY <1>2 DEF IsTemplate
  <1>3. CASE c \in {[name |-> t, dest |-> d.dest, value |-> d.value] :
                      t \in {"transfer_allow_death", "transfer_keep_alive"}, d \in Transfers}
    <2>1. PICK t \in {"transfer_allow_death", "transfer_keep_alive"}, d \in Transfers :
              c = [name |-> t, dest |-> d.dest, value |-> d.value]
      BY <1>3
    <2>2. d.dest \in Accounts /\ d.value \in Nat
      BY RuntimeAssumption
    <2> QED BY <2>1, <2>2
  <1>4. CASE c \in {[name |-> "sudo", call |-> k] :
            k \in {[name |-> "do_something", value |-> v] : v \in Values}
                  \cup {[name |-> "force_set_balance", who |-> a, value |-> 0] : a \in Reset}}
    <2>1. PICK k \in {[name |-> "do_something", value |-> v] : v \in Values}
                  \cup {[name |-> "force_set_balance", who |-> a, value |-> 0] : a \in Reset} :
              c = [name |-> "sudo", call |-> k]
      BY <1>4
    <2>2. c.name = "sudo" /\ c.call = k
      BY <2>1
    <2>3. CASE k \in {[name |-> "do_something", value |-> v] : v \in Values}
      <3>1. IsTemplate(k)
        BY <2>3 DEF IsTemplate
      <3> QED BY <2>2, <3>1
    <2>4. CASE k \in {[name |-> "force_set_balance", who |-> a, value |-> 0] : a \in Reset}
      <3>1. PICK a \in Reset : k = [name |-> "force_set_balance", who |-> a, value |-> 0]
        BY <2>4
      <3>2. k.name = "force_set_balance" /\ k.who \in Accounts /\ k.value = 0
        BY <3>1, RuntimeAssumption
      <3> QED BY <2>2, <3>2
    <2> QED BY <2>1, <2>3, <2>4
  <1> QED BY <1>1, <1>2, <1>3, <1>4 DEF Calls

\* Every call has a weight and costs a fee, whatever it is.
LEMMA FeeIsPositive ==
    ASSUME NEW c
    PROVE  Weight(c) \in Nat /\ Fee(c) \in Nat /\ Fee(c) > 0
  BY DEF Weight, Fee, do_something_weight, cause_error_weight

-----------------------------------------------------------------------------
(* What a call does to the balances. *)

\* Balances as the runtime keeps them: an account has the deposit or nothing.
Holdings ==
    {held \in [Accounts -> Nat] :
        \A a \in Accounts : held[a] = 0 \/ held[a] >= ExistentialDeposit}

\* An effect that loses nothing: what it burns is what the accounts lose.
LosesNothing(e, held) ==
    /\ e.held \in Holdings /\ e.burned \in Int
    /\ SumFunctionOnSet(held, Accounts) = SumFunctionOnSet(e.held, Accounts) + e.burned

\* There are finitely many accounts.
LEMMA AccountsFinite == IsFiniteSet(Accounts)
  <1>1. IsFiniteSet({}) 
    BY FS_EmptySet
  <1>2. IsFiniteSet({} \cup {alice})
    BY <1>1, FS_AddElement
  <1>3. IsFiniteSet(({} \cup {alice}) \cup {bob})
    BY <1>2, FS_AddElement
  <1>4. IsFiniteSet((({} \cup {alice}) \cup {bob}) \cup {charlie})
    BY <1>3, FS_AddElement
  <1>5. Accounts = (({} \cup {alice}) \cup {bob}) \cup {charlie}
    BY RuntimeAssumption
  <1> QED BY <1>4, <1>5

\* The sum of the balances is an integer.
LEMMA TotalInt ==
    ASSUME NEW held \in [Accounts -> Nat]
    PROVE  SumFunctionOnSet(held, Accounts) \in Int
  <1>1. \A a \in Accounts : held[a] \in Int
    OBVIOUS
  <1> QED BY <1>1, AccountsFinite, SumInt

\* Writing one balance changes the sum by the difference.
LEMMA TotalChange ==
    ASSUME NEW held \in [Accounts -> Nat], NEW a \in Accounts, NEW n \in Nat
    PROVE  SumFunctionOnSet([held EXCEPT ![a] = n], Accounts)
               = SumFunctionOnSet(held, Accounts) + (n - held[a])
  <1> DEFINE g == [held EXCEPT ![a] = n]
  <1>1. g[a] = n /\ \A b \in Accounts \ {a} : g[b] = held[b]
    OBVIOUS
  <1>2. \A b \in Accounts : held[b] \in Int
    OBVIOUS
  <1> HIDE DEF g
  <1>3. SumFunctionOnSet(g, Accounts) = SumFunctionOnSet(held, Accounts) + (g[a] - held[a])
    BY <1>1, <1>2, AccountsFinite, SumChange
  <1> QED BY <1>1, <1>3 DEF g

\* A call that does nothing loses nothing.
LEMMA NoEffectLosesNothing ==
    ASSUME NEW held \in Holdings
    PROVE  LosesNothing(NoEffect(held), held)
  <1>1. SumFunctionOnSet(held, Accounts) \in Int
    BY TotalInt DEF Holdings
  <1>2. NoEffect(held).held = held /\ NoEffect(held).burned = 0
    BY DEF NoEffect
  <1> QED BY <1>1, <1>2 DEF LosesNothing

\* A transfer that is not refused moves its value, and burns the dust it leaves.
LEMMA TransferLosesNothing ==
    ASSUME NEW held \in Holdings, NEW c, NEW origin \in Accounts,
           c.dest \in Accounts, c.value \in Nat, TransferError(c, origin, held) = Ok
    PROVE  LosesNothing(TransferEffect(c, origin, held), held)
  <1> DEFINE d == c.dest
             v == c.value
             left == held[origin] - v
             dust == IF left < ExistentialDeposit THEN left ELSE 0
             rest == left - dust
             mid == [held EXCEPT ![origin] = rest]
             to == held[d] + v
             new == [mid EXCEPT ![d] = to]
  <1>0. ExistentialDeposit \in Nat \ {0}
    BY RuntimeAssumption
  <1>1. CASE origin = d
    BY <1>1, NoEffectLosesNothing DEF TransferEffect
  <1>2. CASE origin # d
    <2>1. held \in [Accounts -> Nat] /\ held[origin] \in Nat /\ held[d] \in Nat
      BY DEF Holdings
    <2>2. v <= held[origin] /\ held[d] + v >= ExistentialDeposit
      <3>1. origin # Root
        BY TemplateAssumption
      <3>2. ~(c.value > held[origin]) /\ ~(held[c.dest] + c.value < ExistentialDeposit)
        BY <3>1 DEF TransferError, Ok
      <3> QED BY <1>0, <2>1, <3>2
    <2>3. left \in Nat /\ dust \in Nat /\ rest \in Nat /\ to \in Nat
      BY <2>1, <2>2, <1>0
    <2>4. rest = 0 \/ rest >= ExistentialDeposit
      BY <2>1, <2>2, <1>0
    <2>5. TransferEffect(c, origin, held) = [held |-> new, burned |-> dust]
      <3>1. [held EXCEPT ![origin] = left - dust, ![c.dest] = @ + c.value] = new
        BY <1>2, <2>1
      <3> QED BY <1>2, <3>1 DEF TransferEffect
    <2> HIDE DEF left, dust, rest, to
    <2>6. mid \in [Accounts -> Nat] /\ mid[d] = held[d]
      BY <1>2, <2>1, <2>3
    <2>7. SumFunctionOnSet(mid, Accounts)
            = SumFunctionOnSet(held, Accounts) + (rest - held[origin])
      BY <2>1, <2>3, TotalChange
    <2>8. SumFunctionOnSet(new, Accounts) = SumFunctionOnSet(mid, Accounts) + (to - mid[d])
      <3> HIDE DEF mid
      <3> QED BY <2>3, <2>6, TotalChange
    <2>9. new \in Holdings
      <3>1. new \in [Accounts -> Nat]
        BY <2>3, <2>6
      <3>2. \A a \in Accounts : new[a] = IF a = d THEN to
                                         ELSE IF a = origin THEN rest ELSE held[a]
        BY <2>1
      <3>3. to >= ExistentialDeposit
        BY <2>2 DEF to
      <3>4. \A a \in Accounts : held[a] = 0 \/ held[a] >= ExistentialDeposit
        BY DEF Holdings
      <3> HIDE DEF new
      <3> QED BY <3>1, <3>2, <3>3, <3>4, <2>4 DEF Holdings
    <2>10. SumFunctionOnSet(held, Accounts) \in Int /\ SumFunctionOnSet(mid, Accounts) \in Int
      BY <2>1, <2>6, TotalInt
    <2> HIDE DEF mid, new
    <2>11. SumFunctionOnSet(held, Accounts) = SumFunctionOnSet(new, Accounts) + dust
      BY <2>1, <2>3, <2>6, <2>7, <2>8, <2>10 DEF left, rest, to
    <2> QED BY <2>3, <2>5, <2>9, <2>11 DEF LosesNothing
  <1> QED BY <1>1, <1>2

\* Setting a balance by force corrects the total issuance by the difference.
LEMMA ForceLosesNothing ==
    ASSUME NEW held \in Holdings, NEW c, c.who \in Accounts, c.value \in Nat
    PROVE  LosesNothing(ForceEffect(c, held), held)
  <1> DEFINE n == IF c.value < ExistentialDeposit THEN 0 ELSE c.value
             new == [held EXCEPT ![c.who] = n]
  <1>0. ExistentialDeposit \in Nat \ {0}
    BY RuntimeAssumption
  <1>1. n \in Nat /\ (n = 0 \/ n >= ExistentialDeposit)
    BY <1>0
  <1>2. ForceEffect(c, held) = [held |-> new, burned |-> held[c.who] - n]
    BY DEF ForceEffect
  <1> HIDE DEF n
  <1>3. held \in [Accounts -> Nat] /\ held[c.who] \in Nat
    BY DEF Holdings
  <1>4. new \in Holdings
    BY <1>1 DEF Holdings
  <1>5. SumFunctionOnSet(new, Accounts)
          = SumFunctionOnSet(held, Accounts) + (n - held[c.who])
    BY <1>1, <1>3, TotalChange
  <1>6. SumFunctionOnSet(held, Accounts) \in Int
    BY <1>3, TotalInt
  <1> HIDE DEF new
  <1>7. SumFunctionOnSet(held, Accounts)
          = SumFunctionOnSet(new, Accounts) + (held[c.who] - n)
    BY <1>1, <1>3, <1>5, <1>6
  <1> QED BY <1>1, <1>2, <1>3, <1>4, <1>7 DEF LosesNothing

-----------------------------------------------------------------------------
(* What apply_extrinsic does, part by part. *)

\* The balances once the fee of x was taken.
Charged(x) == [balance EXCEPT ![x.signer] = @ - Fee(x.call)]

\* The call that is dispatched and its origin; sudo calls as root.
IsSudo(x) == x.call.name = "sudo"
Refused(x) == IsSudo(x) /\ x.signer # SudoKey
Called(x) == IF IsSudo(x) THEN x.call.call ELSE x.call
Origin(x) == IF IsSudo(x) THEN Root ELSE x.signer

\* What the call leaves of the balances and burns.
Outcome(x) ==
    IF Refused(x) THEN NoEffect(Charged(x))
    ELSE CallEffect(Called(x), Origin(x), Charged(x))

\* What sudo gives back of the fee.
Refund(x) ==
    IF IsSudo(x) /\ ~Refused(x) /\ Outcome(x).held[x.signer] > 0 THEN Fee(x.call) ELSE 0

\* The accounts whose life the call ends.
Reaped(x) == {a \in Accounts : balance[a] > 0 /\ Outcome(x).held[a] = 0}

\* What the history remembers of it.
Inclusion(x) == [xt |-> x, block |-> block, life |-> life[x.signer]]

\* The action in these terms.
LEMMA ApplyParts ==
    ASSUME NEW x, apply_extrinsic(x)
    PROVE  /\ building /\ x \in pool
           /\ NonceError(x) = Ok /\ Invalidity(x, block, weight) = Ok
           /\ weight' = weight + Weight(x.call)
           /\ IF Refused(x) THEN Fail("RequireSudo")
              ELSE Dispatch(Called(x), Origin(x), Charged(x))
           /\ balance' = [Outcome(x).held EXCEPT ![x.signer] = @ + Refund(x)]
           /\ issuance' = issuance - (Fee(x.call) - Refund(x)) - Outcome(x).burned
           /\ nonce' = [a \in Accounts |-> IF a \in Reaped(x) THEN 0
                                           ELSE IF a = x.signer THEN nonce[a] + 1
                                           ELSE nonce[a]]
           /\ life' = [a \in Accounts |-> IF a \in Reaped(x) THEN life[a] + 1 ELSE life[a]]
           /\ included' = included \cup {Inclusion(x)}
           /\ pool' = pool \ {x}
           /\ UNCHANGED <<block, building, hashes, signed>>
  BY DEF apply_extrinsic, Charged, IsSudo, Refused, Called, Origin, Outcome, Refund,
         Reaped, Inclusion

\* What is applied was signed by an account, for its nonce, in its era, and its
\* signer can pay the fee and keep the deposit.
LEMMA ApplyGuard ==
    ASSUME TypeInv, NEW x, apply_extrinsic(x)
    PROVE  /\ x \in Extrinsic /\ x \in signed
           /\ x.signer \in Accounts /\ x.nonce \in Nat /\ x.call \in Calls
           /\ x.birth \in Nat /\ x.period \in Nat
           /\ x.nonce = nonce[x.signer]
           /\ x.period # Immortal => block < x.birth + x.period
           /\ balance[x.signer] >= Fee(x.call) + ExistentialDeposit
  <1>1. x \in pool /\ NonceError(x) = Ok /\ Invalidity(x, block, weight) = Ok
    BY ApplyParts
  <1>2. x \in Extrinsic /\ x \in signed
    BY <1>1 DEF TypeInv
  <1>3. /\ x.signer \in Accounts /\ x.nonce \in Nat /\ x.call \in Calls
        /\ x.birth \in Nat /\ x.period \in Nat
    BY <1>2 DEF Extrinsic
  <1>4. /\ nonce[x.signer] \in Nat /\ balance[x.signer] \in Nat /\ block \in Nat
        /\ Fee(x.call) \in Nat /\ ExistentialDeposit \in Nat
    BY <1>3, FeeIsPositive, RuntimeAssumption DEF TypeInv
  <1>5. x.nonce = nonce[x.signer]
    <2>1. ~(x.nonce < nonce[x.signer]) /\ ~(x.nonce > nonce[x.signer])
      BY <1>1 DEF NonceError, Ok
    <2> QED BY <2>1, <1>3, <1>4
  <1>6. EraError(x, block) = Ok /\ PaymentError(x) = Ok
    BY <1>1 DEF Invalidity, Ok
  <1>7. ~(x.period # Immortal /\ block >= x.birth + x.period)
    BY <1>6 DEF EraError, Ok
  <1>8. ~(balance[x.signer] < Fee(x.call) + ExistentialDeposit)
    BY <1>6 DEF PaymentError, Ok
  <1> QED BY <1>2, <1>3, <1>4, <1>5, <1>7, <1>8

\* Once the fee was taken the signer still has the deposit.
LEMMA ChargedHoldings ==
    ASSUME TypeInv, LedgerBalanced, NEW x, x.signer \in Accounts,
           balance[x.signer] >= Fee(x.call) + ExistentialDeposit
    PROVE  /\ Charged(x) \in Holdings
           /\ Charged(x)[x.signer] = balance[x.signer] - Fee(x.call)
           /\ Charged(x)[x.signer] >= ExistentialDeposit
           /\ \A a \in Accounts : a # x.signer => Charged(x)[a] = balance[a]
           /\ SumFunctionOnSet(Charged(x), Accounts) = issuance - Fee(x.call)
  <1> DEFINE s == x.signer
             fee == Fee(x.call)
             rest == balance[s] - fee
  <1>1. fee \in Nat /\ ExistentialDeposit \in Nat
    BY FeeIsPositive, RuntimeAssumption
  <1>2. balance \in [Accounts -> Nat] /\ balance[s] \in Nat /\ issuance \in Int
    BY DEF TypeInv
  <1>3. Charged(x) = [balance EXCEPT ![s] = rest]
    BY DEF Charged
  <1> HIDE DEF fee
  <1>4. rest \in Nat /\ rest >= ExistentialDeposit
    BY <1>1, <1>2 DEF fee
  <1> HIDE DEF rest
  <1>5. /\ Charged(x) \in [Accounts -> Nat] /\ Charged(x)[s] = rest
        /\ \A a \in Accounts : a # s => Charged(x)[a] = balance[a]
    BY <1>2, <1>3, <1>4
  <1>6. Charged(x) \in Holdings
    <2>1. \A a \in Accounts : balance[a] = 0 \/ balance[a] >= ExistentialDeposit
      BY DEF LedgerBalanced
    <2> QED BY <2>1, <1>4, <1>5 DEF Holdings
  <1>7. SumFunctionOnSet([balance EXCEPT ![s] = rest], Accounts)
            = SumFunctionOnSet(balance, Accounts) + (rest - balance[s])
    BY <1>2, <1>4, TotalChange
  <1>8. issuance = SumFunctionOnSet(balance, Accounts)
    BY DEF LedgerBalanced
  <1>9. SumFunctionOnSet(Charged(x), Accounts) = issuance - fee
    BY <1>1, <1>2, <1>3, <1>4, <1>7, <1>8 DEF rest
  <1>10. Charged(x)[s] = balance[s] - fee
    BY <1>5 DEF rest
  <1> QED BY <1>4, <1>5, <1>6, <1>9, <1>10 DEF fee

\* Whatever is called, and whether it fails, it loses nothing.
LEMMA OutcomeLosesNothing ==
    ASSUME NEW x, x.call \in Calls, x.signer \in Accounts, Charged(x) \in Holdings
    PROVE  LosesNothing(Outcome(x), Charged(x))
  <1> DEFINE c == Called(x)
             o == Origin(x)
             h == Charged(x)
  <1>1. CASE Refused(x) \/ IsTemplate(c) \/ BalancesError(c, o, h) # Ok
    <2>1. Outcome(x) = NoEffect(h)
      BY <1>1 DEF Outcome, CallEffect
    <2> QED BY <2>1, NoEffectLosesNothing
  <1>2. CASE ~Refused(x) /\ ~IsTemplate(c) /\ BalancesError(c, o, h) = Ok
    <2>1. CASE IsSudo(x)
      <3>1. x.call.name = "sudo" /\ c = x.call.call
        BY <2>1 DEF IsSudo, Called
      <3>2. ~IsTemplate(x.call)
        BY <3>1 DEF IsTemplate
      <3>3. c.name = "force_set_balance" /\ c.who \in Accounts /\ c.value = 0
        BY <1>2, <3>1, <3>2, CallShape
      <3>4. Outcome(x) = ForceEffect(c, h)
        BY <1>2, <3>3 DEF Outcome, CallEffect
      <3>5. c.value \in Nat
        BY <3>3
      <3> HIDE DEF c, h
      <3>6. LosesNothing(ForceEffect(c, h), h)
        BY <3>3, <3>5, ForceLosesNothing DEF h
      <3> QED BY <3>4, <3>6 DEF h
    <2>2. CASE ~IsSudo(x)
      <3>1. c = x.call /\ o = x.signer /\ x.call.name # "sudo"
        BY <2>2 DEF IsSudo, Called, Origin
      <3>2. /\ c.name \in {"transfer_allow_death", "transfer_keep_alive"}
            /\ c.dest \in Accounts /\ c.value \in Nat
        BY <1>2, <3>1, CallShape
      <3>3. c.name # "force_set_balance"
        BY <3>2
      <3>4. Outcome(x) = TransferEffect(c, o, h)
        BY <1>2, <3>3 DEF Outcome, CallEffect
      <3>5. TransferError(c, o, h) = Ok
        BY <1>2, <3>3 DEF BalancesError
      <3>6. o \in Accounts
        BY <3>1
      <3> HIDE DEF c, o, h
      <3>7. LosesNothing(TransferEffect(c, o, h), h)
        BY <3>2, <3>5, <3>6, TransferLosesNothing DEF h
      <3> QED BY <3>4, <3>7 DEF h
    <2> QED BY <2>1, <2>2
  <1> QED BY <1>1, <1>2

\* Including an extrinsic keeps the ledger balanced.
LEMMA ApplyKeepsLedger ==
    ASSUME TypeInv, LedgerBalanced, NEW x, apply_extrinsic(x)
    PROVE  /\ LedgerBalanced'
           /\ balance' \in [Accounts -> Nat] /\ issuance' \in Int
           /\ Outcome(x).held \in Holdings
  <1> DEFINE s == x.signer
             fee == Fee(x.call)
             h == Charged(x)
             e == Outcome(x)
             r == Refund(x)
             new == e.held[s] + r
  <1>1. /\ s \in Accounts /\ x.call \in Calls
        /\ balance[s] >= fee + ExistentialDeposit
    BY ApplyGuard
  <1>2. h \in Holdings /\ SumFunctionOnSet(h, Accounts) = issuance - fee
    BY <1>1, ChargedHoldings
  <1>3. LosesNothing(e, h)
    BY <1>1, <1>2, OutcomeLosesNothing
  <1>4. fee \in Nat /\ issuance \in Int /\ ExistentialDeposit \in Nat \ {0}
    BY FeeIsPositive, RuntimeAssumption DEF TypeInv
  <1>5. r = 0 \/ (r = fee /\ e.held[s] > 0)
    BY DEF Refund
  <1>6. /\ balance' = [e.held EXCEPT ![s] = @ + r]
        /\ issuance' = issuance - (fee - r) - e.burned
    BY ApplyParts
  <1> HIDE DEF fee, h, e, r
  <1>7. /\ e.held \in [Accounts -> Nat] /\ e.held[s] \in Nat /\ e.burned \in Int
        /\ \A a \in Accounts : e.held[a] = 0 \/ e.held[a] >= ExistentialDeposit
        /\ SumFunctionOnSet(h, Accounts) = SumFunctionOnSet(e.held, Accounts) + e.burned
    BY <1>1, <1>3 DEF LosesNothing, Holdings
  <1>8. r \in Nat /\ new \in Nat /\ (new = 0 \/ new >= ExistentialDeposit)
    <2>1. e.held[s] = 0 \/ e.held[s] >= ExistentialDeposit
      BY <1>1, <1>7
    <2> QED BY <1>4, <1>5, <1>7, <2>1
  <1>9. balance' = [e.held EXCEPT ![s] = new]
    BY <1>6
  <1> HIDE DEF new
  <1>10. SumFunctionOnSet([e.held EXCEPT ![s] = new], Accounts)
            = SumFunctionOnSet(e.held, Accounts) + (new - e.held[s])
    <2> DEFINE g == e.held
    <2>1. g \in [Accounts -> Nat]
      BY <1>7
    <2> HIDE DEF g
    <2>2. SumFunctionOnSet([g EXCEPT ![s] = new], Accounts)
            = SumFunctionOnSet(g, Accounts) + (new - g[s])
      BY <2>1, <1>1, <1>8, TotalChange
    <2> QED BY <2>2 DEF g
  <1>11. SumFunctionOnSet(e.held, Accounts) \in Int
    BY <1>7, TotalInt
  <1>12. issuance' = SumFunctionOnSet([e.held EXCEPT ![s] = new], Accounts)
    BY <1>2, <1>4, <1>6, <1>7, <1>8, <1>10, <1>11 DEF new
  <1>13. /\ balance' \in [Accounts -> Nat]
         /\ \A a \in Accounts : balance'[a] = 0 \/ balance'[a] >= ExistentialDeposit
    BY <1>7, <1>8, <1>9
  <1>14. issuance' \in Int
    BY <1>4, <1>6, <1>7, <1>8
  <1>15. issuance' = SumFunctionOnSet(balance', Accounts)
    BY <1>9, <1>12
  <1>16. e.held \in Holdings
    BY <1>3 DEF LosesNothing
  <1> QED BY <1>13, <1>14, <1>15, <1>16 DEF LedgerBalanced, e

-----------------------------------------------------------------------------
(* Inclusions and nonces. *)

\* The inclusion of x is a new one: its signer has not used its nonce in this life.
LEMMA InclusionIsNew ==
    ASSUME TypeInv, EachNonceOncePerLife, NEW x, apply_extrinsic(x)
    PROVE  \A i \in included :
              ~(i.xt.signer = x.signer /\ i.xt.nonce = x.nonce /\ i.life = life[x.signer])
  <1> SUFFICES ASSUME NEW i \in included, i.xt.signer = x.signer,
                      i.xt.nonce = x.nonce, i.life = life[x.signer]
               PROVE  FALSE
    OBVIOUS
  <1>1. x.signer \in Accounts /\ x.nonce = nonce[x.signer] /\ nonce[x.signer] \in Nat
    BY ApplyGuard DEF TypeInv
  <1>2. i \in OfThisLife(x.signer)
    BY DEF OfThisLife
  <1>3. i.xt.nonce \in 0 .. nonce[x.signer] - 1
    BY <1>1, <1>2 DEF EachNonceOncePerLife
  <1> QED BY <1>1, <1>3

\* Applying an extrinsic keeps the types.
LEMMA ApplyKeepsTypes ==
    ASSUME Inv, NEW x, apply_extrinsic(x)
    PROVE  TypeInv'
  <1>1. balance' \in [Accounts -> Nat] /\ issuance' \in Int
    BY ApplyKeepsLedger DEF Inv
  <1>2. x \in Extrinsic /\ x.signer \in Accounts
    BY ApplyGuard DEF Inv
  <1>3. TypeInv
    BY DEF Inv
  <1>4. block' \in Nat /\ building' \in BOOLEAN /\ block' <= MaxBlock
    BY <1>3, ApplyParts DEF TypeInv
  <1>5. weight' \in Nat
    <2>1. weight' = weight + Weight(x.call) /\ weight \in Nat
      BY <1>3, ApplyParts DEF TypeInv
    <2> QED BY <2>1, FeeIsPositive
  <1>6. nonce' \in [Accounts -> Nat] /\ life' \in [Accounts -> Nat]
    BY <1>3, ApplyParts DEF TypeInv
  <1>7. signed' \subseteq Extrinsic /\ pool' \subseteq signed'
    BY <1>3, ApplyParts DEF TypeInv
  <1>8. included' = included \cup {Inclusion(x)}
    BY ApplyParts
  <1>9. Inclusion(x) \in [xt: Extrinsic, block: Nat, life: Nat]
    BY <1>2, <1>3 DEF TypeInv, Inclusion
  <1>10. included' \subseteq [xt: Extrinsic, block: Nat, life: Nat] /\ IsFiniteSet(included')
    BY <1>3, <1>8, <1>9, FS_AddElement DEF TypeInv
  <1> QED BY <1>1, <1>4, <1>5, <1>6, <1>7, <1>10 DEF TypeInv

\* Applying an extrinsic keeps the history in order.
LEMMA ApplyKeepsHistory ==
    ASSUME Inv, NEW x, apply_extrinsic(x)
    PROVE  LivesInOrder' /\ OncePerLife' /\ WithinEra'
  <1> DEFINE n == Inclusion(x)
  <1>1. n.xt = x /\ n.block = block /\ n.life = life[x.signer]
    BY DEF Inclusion
  <1>2. included' = included \cup {n}
    BY ApplyParts
  <1>3. /\ x \in signed /\ x.signer \in Accounts /\ x.birth \in Nat
        /\ x.period # Immortal => block < x.birth + x.period
        /\ block \in Nat
    BY ApplyGuard DEF Inv, TypeInv
  <1>4. \A i \in included :
           /\ i.xt.signer \in Accounts /\ i.life \in Nat
           /\ i.life <= life[i.xt.signer]
           /\ ~(i.xt.signer = x.signer /\ i.xt.nonce = x.nonce /\ i.life = life[x.signer])
    <2>1. \A i \in included : i \in [xt: Extrinsic, block: Nat, life: Nat]
      BY DEF Inv, TypeInv
    <2>2. \A i \in included : i.xt.signer \in Accounts /\ i.life \in Nat
      BY <2>1 DEF Extrinsic
    <2> QED BY <2>2, InclusionIsNew DEF Inv, LivesInOrder
  <1>5. \A a \in Accounts : /\ life[a] \in Nat /\ life'[a] \in Nat
                            /\ life[a] <= life'[a]
    <2>1. \A a \in Accounts : life[a] \in Nat
      BY DEF Inv, TypeInv
    <2>2. \A a \in Accounts : life'[a] = IF a \in Reaped(x) THEN life[a] + 1 ELSE life[a]
      BY ApplyParts
    <2> QED BY <2>1, <2>2
  <1> HIDE DEF n
  <1>6. LivesInOrder'
    <2> SUFFICES ASSUME NEW i \in included'
                 PROVE  i.life <= life'[i.xt.signer]
      BY DEF LivesInOrder
    <2>1. CASE i \in included
      BY <2>1, <1>4, <1>5
    <2>2. CASE i = n
      BY <2>2, <1>1, <1>3, <1>5
    <2> QED BY <2>1, <2>2, <1>2
  <1>7. OncePerLife'
    <2> SUFFICES ASSUME NEW i \in included', NEW j \in included',
                        i.xt.signer = j.xt.signer, i.xt.nonce = j.xt.nonce, i.life = j.life
                 PROVE  i = j
      BY DEF OncePerLife
    <2>1. CASE i \in included /\ j \in included
      BY <2>1 DEF Inv, OncePerLife
    <2>2. CASE i = n /\ j \in included
      BY <2>2, <1>1, <1>4
    <2>3. CASE j = n /\ i \in included
      BY <2>3, <1>1, <1>4
    <2> QED BY <2>1, <2>2, <2>3, <1>2
  <1>8. WithinEra'
    <2>1. x.birth <= block
      <3>1. x.birth <= Best
        BY <1>3 DEF Inv, BornInThePast
      <3> QED BY <3>1, <1>3 DEF Best
    <2>2. InEra(n.xt, n.block)
      BY <1>1, <1>3, <2>1 DEF InEra
    <2>3. \A i \in included : InEra(i.xt, i.block)
      BY DEF Inv, WithinEra
    <2>4. \A i \in included' : InEra(i.xt, i.block)
      BY <1>2, <2>2, <2>3
    <2> QED BY <2>4 DEF WithinEra, InEra
  <1> QED BY <1>6, <1>7, <1>8

\* Applying an extrinsic uses exactly the next nonce of its signer, or ends a
\* life whose successor has used none.
LEMMA ApplyKeepsNonces ==
    ASSUME Inv, NEW x, apply_extrinsic(x)
    PROVE  EachNonceOncePerLife'
  <1> SUFFICES ASSUME NEW a \in Accounts
               PROVE  /\ {i.xt.nonce : i \in OfThisLife(a)'} = 0 .. nonce'[a] - 1
                      /\ Cardinality(OfThisLife(a)') = nonce'[a]
    BY DEF EachNonceOncePerLife
  <1> DEFINE n == Inclusion(x)
             L == OfThisLife(a)
  <1>1. n.xt = x /\ n.life = life[x.signer]
    BY DEF Inclusion
  <1>2. included' = included \cup {n}
    BY ApplyParts
  <1>3. /\ nonce'[a] = IF a \in Reaped(x) THEN 0
                       ELSE IF a = x.signer THEN nonce[a] + 1 ELSE nonce[a]
        /\ life'[a] = IF a \in Reaped(x) THEN life[a] + 1 ELSE life[a]
    BY ApplyParts
  <1>4. OfThisLife(a)' = {i \in included \cup {n} : i.xt.signer = a /\ i.life = life'[a]}
    BY <1>2 DEF OfThisLife
  <1>5. L = {i \in included : i.xt.signer = a /\ i.life = life[a]}
    BY DEF OfThisLife
  <1>6. /\ {i.xt.nonce : i \in L} = 0 .. nonce[a] - 1
        /\ Cardinality(L) = nonce[a] /\ nonce[a] \in Nat /\ life[a] \in Nat
    BY DEF Inv, EachNonceOncePerLife, TypeInv
  <1>7. IsFiniteSet(L)
    <2>1. L \subseteq included
      BY <1>5
    <2> QED BY <2>1, FS_Subset DEF Inv, TypeInv
  <1>8. n \notin included /\ x.nonce = nonce[x.signer]
    <2>1. n \notin included
      BY <1>1, InclusionIsNew DEF Inv
    <2> QED BY <2>1, ApplyGuard DEF Inv
  <1> HIDE DEF n, L
  <1>9. CASE a \in Reaped(x)
    <2>1. nonce'[a] = 0 /\ life'[a] = life[a] + 1
      BY <1>3, <1>9
    <2>2. \A i \in included : i.xt.signer = a => i.life \in Nat /\ i.life <= life[a]
      BY DEF Inv, LivesInOrder, TypeInv
    <2>3. \A i \in included \cup {n} : i.xt.signer = a => i.life # life'[a]
      <3> SUFFICES ASSUME NEW i \in included \cup {n}, i.xt.signer = a
                   PROVE  i.life # life[a] + 1
        BY <2>1
      <3>1. CASE i \in included
        BY <3>1, <2>2, <1>6
      <3>2. CASE i = n
        BY <3>2, <1>1, <1>6
      <3> QED BY <3>1, <3>2
    <2>4. OfThisLife(a)' = {}
      BY <1>4, <2>3
    <2>5. {i.xt.nonce : i \in {}} = 0 .. 0 - 1
      OBVIOUS
    <2> QED BY <2>1, <2>4, <2>5, FS_EmptySet
  <1>10. CASE a \notin Reaped(x) /\ a = x.signer
    <2>1. nonce'[a] = nonce[a] + 1 /\ life'[a] = life[a]
      BY <1>3, <1>10
    <2>2. OfThisLife(a)' = L \cup {n}
      BY <1>1, <1>4, <1>5, <1>10, <2>1
    <2>3. n \notin L
      BY <1>5, <1>8
    <2>4. Cardinality(L \cup {n}) = nonce[a] + 1
      BY <1>6, <1>7, <2>3, FS_AddElement
    <2>5. {i.xt.nonce : i \in L \cup {n}} = {i.xt.nonce : i \in L} \cup {nonce[a]}
      BY <1>1, <1>8, <1>10
    <2>6. (0 .. nonce[a] - 1) \cup {nonce[a]} = 0 .. (nonce[a] + 1) - 1
      BY <1>6
    <2>7. {i.xt.nonce : i \in L \cup {n}} = 0 .. (nonce[a] + 1) - 1
      BY <1>6, <2>5, <2>6
    <2> QED BY <2>1, <2>2, <2>4, <2>7
  <1>11. CASE a \notin Reaped(x) /\ a # x.signer
    <2>1. nonce'[a] = nonce[a] /\ life'[a] = life[a]
      BY <1>3, <1>11
    <2>2. OfThisLife(a)' = L
      BY <1>1, <1>4, <1>5, <1>11, <2>1
    <2> QED BY <1>6, <2>1, <2>2
  <1> QED BY <1>9, <1>10, <1>11

-----------------------------------------------------------------------------
(* The invariant is inductive. *)

\* The genesis state satisfies the invariant.
LEMMA InitInv == Init => Inv
  <1> SUFFICES ASSUME Init PROVE Inv
    OBVIOUS
  <1> DEFINE E == EndowedAccounts
             zero == [a \in Accounts |-> 0]
  <1>0. /\ Endowment \in Nat /\ Endowment >= ExistentialDeposit
        /\ ExistentialDeposit \in Nat /\ MaxBlock \in Nat
    BY RuntimeAssumption
  <1>1. TypeInv
    <2>1. /\ block \in Nat /\ building \in BOOLEAN /\ weight \in Nat
          /\ block <= MaxBlock
      <3>1. block = 0 /\ building = FALSE /\ weight = 0
        BY DEF Init
      <3>2. block \in Nat /\ weight \in Nat /\ block <= MaxBlock
        BY <3>1, <1>0
      <3>3. building \in BOOLEAN
        BY <3>1
      <3> QED BY <3>2, <3>3
    <2>6. /\ signed \subseteq Extrinsic /\ pool \subseteq signed
          /\ included \subseteq [xt: Extrinsic, block: Nat, life: Nat]
      BY DEF Init
    <2>2. nonce \in [Accounts -> Nat] /\ life \in [Accounts -> Nat]
      BY DEF Init
    <2>3. balance \in [Accounts -> Nat]
      BY <1>0 DEF Init
    <2>4. issuance \in Int
      <3>1. E \subseteq Accounts
        BY RuntimeAssumption DEF EndowedAccounts
      <3>2. Cardinality(E) \in Nat
        BY <3>1, AccountsFinite, FS_Subset, FS_CardinalityType
      <3>3. issuance = Endowment * Cardinality(E)
        BY DEF Init
      <3> QED BY <3>2, <3>3, <1>0
    <2>5. IsFiniteSet(included)
      BY FS_EmptySet DEF Init
    <2> QED BY <2>1, <2>2, <2>3, <2>4, <2>5, <2>6 DEF TypeInv
  <1>2. HashesKept
    BY DEF Init, HashesKept, Best
  <1>3. BornInThePast /\ ImmortalFromGenesis /\ LivesInOrder /\ OncePerLife /\ WithinEra
    BY DEF Init, BornInThePast, ImmortalFromGenesis, LivesInOrder, OncePerLife, WithinEra
  <1>4. EachNonceOncePerLife
    <2> SUFFICES ASSUME NEW a \in Accounts
                 PROVE  /\ {i.xt.nonce : i \in OfThisLife(a)} = 0 .. nonce[a] - 1
                        /\ Cardinality(OfThisLife(a)) = nonce[a]
      BY DEF EachNonceOncePerLife
    <2>1. OfThisLife(a) = {} /\ nonce[a] = 0
      BY DEF Init, OfThisLife
    <2>2. {i.xt.nonce : i \in {}} = 0 .. 0 - 1
      OBVIOUS
    <2> QED BY <2>1, <2>2, FS_EmptySet
  <1>5. LedgerBalanced
    <2>1. \A a \in Accounts : balance[a] = 0 \/ balance[a] >= ExistentialDeposit
      BY <1>0 DEF Init
    <2>2. issuance = SumFunctionOnSet(balance, Accounts)
      <3>1. E \subseteq Accounts
        BY RuntimeAssumption DEF EndowedAccounts
      <3>2. Accounts \cap E = E
        BY <3>1
      <3>3. /\ \A a \in Accounts : balance[a] = IF a \in E THEN Endowment ELSE 0
            /\ issuance = Endowment * Cardinality(E)
        BY DEF Init
      <3> HIDE DEF E
      <3>4. SumFunctionOnSet(balance, Accounts) = Endowment * Cardinality(Accounts \cap E)
        <4>1. \A a \in Accounts : a \in E => balance[a] = Endowment
          BY <3>3
        <4>2. \A a \in Accounts : a \notin E => balance[a] = 0
          BY <3>3
        <4> QED BY <4>1, <4>2, <1>0, AccountsFinite, SumOfMembers
      <3> QED BY <3>2, <3>3, <3>4
    <2> QED BY <2>1, <2>2 DEF LedgerBalanced
  <1> QED BY <1>1, <1>2, <1>3, <1>4, <1>5 DEF Inv

\* The first block of the era is not ahead, and block 0 if the era is immortal.
EraBegun(x) == x.birth <= block /\ (x.period = Immortal => x.birth = 0)

\* What clients sign, with the helper or without, is an extrinsic whose era has
\* begun.
LEMMA SignedInThePast ==
    ASSUME TypeInv, NEW a \in Signers, NEW c \in Calls, NEW n \in {nonce[a], nonce[a] + 1},
           \/ create_benchmark_extrinsic(a, c, n)
           \/ \E p \in ClientPeriods : new_signed(a, c, n, p)
    PROVE  \E x \in Extrinsic : EraBegun(x) /\ Sign(x)
  <1>1. a \in Accounts /\ n \in Nat /\ 0 \in 0 .. MaxBlock /\ block \in 0 .. MaxBlock
    <2>1. a \in Accounts /\ nonce[a] \in Nat /\ block \in Nat /\ block <= MaxBlock
      BY RuntimeAssumption DEF TypeInv
    <2> QED BY <2>1, RuntimeAssumption
  <1> DEFINE X(b, p) == [signer |-> a, nonce |-> n, call |-> c, birth |-> b, period |-> p]
  <1>2. \A b \in 0 .. MaxBlock, p \in Nat : X(b, p) \in Extrinsic /\ X(b, p).birth = b /\ X(b, p).period = p
    BY <1>1 DEF Extrinsic
  <1>3. CASE create_benchmark_extrinsic(a, c, n)
    <2>1. Sign(X(block, Period))
      BY <1>3 DEF create_benchmark_extrinsic
    <2>2. Period \in Nat /\ Period # Immortal /\ block <= block
      BY <1>1, PeriodFacts DEF Immortal
    <2> HIDE DEF X
    <2> QED BY <1>1, <1>2, <2>1, <2>2 DEF EraBegun
  <1>4. ASSUME NEW p \in ClientPeriods, new_signed(a, c, n, p)
        PROVE  \E x \in Extrinsic : EraBegun(x) /\ Sign(x)
    <2> DEFINE b == IF p = Immortal THEN 0 ELSE block
    <2>1. Sign(X(b, p))
      BY <1>4 DEF new_signed
    <2>2. b \in 0 .. MaxBlock /\ b <= block /\ p \in Nat /\ (p = Immortal => b = 0)
      BY <1>1, RuntimeAssumption
    <2> HIDE DEF X, b
    <2> QED BY <1>2, <2>1, <2>2 DEF EraBegun
  <1> QED BY <1>3, <1>4

\* Every step keeps the types.
LEMMA NextKeepsTypes ==
    ASSUME Inv, [Next]_vars
    PROVE  TypeInv'
  <1>1. TypeInv
    BY DEF Inv
  <1>2. ASSUME NEW x \in Extrinsic, Sign(x)
        PROVE  TypeInv'
    BY <1>1, <1>2 DEF Sign, TypeInv, chain, ledger
  <1>3. ASSUME NEW x, submit(x)
        PROVE  TypeInv'
    BY <1>1, <1>3 DEF submit, TypeInv, chain, ledger
  <1>4. ASSUME NEW x, revalidate(x)
        PROVE  TypeInv'
    BY <1>1, <1>4 DEF revalidate, TypeInv, chain, ledger
  <1>5. ASSUME NEW x, apply_extrinsic(x)
        PROVE  TypeInv'
    BY <1>5, ApplyKeepsTypes
  <1>6. CASE initialize_block
    <2>1. block' \in Nat /\ block' <= MaxBlock /\ weight' \in Nat
      BY <1>1, <1>6, RuntimeAssumption DEF initialize_block, TypeInv
    <2>2. building' \in BOOLEAN
      BY <1>6 DEF initialize_block
    <2> QED BY <1>1, <1>6, <2>1, <2>2 DEF initialize_block, TypeInv, ledger
  <1>7. CASE finalize_block
    BY <1>1, <1>7 DEF finalize_block, TypeInv, ledger
  <1>8. CASE UNCHANGED vars
    BY <1>1, <1>8 DEF vars, TypeInv, chain, ledger
  <1> QED BY <1>1, <1>2, <1>3, <1>4, <1>5, <1>6, <1>7, <1>8, SignedInThePast DEF Next

\* The kept hashes always reach back far enough, and births lie behind.
LEMMA NextKeepsHashes ==
    ASSUME Inv, [Next]_vars
    PROVE  HashesKept' /\ BornInThePast' /\ ImmortalFromGenesis'
  <1>1. /\ block \in Nat /\ building \in BOOLEAN /\ BlockHashCount \in Nat \ {0}
        /\ \A x \in signed : x.birth \in Nat
    <2>1. \A x \in signed : x \in Extrinsic
      BY DEF Inv, TypeInv
    <2>2. \A x \in signed : x.birth \in Nat
      BY <2>1 DEF Extrinsic
    <2> QED BY <2>2, RuntimeAssumption DEF Inv, TypeInv
  <1>2. /\ Best \in Nat /\ 0 \in hashes
        /\ \A b \in Nat : b <= Best /\ Best - BlockHashCount <= b => b \in hashes
        /\ \A x \in signed : x.birth <= Best
        /\ \A x \in signed : x.period = Immortal => x.birth = 0
    BY DEF Inv, HashesKept, BornInThePast, ImmortalFromGenesis
  <1>3. ASSUME UNCHANGED <<block, building, hashes>>, signed' = signed
        PROVE  HashesKept' /\ BornInThePast' /\ ImmortalFromGenesis'
    <2>1. Best' = Best
      BY <1>3 DEF Best
    <2> QED BY <1>2, <1>3, <2>1 DEF HashesKept, BornInThePast, ImmortalFromGenesis
  <1>4. ASSUME NEW x \in Extrinsic, EraBegun(x), Sign(x)
        PROVE  HashesKept' /\ BornInThePast' /\ ImmortalFromGenesis'
    <2>1. /\ signed' = signed \cup {x} /\ ~building
          /\ UNCHANGED <<block, building, hashes>>
      BY <1>4 DEF Sign, chain
    <2>2. Best' = Best /\ Best = block
      BY <2>1 DEF Best
    <2>3. \A y \in signed' : y.birth <= Best'
      BY <1>2, <1>4, <2>1, <2>2 DEF EraBegun
    <2>4. HashesKept'
      BY <1>2, <2>1, <2>2 DEF HashesKept
    <2>5. ImmortalFromGenesis'
      BY <1>2, <1>4, <2>1 DEF ImmortalFromGenesis, EraBegun
    <2> QED BY <2>3, <2>4, <2>5 DEF BornInThePast
  <1>5. ASSUME NEW x, submit(x) \/ revalidate(x)
        PROVE  HashesKept' /\ BornInThePast' /\ ImmortalFromGenesis'
    BY <1>3, <1>5 DEF submit, revalidate, chain
  <1>6. ASSUME NEW x, apply_extrinsic(x)
        PROVE  HashesKept' /\ BornInThePast' /\ ImmortalFromGenesis'
    BY <1>3, <1>6, ApplyParts
  <1>7. CASE initialize_block
    <2>1. ~building /\ building' /\ block' = block + 1 /\ hashes' = hashes /\ signed' = signed
      BY <1>7 DEF initialize_block
    <2>2. Best' = Best
      BY <1>1, <2>1 DEF Best
    <2> QED BY <1>2, <2>1, <2>2 DEF HashesKept, BornInThePast, ImmortalFromGenesis
  <1>8. CASE finalize_block
    <2>1. /\ building /\ ~building' /\ block' = block /\ signed' = signed
          /\ hashes' = (hashes \cup {block}) \ ({block - BlockHashCount - 1} \ {0})
      BY <1>8 DEF finalize_block
    <2>2. Best' = block /\ Best = block - 1
      BY <2>1 DEF Best
    <2>3. ASSUME NEW b \in Nat, b <= block, block - BlockHashCount <= b
          PROVE  b \in hashes'
      <3>1. b # block - BlockHashCount - 1
        BY <1>1, <2>3
      <3>2. b = block \/ b \in hashes
        BY <1>1, <1>2, <2>2, <2>3
      <3> QED BY <2>1, <3>1, <3>2
    <2>4. \A x \in signed : x.birth <= block
      BY <1>1, <1>2, <2>2
    <2>5. 0 \in hashes'
      BY <1>2, <2>1
    <2>6. ImmortalFromGenesis'
      BY <1>2, <2>1 DEF ImmortalFromGenesis
    <2>7. HashesKept'
      BY <1>1, <2>2, <2>3, <2>5 DEF HashesKept
    <2> QED BY <2>1, <2>2, <2>4, <2>6, <2>7 DEF BornInThePast
  <1>9. CASE UNCHANGED vars
    BY <1>3, <1>9 DEF vars, chain
  <1>10. TypeInv
    BY DEF Inv
  <1> QED BY <1>4, <1>5, <1>6, <1>7, <1>8, <1>9, <1>10, SignedInThePast DEF Next

\* Only apply_extrinsic touches the ledger and the history.
LEMMA NextKeepsLedger ==
    ASSUME Inv, [Next]_vars
    PROVE  LedgerBalanced' /\ LivesInOrder' /\ OncePerLife' /\ WithinEra'
               /\ EachNonceOncePerLife'
  <1>1. ASSUME UNCHANGED ledger
        PROVE  LedgerBalanced' /\ LivesInOrder' /\ OncePerLife' /\ WithinEra'
                   /\ EachNonceOncePerLife'
    <2>1. UNCHANGED <<balance, issuance, nonce, life, included>>
      BY <1>1 DEF ledger
    <2>2. LedgerBalanced' /\ LivesInOrder'
      BY <2>1 DEF Inv, LedgerBalanced, LivesInOrder
    <2>3. OncePerLife' /\ WithinEra'
      BY <2>1 DEF Inv, OncePerLife, WithinEra, InEra
    <2>4. \A a \in Accounts : OfThisLife(a)' = OfThisLife(a)
      BY <2>1 DEF OfThisLife
    <2>5. EachNonceOncePerLife'
      BY <2>1, <2>4 DEF Inv, EachNonceOncePerLife
    <2> QED BY <2>2, <2>3, <2>5
  <1>2. ASSUME NEW x, apply_extrinsic(x)
        PROVE  LedgerBalanced' /\ LivesInOrder' /\ OncePerLife' /\ WithinEra'
                   /\ EachNonceOncePerLife'
    <2>1. LedgerBalanced'
      BY <1>2, ApplyKeepsLedger DEF Inv
    <2> QED BY <1>2, <2>1, ApplyKeepsHistory, ApplyKeepsNonces
  <1>3. (\E x : apply_extrinsic(x)) \/ UNCHANGED ledger
    BY DEF Next, vars, Sign, create_benchmark_extrinsic, new_signed, submit, revalidate,
           initialize_block, finalize_block
  <1> QED BY <1>1, <1>2, <1>3

\* The invariant holds in every state the runtime can reach.
THEOREM RuntimeInvariant == Spec => []Inv
  <1>1. Init => Inv
    BY InitInv
  <1>2. Inv /\ [Next]_vars => Inv'
    BY NextKeepsTypes, NextKeepsHashes, NextKeepsLedger DEF Inv
  <1> QED BY <1>1, <1>2, PTL DEF Spec

-----------------------------------------------------------------------------
(* The properties. *)

\* The total issuance is what the accounts hold, and no account holds less
\* than the deposit (balances pallet, fees, sudo).
THEOREM LedgerAlwaysBalanced == Spec => []LedgerBalanced
  <1>1. Inv => LedgerBalanced
    BY DEF Inv
  <1> QED BY <1>1, RuntimeInvariant, PTL

\* Since an account came to life, each of its nonces was included once
\* (CheckNonce).
THEOREM NoncesUsedOnce == Spec => []EachNonceOncePerLife
  <1>1. Inv => EachNonceOncePerLife
    BY DEF Inv
  <1> QED BY <1>1, RuntimeInvariant, PTL

\* An extrinsic is included again only in another life of its signer, and a
\* mortal one only within the same era, whatever period its client chose
\* (CheckNonce, CheckEra).
THEOREM ReplayBounded == Spec => []ReplayOnlyWithinEra
  <1>1. Inv => ReplayOnlyWithinEra
    <2> SUFFICES ASSUME Inv, NEW i \in included, NEW j \in included,
                        i.xt = j.xt, i # j
                 PROVE  /\ i.life # j.life
                        /\ i.xt.period # Immortal => i.block - j.block < i.xt.period
      BY DEF ReplayOnlyWithinEra
    <2>1. i.life # j.life
      BY DEF Inv, OncePerLife
    <2>2. /\ i.xt.period # Immortal => i.block < i.xt.birth + i.xt.period
          /\ i.xt.birth <= j.block
      BY DEF Inv, WithinEra, InEra
    <2>3. i \in [xt: Extrinsic, block: Nat, life: Nat] /\ j \in [xt: Extrinsic, block: Nat, life: Nat]
      BY DEF Inv, TypeInv
    <2>4. i.block \in Nat /\ j.block \in Nat /\ i.xt \in Extrinsic
      BY <2>3
    <2>5. i.xt.birth \in Nat /\ i.xt.period \in Nat
      BY <2>4 DEF Extrinsic
    <2> QED BY <2>1, <2>2, <2>4, <2>5
  <1> QED BY <1>1, RuntimeInvariant, PTL

\* While its era lasts, the block is known that an extrinsic was signed against
\* for the helper's period, a shorter one or for ever (CheckEra, BlockHashCount).  With a single kept hash this would be wrong:
\* Era::mortal makes the period 4 then.
THEOREM BirthBlockAlwaysKnown ==
    ASSUME BlockHashCount >= 2
    PROVE  Spec => []BirthBlockIsKnown
  <1>1. Inv => BirthBlockIsKnown
    <2> DEFINE n == IF building THEN block ELSE block + 1
    <2> SUFFICES ASSUME Inv, NEW x \in signed, x.period <= Period,
                        EraError(x, n) = "AncientBirthBlock"
                 PROVE  FALSE
      BY DEF BirthBlockIsKnown
    <2>1. ~(x.period # Immortal /\ n >= x.birth + x.period) /\ x.birth \notin hashes
      BY DEF EraError, Ok
    <2>2. x \in Extrinsic /\ block \in Nat /\ building \in BOOLEAN
      BY DEF Inv, TypeInv
    <2>3. x.birth \in Nat /\ x.period \in Nat
      BY <2>2 DEF Extrinsic
    <2>4. n = Best + 1 /\ Best \in Nat /\ x.birth <= Best
      <3>1. Best \in Nat /\ x.birth <= Best
        BY DEF Inv, HashesKept, BornInThePast
      <3>2. n = Best + 1
        BY <2>2 DEF Best
      <3> QED BY <3>1, <3>2
    <2>5. Period \in Nat /\ Period <= BlockHashCount + 2 /\ BlockHashCount \in Nat
      BY PeriodFacts, RuntimeAssumption
    <2> HIDE DEF n
    <2>6. CASE x.period = Immortal
      <3>1. x.birth = 0
        BY <2>6 DEF Inv, ImmortalFromGenesis
      <3> QED BY <2>1, <3>1 DEF Inv, HashesKept
    <2>7. CASE x.period # Immortal
      <3>1. Best - BlockHashCount <= x.birth
        BY <2>1, <2>3, <2>4, <2>5, <2>7
      <3> QED BY <2>1, <2>3, <2>4, <3>1 DEF Inv, HashesKept
    <2> QED BY <2>6, <2>7
  <1> QED BY <1>1, RuntimeInvariant, PTL

=============================================================================
