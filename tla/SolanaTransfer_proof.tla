-------------------------- MODULE SolanaTransfer_proof --------------------------
(* Proofs about the Solana client, for any number of attempts, any validity of  *)
(* blockhashes and any number of runs.                                          *)
EXTENDS SolanaTransfer, TLAPS

-----------------------------------------------------------------------------
(* The inductive invariant.                                                    *)

Places == {"off", "airdrop", "getBlockhash", "checkHeight", "sleep", "send",
           "confirm", "reported", "listening", "failed"}

\* How far the program is: attempts are left before each one, and a run asks
\* for one airdrop.
Progress ==
    /\ pc \in Places
    /\ pc \in {"checkHeight", "sleep", "send", "confirm"} =>
          blockhash \in Transactions /\ i < maxRetries
    /\ pc \in {"airdrop", "getBlockhash"} => i = 0
    /\ airdrops <= runs /\ (pc = "airdrop" => airdrops < runs)
    /\ lastBlockHeight \in Nat

\* A transaction on its way is waited for, or was given up with an error.
NoneForgotten ==
    \A tx \in inflight \ landed : tx \in abandoned \/ (pc = "confirm" /\ tx = blockhash)

\* A signature is reported for a transaction that has landed.
Reports == pc \in {"reported", "listening"} /\ signature # None => signature \in landed

IInv == TypeOK /\ Progress /\ NoneForgotten /\ Reports

\* The invariant holds at first.
LEMMA InitIInv == Init => IInv
BY ClientAssumption DEF Init, IInv, TypeOK, Progress, NoneForgotten, Reports,
                        Places, Transactions

\* The cluster keeps it: what is in flight gets less, what has landed more.
LEMMA ClusterIInv ==
    ASSUME IInv, ProduceBlock \/ Finalize \/ PayAirdrop
                 \/ \E tx \in inflight : Execute(tx) \/ Drop(tx)
    PROVE  IInv'
<1> USE DEF IInv, program
<1>1. UNCHANGED program /\ inflight' \subseteq inflight /\ landed \subseteq landed'
  BY DEF ProduceBlock, Finalize, PayAirdrop, Execute, Drop
<1>2. TypeOK' /\ airdrops' <= airdrops
  <2>1. CASE ProduceBlock
    BY <2>1, ClientAssumption DEF ProduceBlock, TypeOK
  <2>2. CASE Finalize
    BY <2>2, ClientAssumption DEF Finalize, TypeOK
  <2>3. CASE PayAirdrop
    BY <2>3, ClientAssumption DEF PayAirdrop, TypeOK
  <2>4. ASSUME NEW tx \in inflight, Execute(tx)
        PROVE  TypeOK' /\ airdrops' <= airdrops
    <3>1. /\ tx \in Transactions /\ balance' \in Nat
          /\ inflight' \subseteq Transactions /\ airdrops' = airdrops
          /\ landed' \subseteq Transactions /\ rejected' \subseteq Transactions
      BY <2>4 DEF Execute, TypeOK
    <3> QED
      BY <2>4, <3>1, <1>1, ClientAssumption DEF Execute, TypeOK
  <2>5. ASSUME NEW tx \in inflight, Drop(tx)
        PROVE  TypeOK' /\ airdrops' <= airdrops
    BY <2>5, ClientAssumption DEF Drop, TypeOK
  <2> QED
    BY <2>1, <2>2, <2>3, <2>4, <2>5
<1>3. Progress'
  BY <1>1, <1>2, ClientAssumption DEF Progress, TypeOK
<1>4. NoneForgotten' /\ Reports'
  BY <1>1 DEF NoneForgotten, Reports
<1> QED
  BY <1>2, <1>3, <1>4

\* An attempt that failed is retried, given up, or the last: only a refused one
\* is retried, and it has no signature.
LEMMA AttemptFailsIInv ==
    ASSUME IInv, NEW err, NEW sig \in Transactions \cup {None},
           pc \in {"send", "confirm"}, AttemptFails(err, sig),
           shouldRetry(err) => pc = "send" /\ sig = None /\ inflight' = inflight,
           inflight' \in {inflight, inflight \cup {blockhash}},
           UNCHANGED <<height, finalized, balance, airdrops, landed, rejected>>
    PROVE  IInv'
<1> USE DEF IInv
<1>1. blockhash \in Transactions /\ i < maxRetries /\ i \in Nat
  BY DEF Progress, TypeOK
<1>2. CASE ~shouldRetry(err)
  <2>1. Fatal
    BY <1>2 DEF AttemptFails
  <2>2. blockhash # None
    BY <1>1, ClientAssumption DEF Transactions
  <2>3. TypeOK'
    BY <2>1, <1>1, ClientAssumption DEF Fatal, TypeOK
  <2>4. Progress'
    BY <2>1 DEF Fatal, Progress, Places
  <2>5. NoneForgotten' /\ Reports'
    BY <2>1, <2>2 DEF Fatal, NoneForgotten, Reports
  <2> QED
    BY <2>3, <2>4, <2>5
<1>3. CASE shouldRetry(err)
  <2>1. /\ i' = i + 1 /\ UNCHANGED <<blockhash, lastBlockHeight, runs, abandoned>>
        /\ \/ i + 1 < maxRetries /\ pc' = "sleep" /\ signature' = signature
           \/ ~(i + 1 < maxRetries) /\ pc' = "reported" /\ signature' = None
    BY <1>3 DEF AttemptFails, NextAttempt, MoreAttempts
  <2>2. TypeOK'
    BY <2>1, <1>1, <1>3, ClientAssumption DEF TypeOK
  <2>3. Progress'
    BY <2>1, <1>1, ClientAssumption DEF Progress, Places
  <2>4. NoneForgotten' /\ Reports'
    BY <2>1, <1>3 DEF NoneForgotten, Reports
  <2> QED
    BY <2>2, <2>3, <2>4
<1> QED
  BY <1>2, <1>3

\* Every step of the program but its attempts.
LEMMA QuietStepIInv ==
    ASSUME IInv, start \/ requestAirdrop \/ getLatestBlockhash \/ checkHeight
                 \/ sleep \/ report \/ pressEnter
    PROVE  IInv'
<1> USE DEF IInv, Goto, Fatal, cluster, Places
<1>1. CASE start
  BY <1>1, ClientAssumption DEF start, TypeOK, Progress, NoneForgotten, Reports
<1>2. CASE requestAirdrop
  BY <1>2, ClientAssumption DEF requestAirdrop, TypeOK, Progress, NoneForgotten, Reports
<1>3. CASE getLatestBlockhash
  <2>1. TypeOK'
    BY <1>3, ClientAssumption DEF getLatestBlockhash, TypeOK, Transactions
  <2>2. Progress'
    BY <1>3, ClientAssumption DEF getLatestBlockhash, TypeOK, Progress, Transactions
  <2>3. NoneForgotten' /\ Reports'
    BY <1>3 DEF getLatestBlockhash, NoneForgotten, Reports
  <2> QED
    BY <2>1, <2>2, <2>3
<1>4. CASE checkHeight \/ sleep
  BY <1>4, ClientAssumption DEF checkHeight, sleep, TypeOK, Progress, NoneForgotten, Reports
<1>5. CASE report
  BY <1>5, ClientAssumption DEF report, TypeOK, Progress, NoneForgotten, Reports
<1>6. CASE pressEnter
  BY <1>6, ClientAssumption DEF pressEnter, TypeOK, Progress, NoneForgotten, Reports
<1> QED
  BY <1>1, <1>2, <1>3, <1>4, <1>5, <1>6

\* Sending: refused, accepted, or in doubt.
LEMMA SendIInv ==
    ASSUME IInv, sendTransaction
    PROVE  IInv'
<1> USE DEF sendTransaction
<1>1. blockhash \in Transactions /\ pc = "send" /\ None \in Transactions \cup {None}
      /\ UNCHANGED <<height, finalized, balance, airdrops, landed, rejected>>
  BY DEF IInv, Progress
<1>2. CASE AttemptFails("BlockhashNotFound", None) /\ UNCHANGED inflight
  BY <1>1, <1>2, AttemptFailsIInv
<1>3. CASE AttemptFails("preflight", None) /\ UNCHANGED inflight
  BY <1>1, <1>3, AttemptFailsIInv DEF shouldRetry
<1>4. CASE /\ AttemptFails("rpc", None)
           /\ inflight' \in {inflight, inflight \cup {blockhash}}
  BY <1>1, <1>4, AttemptFailsIInv DEF shouldRetry
<1>5. CASE Goto("confirm") /\ inflight' = inflight \cup {blockhash}
  <2>1. TypeOK' /\ Progress'
    BY <1>1, <1>5, ClientAssumption DEF IInv, TypeOK, Progress, Goto, Places
  <2>2. NoneForgotten' /\ Reports'
    BY <1>1, <1>5 DEF IInv, NoneForgotten, Reports, Goto
  <2> QED
    BY <2>1, <2>2 DEF IInv
<1> QED
  BY <1>2, <1>3, <1>4, <1>5

\* Waiting: confirmed, refused by the chain, or given up.
LEMMA ConfirmIInv ==
    ASSUME IInv, waitForConfirmation
    PROVE  IInv'
<1> USE DEF waitForConfirmation, cluster
<1>1. blockhash \in Transactions /\ pc = "confirm"
      /\ UNCHANGED <<height, finalized, balance, airdrops, landed, rejected>>
      /\ inflight' = inflight
  BY DEF IInv, Progress
<1>2. CASE AttemptFails("transaction", blockhash)
  BY <1>1, <1>2, AttemptFailsIInv DEF shouldRetry
<1>3. CASE AttemptFails("timeout", blockhash)
  BY <1>1, <1>3, AttemptFailsIInv DEF shouldRetry
<1>4. CASE /\ blockhash \in landed
           /\ pc' = "reported" /\ signature' = blockhash
           /\ UNCHANGED <<blockhash, lastBlockHeight, i, runs, abandoned>>
  <2>1. TypeOK' /\ Progress'
    BY <1>1, <1>4, ClientAssumption DEF IInv, TypeOK, Progress, Places
  <2>2. NoneForgotten' /\ Reports'
    BY <1>1, <1>4 DEF IInv, NoneForgotten, Reports
  <2> QED
    BY <2>1, <2>2 DEF IInv
<1> QED
  BY <1>2, <1>3, <1>4

\* Every step keeps the invariant.
LEMMA NextIInv == IInv /\ [Next]_vars => IInv'
<1> SUFFICES ASSUME IInv, [Next]_vars PROVE IInv'
  OBVIOUS
<1>1. CASE Next
  BY <1>1, ClusterIInv, QuietStepIInv, SendIInv, ConfirmIInv DEF Next, ProgramStep
<1>2. CASE UNCHANGED vars
  BY <1>2 DEF IInv, TypeOK, Progress, NoneForgotten, Reports, vars, cluster, program
<1> QED
  BY <1>1, <1>2

\* The inductive invariant is one of the specification.
LEMMA Inductive == Spec => []IInv
BY InitIInv, NextIInv, PTL DEF Spec

-----------------------------------------------------------------------------
(* Theorems.                                                                   *)

\* The state of cluster and program keeps its types; no run makes more than
\* maxRetries attempts.
THEOREM TypeCorrect == Spec => []TypeOK
<1>1. IInv => TypeOK
  BY DEF IInv
<1> QED
  BY <1>1, Inductive, PTL

\* A signature that main reports belongs to a transfer that took place.
THEOREM ReportedMoved == Spec => []ReportedSignatureMoved
<1>1. IInv => ReportedSignatureMoved
  BY DEF IInv, Reports, ReportedSignatureMoved
<1> QED
  BY <1>1, Inductive, PTL

\* The transfer of a run does not take place after main has reported, unless an
\* earlier run with the same transaction was left in doubt.
THEOREM ReportFinal == Spec => ReportIsFinal
<1> DEFINE Final == landed' # landed /\ pc \in {"reported", "listening"} =>
                        blockhash \notin landed' \ landed \/ blockhash \in abandoned
<1>1. IInv /\ [Next]_vars => [Final]_vars
  <2> SUFFICES ASSUME IInv, Next, pc \in {"reported", "listening"},
                      blockhash \in landed' \ landed
               PROVE  blockhash \in abandoned
    OBVIOUS
  <2>1. blockhash \in inflight \ landed
    BY DEF Next, ProduceBlock, Finalize, PayAirdrop, Execute, Drop, start, ProgramStep,
           requestAirdrop, getLatestBlockhash, checkHeight, sleep, sendTransaction,
           waitForConfirmation, report, pressEnter, cluster
  <2> QED
    BY <2>1 DEF IInv, NoneForgotten
<1> QED
  BY <1>1, Inductive, PTL DEF Spec, ReportIsFinal

=============================================================================
