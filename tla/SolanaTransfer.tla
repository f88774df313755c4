----------------------------- MODULE SolanaTransfer -----------------------------
(* The Solana client (advanced1-dapp-backend/task3/experiencesolanago): main.go  *)
(* asks for an airdrop, takes a blockhash and calls TransferSOL of utils.go,     *)
(* which sends one signed transaction up to maxRetries times.  The operator may  *)
(* run the program again.                                                        *)
(*                                                                               *)
(* The cluster is external.  A transaction is named by the height of its         *)
(* blockhash: the other fields never change and signing is deterministic, so     *)
(* that two runs with one blockhash sign the same transaction.  Fees are left    *)
(* out, and the transfer is one unit of the balance.                             *)
EXTENDS Integers, FiniteSets

CONSTANTS
    maxRetries,     \* attempts of TransferSOL (3)
    Validity,       \* blocks for which a blockhash is accepted (150)
    Funds,          \* balance of the payer at first
    Airdrop,        \* what the faucet pays
    MaxHeight,      \* bound: the cluster stops at this height
    MaxRuns,        \* bound: how often the operator runs the program
    None            \* no blockhash, or the zero signature

ASSUME ClientAssumption ==
    /\ maxRetries \in Nat \ {0} /\ Validity \in Nat \ {0}
    /\ Funds \in Nat /\ Airdrop \in Nat \ {0}
    /\ MaxHeight \in Nat /\ MaxRuns \in Nat
    /\ None \notin Int

VARIABLES
    height,     \* confirmed block height
    finalized,  \* finalized block height, which preflight checks look at
    balance,    \* the payer's balance
    airdrops,   \* airdrops requested and not executed yet
    inflight,   \* transactions on their way to a leader
    landed,     \* transactions that moved the amount
    rejected,   \* transactions that were executed and failed
    pc,         \* where the program is
    blockhash,  \* the blockhash that main took, and so the transaction
    lastBlockHeight,
    i,          \* attempts made
    signature,  \* what TransferSOL returned
    runs,       \* runs started
    abandoned   \* history: transactions of runs that ended with an error

cluster == <<height, finalized, balance, airdrops, inflight, landed, rejected>>
program == <<pc, blockhash, lastBlockHeight, i, signature, runs, abandoned>>
vars == <<cluster, program>>

Transactions == 0 .. MaxHeight

Init ==
    /\ height = 0 /\ finalized = 0
    /\ balance = Funds /\ airdrops = 0
    /\ inflight = {} /\ landed = {} /\ rejected = {}
    /\ pc = "off" /\ blockhash = None /\ lastBlockHeight = 0
    /\ i = 0 /\ signature = None /\ runs = 0 /\ abandoned = {}

-----------------------------------------------------------------------------
(* The cluster.                                                                *)

ProduceBlock ==
    /\ height < MaxHeight
    /\ height' = height + 1
    /\ UNCHANGED <<finalized, balance, airdrops, inflight, landed, rejected, program>>

Finalize ==
    /\ finalized < height
    /\ finalized' = finalized + 1
    /\ UNCHANGED <<height, balance, airdrops, inflight, landed, rejected, program>>

PayAirdrop ==
    /\ airdrops > 0
    /\ airdrops' = airdrops - 1
    /\ balance' = balance + Airdrop
    /\ UNCHANGED <<height, finalized, inflight, landed, rejected, program>>

\* A transaction is executed at most once, and only as long as its blockhash is valid.
Execute(tx) ==
    /\ tx \in inflight \ (landed \cup rejected) /\ height <= tx + Validity
    /\ inflight' = inflight \ {tx}
    /\ IF balance > 0
       THEN landed' = landed \cup {tx} /\ balance' = balance - 1 /\ UNCHANGED rejected
       ELSE rejected' = rejected \cup {tx} /\ UNCHANGED <<landed, balance>>
    /\ UNCHANGED <<height, finalized, airdrops, program>>

\* Lost on the way, expired, or known already.
Drop(tx) ==
    /\ tx \in inflight
    /\ inflight' = inflight \ {tx}
    /\ UNCHANGED <<height, finalized, balance, airdrops, landed, rejected, program>>

-----------------------------------------------------------------------------
(* The program.                                                                *)

Goto(next) ==
    pc' = next /\ UNCHANGED <<blockhash, lastBlockHeight, i, signature, runs, abandoned>>

\* log.Fatalf: the process ends at once.
Fatal ==
    /\ pc' = "failed"
    /\ abandoned' = abandoned \cup ({blockhash} \ {None})
    /\ UNCHANGED <<blockhash, lastBlockHeight, i, signature, runs>>

\* Connecting, a first blockhash and the balance, which are only printed.
start ==
    /\ pc \in {"off", "failed"} /\ runs < MaxRuns
    /\ pc' = "airdrop" /\ runs' = runs + 1
    /\ blockhash' = None /\ lastBlockHeight' = 0 /\ i' = 0 /\ signature' = None
    /\ UNCHANGED <<cluster, abandoned>>

\* The airdrop is requested; the five seconds of sleep do not wait for it.
requestAirdrop ==
    /\ pc = "airdrop"
    /\ \/ Goto("getBlockhash") /\ airdrops' = airdrops + 1
       \/ Fatal /\ UNCHANGED airdrops
    /\ UNCHANGED <<height, finalized, balance, inflight, landed, rejected>>

getLatestBlockhash ==
    /\ pc = "getBlockhash"
    /\ \/ /\ blockhash' = height /\ lastBlockHeight' = height + Validity
          /\ pc' = "checkHeight" /\ UNCHANGED <<i, signature, runs, abandoned>>
       \/ Fatal
    /\ UNCHANGED cluster

checkHeight ==
    /\ pc = "checkHeight"
    /\ \/ height <= lastBlockHeight /\ Goto("send")
       \/ Fatal
    /\ UNCHANGED cluster

\* Mutant of shouldRetry: timeouts are tried again too.
shouldRetry_Timeouts(err) == err \in {"BlockhashNotFound", "timeout"}

shouldRetry(err) == err = "BlockhashNotFound"

\* Mutant of NextAttempt: the loop variable is not increased.
NextAttempt_Stays == i

NextAttempt == i + 1

\* Mutant of MoreAttempts: one attempt too many.
MoreAttempts_OffByOne(n) == n <= maxRetries

MoreAttempts(n) == n < maxRetries

\* An attempt of TransferSOL ended with err, having produced sig.  After the
\* last one the loop is left and "sig, nil" is returned all the same.
AttemptFails(err, sig) ==
    IF ~shouldRetry(err) THEN Fatal
    ELSE /\ i' = NextAttempt
         /\ IF MoreAttempts(i')
            THEN pc' = "sleep" /\ UNCHANGED signature
            ELSE pc' = "reported" /\ signature' = sig
         /\ UNCHANGED <<blockhash, lastBlockHeight, runs, abandoned>>

\* Two seconds before the next attempt.
sleep == pc = "sleep" /\ Goto("send") /\ UNCHANGED cluster

\* sendTransaction: the node simulates the transaction on its finalized state
\* and forwards it if that works.  A failed call has no signature.
sendTransaction ==
    /\ pc = "send"
    /\ \/ /\ ~(blockhash <= finalized /\ finalized <= blockhash + Validity)
          /\ AttemptFails("BlockhashNotFound", None) /\ UNCHANGED inflight
       \/ /\ blockhash <= finalized /\ finalized <= blockhash + Validity
          /\ \/ Goto("confirm") /\ inflight' = inflight \cup {blockhash}
             \/ /\ balance = 0 \/ blockhash \in landed \cup rejected
                /\ AttemptFails("preflight", None) /\ UNCHANGED inflight
       \* The connection breaks, before or after the node has the transaction.
       \/ AttemptFails("rpc", None) /\ inflight' \in {inflight, inflight \cup {blockhash}}
    /\ UNCHANGED <<height, finalized, balance, airdrops, landed, rejected>>

\* Mutant of waitForConfirmation: any answer counts as success.
waitForConfirmation_AnyAnswer ==
    /\ pc = "confirm"
    /\ \/ /\ blockhash \in landed \cup rejected
          /\ pc' = "reported" /\ signature' = blockhash
          /\ UNCHANGED <<blockhash, lastBlockHeight, i, runs, abandoned>>
       \/ AttemptFails("timeout", blockhash)
    /\ UNCHANGED cluster

\* The signature subscription answers, or two minutes pass.
waitForConfirmation ==
    /\ pc = "confirm"
    /\ \/ /\ blockhash \in landed
          /\ pc' = "reported" /\ signature' = blockhash
          /\ UNCHANGED <<blockhash, lastBlockHeight, i, runs, abandoned>>
       \/ blockhash \in rejected /\ AttemptFails("transaction", blockhash)
       \/ AttemptFails("timeout", blockhash)
    /\ UNCHANGED cluster

\* "transfer successfully!" is printed; the second subscription prints only,
\* and may fail.
report ==
    /\ pc = "reported"
    /\ Goto("listening") \/ Fatal
    /\ UNCHANGED cluster

\* The user presses Enter.
pressEnter == pc = "listening" /\ Goto("off") /\ UNCHANGED cluster

ProgramStep ==
    \/ requestAirdrop \/ getLatestBlockhash \/ checkHeight
    \/ sleep \/ sendTransaction \/ waitForConfirmation \/ report

Next ==
    \/ ProduceBlock \/ Finalize \/ PayAirdrop
    \/ \E tx \in inflight : Execute(tx) \/ Drop(tx)
    \/ start \/ ProgramStep \/ pressEnter

Spec == Init /\ [][Next]_vars

\* The program goes on: calls return or fail, sleeps end, subscriptions time out.
FairSpec == Spec /\ WF_vars(ProgramStep)

-----------------------------------------------------------------------------
(* Properties.                                                                 *)

TypeOK ==
    /\ height \in 0 .. MaxHeight /\ finalized \in 0 .. height
    /\ balance \in Nat /\ airdrops \in 0 .. MaxRuns
    /\ inflight \subseteq Transactions
    /\ landed \subseteq Transactions /\ rejected \subseteq Transactions
    /\ blockhash \in Transactions \cup {None} /\ signature \in Transactions \cup {None}
    /\ abandoned \subseteq Transactions
    /\ i \in 0 .. maxRetries /\ runs \in 0 .. MaxRuns

\* TransferSOL returns no error when all of its attempts have failed, and main
\* then reports a success.  A signature that is reported is good all the same:
\* that transaction has moved the amount.
ReportedSignatureMoved ==
    pc \in {"reported", "listening"} /\ signature # None => signature \in landed

\* What was reported does not change afterwards: no attempt that was given up
\* as refused moves the amount later, unless an earlier run with the same
\* blockhash, and so the same transaction, had ended in doubt.
ReportIsFinal ==
    [][landed' # landed /\ pc \in {"reported", "listening"} =>
          blockhash \notin landed' \ landed \/ blockhash \in abandoned]_vars

\* However the cluster behaves, the program comes to a report or to an error.
RunEnds == (pc \notin {"off", "listening", "failed"}) ~> (pc \in {"listening", "failed"})

=============================================================================
