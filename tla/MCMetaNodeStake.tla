---------------------------- MODULE MCMetaNodeStake ----------------------------
(* Model-checking instances of the staking contract.                           *)
EXTENDS MetaNodeStake, TLC

\* Stakers are interchangeable.
Symmetry == Permutations(Users)

-----------------------------------------------------------------------------
(* What the contract's documents say and the code does not do.                 *)

\* "unstake(pid, amount)" starts an unstake request (README.md:19): while
\* rewards run, a staker may ask for the whole stake back.
StakersCanUnstake ==
    \A pid \in Pids, u \in Users :
        /\ users[pid][u].amount > 0
        /\ schedule.startBlock <= block /\ block < schedule.endBlock
        => CanUnstake(u, pid, users[pid][u].amount)

=============================================================================
