------------------------------ MODULE VotingPallet ------------------------------
(* The voting pallet of the Substrate example chain                          *)
(* (task4/examples/substrate-dev/pallets/voting/src/lib.rs): proposals with a *)
(* list of options, one vote per account, a running tally, and a winner       *)
(* announced when somebody ends the proposal after its voting period.         *)
(*                                                                            *)
(* Every dispatchable is one action.  A call that fails an ensure! leaves the *)
(* storage alone and only returns its error, so each action has two           *)
(* disjuncts: the call is accepted and writes storage, or it is refused.      *)
(* Descriptions and option texts are never read by the pallet: a description  *)
(* is modelled by its length, a list of options by how many there are.        *)
EXTENDS Integers, FiniteSets

CONSTANTS
    Accounts,               \* the accounts that can sign an extrinsic
    MaxOptions,             \* Config: most options of a proposal
    MaxDescriptionLength,   \* Config: longest description
    MinVotingPeriod,        \* Config: shortest voting period, in blocks
    MaxVotingPeriod,        \* Config: longest voting period, in blocks
    U32Max,                 \* largest u32: ids and vote counts saturate here
    MaxBlock,               \* largest block number: the chain stops here
    MaxProposals,           \* bound: create_proposal is called below this id
    None                    \* the Option::None of the storage maps

ASSUME VotingAssumption ==
    /\ IsFiniteSet(Accounts)
    /\ MaxOptions \in Nat
    /\ MaxDescriptionLength \in Nat
    /\ MinVotingPeriod \in Nat
    /\ MaxVotingPeriod \in Nat
    /\ U32Max \in Nat \ {0}
    /\ MaxBlock \in Nat
    /\ MaxProposals \in Nat
    /\ None \notin Int

Ids == 0 .. U32Max
Blocks == 0 .. MaxBlock
OptionIndexes == 0 .. MaxOptions - 1

ProposalInfo == [proposer: Accounts, options: 1 .. MaxOptions,
                 start_block: Blocks, end_block: Blocks, is_active: BOOLEAN]

ASSUME NoneIsNoProposal == None \notin ProposalInfo

VARIABLES
    block,            \* frame_system's block number
    Proposals,        \* id -> ProposalInfo, or None
    Votes,            \* id -> account -> option index, or None (weight is always 1)
    VoteResults,      \* id -> option index -> count (ValueQuery: 0 by default)
    NextProposalId,
    outcome           \* what the last call returned: its event, or its error

vars == <<block, Proposals, Votes, VoteResults, NextProposalId, outcome>>
storage == <<Proposals, Votes, VoteResults, NextProposalId>>

-----------------------------------------------------------------------------
(* Outcomes of a call. *)

Ok == "Ok"

Events == {"ProposalCreated", "VoteCast", "ProposalEnded", "ProposalCancelled"}

Errors == {"ProposalNotFound", "ProposalNotActive", "VotingPeriodEnded",
           "VotingPeriodNotStarted", "InvalidOptionIndex", "AlreadyVoted",
           "TooManyOptions", "DescriptionTooLong", "InvalidVotingPeriod",
           "NotProposer", "NoOptions"}

Deposit(event, p, i) == [result |-> event, proposal_id |-> p, option |-> i]

\* A call that returns Err: the runtime rolls its storage writes back.
Refuse(error) ==
    /\ error # Ok
    /\ outcome' = Deposit(error, None, None)
    /\ UNCHANGED <<block, storage>>

\* Mutant of SaturatingAdd: the u32 wraps around.
WrappingAdd(a, b, max) == (a + b) % (max + 1)

SaturatingAdd(a, b, max) == IF a + b > max THEN max ELSE a + b

-----------------------------------------------------------------------------
Init ==
    /\ block = 0
    /\ Proposals = [p \in Ids |-> None]
    /\ Votes = [p \in Ids |-> [a \in Accounts |-> None]]
    /\ VoteResults = [p \in Ids |-> [i \in OptionIndexes |-> 0]]
    /\ NextProposalId = 0
    /\ outcome = Deposit(Ok, None, None)

\* The chain authors its next block (frame_system, outside the pallet).
AdvanceBlock ==
    /\ block < MaxBlock
    /\ block' = block + 1
    /\ outcome' = Deposit(Ok, None, None)
    /\ UNCHANGED storage

CreateError(n, len, period) ==
    IF n = 0 THEN "NoOptions"
    ELSE IF n > MaxOptions THEN "TooManyOptions"
    ELSE IF len > MaxDescriptionLength THEN "DescriptionTooLong"
    ELSE IF period < MinVotingPeriod \/ period > MaxVotingPeriod
         THEN "InvalidVotingPeriod"
    ELSE Ok

Accept_create_proposal(who, n, len, period) ==
    /\ CreateError(n, len, period) = Ok
    /\ Proposals' = [Proposals EXCEPT ![NextProposalId] =
            [proposer |-> who, options |-> n, start_block |-> block,
             end_block |-> SaturatingAdd(block, period, MaxBlock),
             is_active |-> TRUE]]
    /\ NextProposalId' = SaturatingAdd(NextProposalId, 1, U32Max)
    /\ outcome' = Deposit("ProposalCreated", NextProposalId, None)
    /\ UNCHANGED <<block, Votes, VoteResults>>

create_proposal(who, n, len, period) ==
    /\ NextProposalId < MaxProposals
    /\ \/ Accept_create_proposal(who, n, len, period)
       \/ Refuse(CreateError(n, len, period))

\* Mutants of VoteError: one of its checks is missing or off by one.
VoteError_Twice(who, p, i) ==
    IF Proposals[p] = None THEN "ProposalNotFound"
    ELSE IF ~Proposals[p].is_active THEN "ProposalNotActive"
    ELSE IF block > Proposals[p].end_block THEN "VotingPeriodEnded"
    ELSE IF i >= Proposals[p].options THEN "InvalidOptionIndex"
    ELSE Ok

VoteError_Closed(who, p, i) ==
    IF Proposals[p] = None THEN "ProposalNotFound"
    ELSE IF block > Proposals[p].end_block THEN "VotingPeriodEnded"
    ELSE IF i >= Proposals[p].options THEN "InvalidOptionIndex"
    ELSE IF Votes[p][who] # None THEN "AlreadyVoted"
    ELSE Ok

VoteError_OptionBound(who, p, i) ==
    IF Proposals[p] = None THEN "ProposalNotFound"
    ELSE IF ~Proposals[p].is_active THEN "ProposalNotActive"
    ELSE IF block > Proposals[p].end_block THEN "VotingPeriodEnded"
    ELSE IF i > Proposals[p].options THEN "InvalidOptionIndex"
    ELSE IF Votes[p][who] # None THEN "AlreadyVoted"
    ELSE Ok

VoteError(who, p, i) ==
    IF Proposals[p] = None THEN "ProposalNotFound"
    ELSE IF ~Proposals[p].is_active THEN "ProposalNotActive"
    ELSE IF block < Proposals[p].start_block THEN "VotingPeriodNotStarted"
    ELSE IF block > Proposals[p].end_block THEN "VotingPeriodEnded"
    ELSE IF i >= Proposals[p].options THEN "InvalidOptionIndex"
    ELSE IF Votes[p][who] # None THEN "AlreadyVoted"
    ELSE Ok

Accept_vote(who, p, i) ==
    /\ VoteError(who, p, i) = Ok
    /\ Votes' = [Votes EXCEPT ![p][who] = i]
    /\ VoteResults' = [VoteResults EXCEPT ![p][i] = SaturatingAdd(@, 1, U32Max)]
    /\ outcome' = Deposit("VoteCast", p, i)
    /\ UNCHANGED <<block, Proposals, NextProposalId>>

vote(who, p, i) ==
    \/ Accept_vote(who, p, i)
    \/ Refuse(VoteError(who, p, i))

\* Mutant of TallyLoop: a later option with as many votes wins.
TallyLoop_LastOfEquals(p) ==
    LET loop[n \in Nat] ==
          IF n = 0 THEN [max_votes |-> 0, winning_option |-> None]
          ELSE LET votes == VoteResults[p][n - 1]
               IN  IF votes >= loop[n - 1].max_votes
                   THEN [max_votes |-> votes, winning_option |-> n - 1]
                   ELSE loop[n - 1]
    IN  loop[Proposals[p].options]

\* The loop of end_proposal after n of its iterations: the largest count seen,
\* which starts at 0, and the option that set it.
TallyLoop(p) ==
    LET loop[n \in Nat] ==
          IF n = 0 THEN [max_votes |-> 0, winning_option |-> None]
          ELSE LET votes == VoteResults[p][n - 1]
               IN  IF votes > loop[n - 1].max_votes
                   THEN [max_votes |-> votes, winning_option |-> n - 1]
                   ELSE loop[n - 1]
    IN  loop[Proposals[p].options]

\* Mutant of EndError: the comparison with the end block is the wrong way round.
EndError_Reversed(p) ==
    IF Proposals[p] = None THEN "ProposalNotFound"
    ELSE IF ~Proposals[p].is_active THEN "ProposalNotActive"
    ELSE IF block > Proposals[p].end_block THEN "VotingPeriodEnded"
    ELSE Ok

EndError(p) ==
    IF Proposals[p] = None THEN "ProposalNotFound"
    ELSE IF ~Proposals[p].is_active THEN "ProposalNotActive"
    ELSE IF block <= Proposals[p].end_block THEN "VotingPeriodEnded"
    ELSE Ok

Accept_end_proposal(p) ==
    /\ EndError(p) = Ok
    /\ Proposals' = [Proposals EXCEPT ![p].is_active = FALSE]
    /\ outcome' = Deposit("ProposalEnded", p, TallyLoop(p).winning_option)
    /\ UNCHANGED <<block, Votes, VoteResults, NextProposalId>>

\* The signer of end_proposal is not looked at: anyone may end a proposal.
end_proposal(p) ==
    \/ Accept_end_proposal(p)
    \/ Refuse(EndError(p))

CancelError(who, p) ==
    IF Proposals[p] = None THEN "ProposalNotFound"
    ELSE IF ~Proposals[p].is_active THEN "ProposalNotActive"
    ELSE IF Proposals[p].proposer # who THEN "NotProposer"
    ELSE Ok

Accept_cancel_proposal(who, p) ==
    /\ CancelError(who, p) = Ok
    /\ Proposals' = [Proposals EXCEPT ![p].is_active = FALSE]
    /\ outcome' = Deposit("ProposalCancelled", p, None)
    /\ UNCHANGED <<block, Votes, VoteResults, NextProposalId>>

cancel_proposal(who, p) ==
    \/ Accept_cancel_proposal(who, p)
    \/ Refuse(CancelError(who, p))

Next ==
    \/ AdvanceBlock
    \/ \E who \in Accounts, n \in 0 .. MaxOptions + 1,
          len \in 0 .. MaxDescriptionLength + 1, period \in 0 .. MaxVotingPeriod + 1 :
            create_proposal(who, n, len, period)
    \/ \E who \in Accounts, p \in Ids, i \in 0 .. MaxOptions : vote(who, p, i)
    \/ \E p \in Ids : end_proposal(p)
    \/ \E who \in Accounts, p \in Ids : cancel_proposal(who, p)

Spec == Init /\ [][Next]_vars

\* Block authorship goes on until the last block number, and somebody keeps
\* trying to end every proposal: any account is allowed to.
FairSpec ==
    /\ Spec
    /\ WF_vars(AdvanceBlock)
    /\ \A p \in Ids : WF_vars(end_proposal(p))

-----------------------------------------------------------------------------
(* Weights (pallets/voting/src/weights.rs): the database writes that the fee   *)
(* of an accepted call has paid for, per event that the call deposits.         *)

\* Mutant of PaidWrites: create_proposal pays for the proposal only.
PaidWrites_NoCounter(event) ==
    CASE event = "ProposalCreated" -> 1
      [] event = "VoteCast" -> 2
      [] event \in {"ProposalEnded", "ProposalCancelled"} -> 1
      [] OTHER -> 0

PaidWrites(event) ==
    CASE event = "ProposalCreated" -> 2
      [] event = "VoteCast" -> 2
      [] event \in {"ProposalEnded", "ProposalCancelled"} -> 1
      [] OTHER -> 0

\* The storage entries that a step writes with a new value.
WrittenEntries ==
    LET Changed(S, old(_), new(_)) == Cardinality({x \in S : old(x) # new(x)})
    IN  Changed(Ids, LAMBDA p : Proposals[p], LAMBDA p : Proposals'[p])
        + Changed(Ids \X Accounts, LAMBDA x : Votes[x[1]][x[2]], LAMBDA x : Votes'[x[1]][x[2]])
        + Changed(Ids \X OptionIndexes, LAMBDA x : VoteResults[x[1]][x[2]],
                  LAMBDA x : VoteResults'[x[1]][x[2]])
        + IF NextProposalId' = NextProposalId THEN 0 ELSE 1

-----------------------------------------------------------------------------
(* Properties. *)

\* Storage and the returned outcome keep their types: in particular every
\* vote and every counter is filed under an option index a proposal may have.
\* (That the announced option is one of the proposal's is WinnerIsPlurality.)
TypeOK ==
    /\ block \in Blocks
    /\ Proposals \in [Ids -> ProposalInfo \cup {None}]
    /\ Votes \in [Ids -> [Accounts -> OptionIndexes \cup {None}]]
    /\ VoteResults \in [Ids -> [OptionIndexes -> 0 .. U32Max]]
    /\ NextProposalId \in Ids
    /\ outcome.result \in Events \cup Errors \cup {Ok}
    /\ outcome.proposal_id \in Ids \cup {None}

\* The accounts that name option i, in the votes of one proposal.
Supporters(ballots, i) == {a \in Accounts : ballots[a] = i}

Saturate(n) == IF n > U32Max THEN U32Max ELSE n

\* The running tally that vote() maintains beside the votes is, for every
\* option, the number of accounts whose recorded vote names it (as far as a
\* u32 can count): no interleaving of votes, endings, cancellations and even
\* of a reused id makes the two storage maps disagree.
TallyMatchesVotes ==
    \A p \in Ids, i \in OptionIndexes :
        VoteResults[p][i] = Saturate(Cardinality(Supporters(Votes[p], i)))

\* Ids are handed out in order: what lies at or above NextProposalId is
\* untouched, so that create_proposal starts from an empty ballot.  The one
\* exception is the id U32Max, where the saturating counter stops.
NextIdIsFresh ==
    \A p \in Ids : p >= NextProposalId /\ p < U32Max =>
        /\ Proposals[p] = None
        /\ \A a \in Accounts : Votes[p][a] = None

\* The winner that end_proposal announces is the option with the most
\* recorded votes, the lowest index among equals, and there is none exactly
\* when no vote was cast for an option of the proposal.
WinnerIsPlurality ==
    outcome.result = "ProposalEnded" =>
        LET p == outcome.proposal_id
            w == outcome.option
            Count(i) == Saturate(Cardinality(Supporters(Votes[p], i)))
            options == 0 .. Proposals[p].options - 1
        IN  IF w = None THEN \A i \in options : Count(i) = 0
            ELSE /\ w \in options
                 /\ Count(w) > 0
                 /\ \A i \in options :
                      IF i < w THEN Count(i) < Count(w) ELSE Count(i) <= Count(w)

\* A recorded vote is never changed or removed, whatever happens to its
\* proposal afterwards: one vote per account and proposal.
VotesArePermanent ==
    [][\A p \in Ids, a \in Accounts :
          Votes[p][a] # None => Votes'[p][a] = Votes[p][a]]_vars

\* A proposal that was ended or cancelled stays so, with the proposer,
\* options, period, votes and tally it had (its id is not U32Max, which
\* create_proposal would reuse).
ClosedIsFinal ==
    [][\A p \in Ids :
          p < U32Max /\ Proposals[p] # None /\ ~Proposals[p].is_active =>
            /\ Proposals'[p] = Proposals[p]
            /\ Votes'[p] = Votes[p]
            /\ VoteResults'[p] = VoteResults[p]]_vars

IsOpen(p) == Proposals[p] # None /\ Proposals[p].is_active

\* The ballots that the storage of the pallet stands for.
Ballots == INSTANCE Ballot WITH
    options <- [p \in Ids |-> IF Proposals[p] = None THEN 0 ELSE Proposals[p].options],
    open <- {p \in Ids : IsOpen(p)},
    cast <- Votes,
    announcement <- IF outcome.result = "ProposalEnded"
                    THEN <<outcome.proposal_id, outcome.option>> ELSE None

\* The pallet implements the abstract ballot: whatever the order of creations,
\* votes, endings, cancellations and blocks, the option that end_proposal
\* computes from the running tally is the plurality of the votes cast, and an
\* account votes once, for an option of an open proposal.  (Ids and counts
\* stay below the largest u32.)
ImplementsBallot == Ballots!Spec

\* Every storage entry that a step changes was paid for: no call writes more
\* than its weight declares, and a refused call or a new block writes nothing.
WritesArePaid == [][WrittenEntries <= PaidWrites(outcome'.result)]_vars

\* As long as somebody keeps calling end_proposal, every proposal whose
\* period ends before the last block number is closed: no proposal gets into
\* a state where voting is over and ending it is refused for ever.
EveryProposalCloses ==
    \A p \in Ids :
        (IsOpen(p) /\ p < U32Max /\ Proposals[p].end_block < MaxBlock) ~> ~IsOpen(p)

=============================================================================
