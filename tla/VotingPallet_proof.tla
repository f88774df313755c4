--------------------------- MODULE VotingPallet_proof ---------------------------
(* Machine-checked proofs about the voting pallet, for every set of accounts,  *)
(* every configuration and every value of the bounds.                          *)
EXTENDS VotingPallet, SumTheorems

-----------------------------------------------------------------------------
(* Facts about the operators. *)

\* The accounts that voted for an option are finitely many.
LEMMA SupportersFinite ==
    ASSUME NEW ballots, NEW i
    PROVE  /\ IsFiniteSet(Supporters(ballots, i))
           /\ Cardinality(Supporters(ballots, i)) \in Nat
  <1>1. Supporters(ballots, i) \in SUBSET Accounts
    BY DEF Supporters
  <1>2. IsFiniteSet(Supporters(ballots, i))
    BY <1>1, FS_Subset, VotingAssumption
  <1>3. QED
    BY <1>2, FS_CardinalityType

\* An accepted vote() adds its signer, who was in none of the proposal's
\* camps, to one camp and leaves the others alone.
LEMMA VoteAddsOneSupporter ==
    ASSUME NEW ballots \in [Accounts -> OptionIndexes \cup {None}],
           NEW who \in Accounts, NEW i \in OptionIndexes, NEW j \in OptionIndexes,
           ballots[who] = None
    PROVE  LET after == [ballots EXCEPT ![who] = i]
           IN  Cardinality(Supporters(after, j)) =
                 IF j = i THEN Cardinality(Supporters(ballots, i)) + 1
                          ELSE Cardinality(Supporters(ballots, j))
  <1> DEFINE after == [ballots EXCEPT ![who] = i]
  <1>1. None \notin OptionIndexes
    BY VotingAssumption DEF OptionIndexes
  <1>2. who \notin Supporters(ballots, i)
    BY <1>1 DEF Supporters
  <1>3. \A a \in Accounts : after[a] = IF a = who THEN i ELSE ballots[a]
    OBVIOUS
  <1>4. CASE j = i
    <2>1. Supporters(after, j) = Supporters(ballots, i) \cup {who}
      BY <1>3, <1>4 DEF Supporters
    <2>2. QED
      BY <1>2, <1>4, <2>1, SupportersFinite, FS_AddElement
  <1>5. CASE j # i
    <2>1. Supporters(after, j) = Supporters(ballots, j)
      BY <1>1, <1>3, <1>5 DEF Supporters
    <2>2. QED
      BY <1>5, <2>1
  <1>6. QED
    BY <1>4, <1>5

\* Counting one more with a saturating u32 is counting one more and then
\* saturating.
LEMMA SaturatingCount ==
    ASSUME NEW n \in Nat
    PROVE  SaturatingAdd(Saturate(n), 1, U32Max) = Saturate(n + 1)
  BY VotingAssumption DEF SaturatingAdd, Saturate

\* An accepted vote() names an option of a proposal that exists.
LEMMA AcceptedVote ==
    ASSUME TypeOK, NEW who \in Accounts, NEW p \in Ids, NEW i \in 0 .. MaxOptions,
           VoteError(who, p, i) = Ok
    PROVE  /\ Proposals[p] \in ProposalInfo
           /\ Proposals[p] # None
           /\ Proposals[p].is_active
           /\ i \in OptionIndexes
           /\ Votes[p][who] = None
  <1>1. /\ Proposals[p] # None /\ Proposals[p].is_active
        /\ ~(i >= Proposals[p].options) /\ Votes[p][who] = None
    BY DEF VoteError, Ok
  <1>2. Proposals[p] \in ProposalInfo
    BY <1>1 DEF TypeOK
  <1>3. i \in OptionIndexes
    BY <1>1, <1>2, VotingAssumption DEF ProposalInfo, OptionIndexes
  <1>4. QED
    BY <1>1, <1>2, <1>3

-----------------------------------------------------------------------------
(* The invariant. *)

\* The inductive invariant.  The tally is preserved because vote() refuses an
\* account that has voted; fresh ids because only create_proposal fills one.
Inv == TypeOK /\ TallyMatchesVotes /\ NextIdIsFresh

\* The genesis storage satisfies the invariant.
LEMMA InitInv == Init => Inv
  <1> SUFFICES ASSUME Init PROVE Inv
    OBVIOUS
  <1>1. TypeOK
    BY VotingAssumption DEF Init, TypeOK, Ids, Blocks, OptionIndexes, Deposit, Ok
  <1>2. TallyMatchesVotes
    <2> SUFFICES ASSUME NEW p \in Ids, NEW i \in OptionIndexes
                 PROVE  VoteResults[p][i] = Saturate(Cardinality(Supporters(Votes[p], i)))
      BY DEF TallyMatchesVotes
    <2>1. Supporters(Votes[p], i) = {}
      BY VotingAssumption DEF Init, Supporters, OptionIndexes
    <2>2. Cardinality(Supporters(Votes[p], i)) = 0
      BY <2>1, FS_EmptySet
    <2>3. Saturate(0) = 0
      BY VotingAssumption DEF Saturate
    <2>4. VoteResults[p][i] = 0
      BY DEF Init
    <2>5. QED
      BY <2>2, <2>3, <2>4
  <1>3. NextIdIsFresh
    BY DEF Init, NextIdIsFresh
  <1>4. QED
    BY <1>1, <1>2, <1>3 DEF Inv

\* The two storage invariants look at nothing but the pallet's storage.
LEMMA StorageUnchanged ==
    ASSUME Inv, UNCHANGED storage
    PROVE  TallyMatchesVotes' /\ NextIdIsFresh'
  BY DEF Inv, storage, TallyMatchesVotes, NextIdIsFresh, Supporters

\* A refused call preserves the invariant.
LEMMA RefuseInv ==
    ASSUME Inv, NEW e \in Errors \cup {Ok}, Refuse(e)
    PROVE  Inv'
  <1>1. TypeOK'
    BY DEF Inv, TypeOK, Refuse, storage, Deposit
  <1>2. QED
    BY <1>1, StorageUnchanged DEF Inv, Refuse, storage

\* A new block preserves the invariant.
LEMMA AdvanceBlockInv == Inv /\ AdvanceBlock => Inv'
  <1> SUFFICES ASSUME Inv, AdvanceBlock PROVE Inv'
    OBVIOUS
  <1>1. TypeOK'
    BY VotingAssumption DEF Inv, TypeOK, AdvanceBlock, storage, Deposit, Blocks
  <1>2. QED
    BY <1>1, StorageUnchanged DEF Inv, AdvanceBlock

\* create_proposal preserves the invariant.
LEMMA CreateInv ==
    ASSUME Inv, NEW who \in Accounts, NEW n \in 0 .. MaxOptions + 1,
           NEW len \in 0 .. MaxDescriptionLength + 1,
           NEW period \in 0 .. MaxVotingPeriod + 1,
           create_proposal(who, n, len, period)
    PROVE  Inv'
  <1>1. CASE Refuse(CreateError(n, len, period))
    <2>1. CreateError(n, len, period) \in Errors \cup {Ok}
      BY DEF CreateError, Errors, Ok
    <2>2. QED
      BY <1>1, <2>1, RefuseInv
  <1>2. CASE Accept_create_proposal(who, n, len, period)
    <2>1. n \in 1 .. MaxOptions
      BY <1>2, VotingAssumption DEF Accept_create_proposal, CreateError, Ok
    <2>2. SaturatingAdd(block, period, MaxBlock) \in Blocks /\ block \in Blocks
      BY VotingAssumption DEF SaturatingAdd, Blocks, Inv, TypeOK
    <2>3. SaturatingAdd(NextProposalId, 1, U32Max) \in Ids
      BY VotingAssumption DEF SaturatingAdd, Ids, Inv, TypeOK
    <2>4. TypeOK'
      BY <1>2, <2>1, <2>2, <2>3
      DEF Inv, TypeOK, Accept_create_proposal, ProposalInfo, Deposit, Events
    <2>5. TallyMatchesVotes'
      BY <1>2 DEF Inv, TallyMatchesVotes, Accept_create_proposal, Supporters
    <2>6. NextIdIsFresh'
      <3> SUFFICES ASSUME NEW p \in Ids, p >= NextProposalId', p < U32Max
                   PROVE  Proposals'[p] = None /\ \A a \in Accounts : Votes'[p][a] = None
        BY DEF NextIdIsFresh
      <3>1. p > NextProposalId
        BY <1>2, VotingAssumption
        DEF Accept_create_proposal, SaturatingAdd, Inv, TypeOK, Ids
      <3>2. Proposals'[p] = Proposals[p] /\ Votes'[p] = Votes[p]
        BY <1>2, <3>1 DEF Accept_create_proposal, Inv, TypeOK, Ids
      <3>3. p >= NextProposalId
        BY <3>1 DEF Inv, TypeOK, Ids
      <3>4. QED
        BY <3>2, <3>3 DEF Inv, NextIdIsFresh
    <2>7. QED
      BY <2>4, <2>5, <2>6 DEF Inv
  <1>3. QED
    BY <1>1, <1>2 DEF create_proposal

\* vote preserves the invariant: the heart of the argument, where one
\* ballot and one counter change together.
LEMMA VoteInv ==
    ASSUME Inv, NEW who \in Accounts, NEW p \in Ids, NEW i \in 0 .. MaxOptions,
           vote(who, p, i)
    PROVE  Inv'
  <1>1. CASE Refuse(VoteError(who, p, i))
    <2>1. VoteError(who, p, i) \in Errors \cup {Ok}
      BY DEF VoteError, Errors, Ok
    <2>2. QED
      BY <1>1, <2>1, RefuseInv
  <1>2. CASE Accept_vote(who, p, i)
    <2>1. /\ Proposals[p] # None
          /\ i \in OptionIndexes
          /\ Votes[p][who] = None
      BY <1>2, AcceptedVote DEF Accept_vote, Inv
    <2>2. \A n \in 0 .. U32Max : SaturatingAdd(n, 1, U32Max) \in 0 .. U32Max
      BY VotingAssumption DEF SaturatingAdd
    <2>3. TypeOK'
      <3>1. Votes' \in [Ids -> [Accounts -> OptionIndexes \cup {None}]]
        BY <1>2, <2>1 DEF Accept_vote, Inv, TypeOK
      <3>2. VoteResults' \in [Ids -> [OptionIndexes -> 0 .. U32Max]]
        BY <1>2, <2>1, <2>2 DEF Accept_vote, Inv, TypeOK
      <3>3. QED
        BY <1>2, <3>1, <3>2 DEF Accept_vote, Inv, TypeOK, Deposit, Events
    <2>4. TallyMatchesVotes'
      <3> SUFFICES ASSUME NEW q \in Ids, NEW j \in OptionIndexes
                   PROVE  VoteResults'[q][j] = Saturate(Cardinality(Supporters(Votes'[q], j)))
        BY DEF TallyMatchesVotes, Saturate, Supporters
      <3>1. VoteResults'[q][j] = IF q = p /\ j = i
                                 THEN SaturatingAdd(VoteResults[p][i], 1, U32Max)
                                 ELSE VoteResults[q][j]
        BY <1>2, <2>1 DEF Accept_vote, Inv, TypeOK
      <3>2. /\ VoteResults[q][j] = Saturate(Cardinality(Supporters(Votes[q], j)))
            /\ VoteResults[p][i] = Saturate(Cardinality(Supporters(Votes[p], i)))
        BY <2>1 DEF Inv, TallyMatchesVotes
      <3>3. CASE q # p
        <4>1. Votes'[q] = Votes[q]
          BY <1>2, <3>3 DEF Accept_vote, Inv, TypeOK
        <4>2. QED
          BY <3>1, <3>2, <3>3, <4>1
      <3>4. CASE q = p
        <4>1. Votes'[q] = [Votes[p] EXCEPT ![who] = i]
          BY <1>2, <3>4 DEF Accept_vote, Inv, TypeOK
        <4>2. Votes[p] \in [Accounts -> OptionIndexes \cup {None}]
          BY DEF Inv, TypeOK
        <4>3. Cardinality(Supporters(Votes'[q], j)) =
                IF j = i THEN Cardinality(Supporters(Votes[p], i)) + 1
                         ELSE Cardinality(Supporters(Votes[p], j))
          BY <2>1, <4>1, <4>2, VoteAddsOneSupporter
        <4>4. Cardinality(Supporters(Votes[p], i)) \in Nat
          BY SupportersFinite
        <4>5. QED
          BY <3>1, <3>2, <3>4, <4>3, <4>4, SaturatingCount
      <3>5. QED
        BY <3>3, <3>4
    <2>5. NextIdIsFresh'
      <3> SUFFICES ASSUME NEW q \in Ids, q >= NextProposalId, q < U32Max
                   PROVE  Proposals[q] = None /\ \A a \in Accounts : Votes'[q][a] = None
        BY <1>2 DEF NextIdIsFresh, Accept_vote
      <3>1. q # p
        BY <2>1 DEF Inv, NextIdIsFresh
      <3>2. Votes'[q] = Votes[q]
        BY <1>2, <3>1 DEF Accept_vote, Inv, TypeOK
      <3>3. QED
        BY <3>2 DEF Inv, NextIdIsFresh
    <2>6. QED
      BY <2>3, <2>4, <2>5 DEF Inv
  <1>3. QED
    BY <1>1, <1>2 DEF vote

\* Ending and cancelling do the same to storage: one flag is cleared.
LEMMA CloseInv ==
    ASSUME Inv, NEW p \in Ids, Proposals[p] # None,
           Proposals' = [Proposals EXCEPT ![p].is_active = FALSE],
           UNCHANGED <<block, Votes, VoteResults, NextProposalId>>,
           outcome'.result \in Events, outcome'.proposal_id \in Ids
    PROVE  Inv'
  <1>1. Proposals[p] \in ProposalInfo
    BY DEF Inv, TypeOK
  <1>2. [Proposals[p] EXCEPT !.is_active = FALSE] \in ProposalInfo
    BY <1>1 DEF ProposalInfo
  <1>3. Proposals' = [Proposals EXCEPT ![p] = [Proposals[p] EXCEPT !.is_active = FALSE]]
    BY DEF Inv, TypeOK
  <1>4. TypeOK'
    BY <1>2, <1>3 DEF Inv, TypeOK
  <1>5. TallyMatchesVotes'
    BY DEF Inv, TallyMatchesVotes, Supporters
  <1>6. NextIdIsFresh'
    <2> SUFFICES ASSUME NEW q \in Ids, q >= NextProposalId, q < U32Max
                 PROVE  Proposals'[q] = None /\ \A a \in Accounts : Votes[q][a] = None
      BY DEF NextIdIsFresh
    <2>1. q # p
      BY DEF Inv, NextIdIsFresh
    <2>2. QED
      BY <1>3, <2>1 DEF Inv, NextIdIsFresh, TypeOK
  <1>7. QED
    BY <1>4, <1>5, <1>6 DEF Inv

\* end_proposal preserves the invariant.
LEMMA EndInv ==
    ASSUME Inv, NEW p \in Ids, end_proposal(p)
    PROVE  Inv'
  <1>1. CASE Refuse(EndError(p))
    <2>1. EndError(p) \in Errors \cup {Ok}
      BY DEF EndError, Errors, Ok
    <2>2. QED
      BY <1>1, <2>1, RefuseInv
  <1>2. CASE Accept_end_proposal(p)
    <2>1. Proposals[p] # None
      BY <1>2 DEF Accept_end_proposal, EndError, Ok
    <2>2. outcome'.result \in Events /\ outcome'.proposal_id \in Ids
      BY <1>2 DEF Accept_end_proposal, Deposit, Events
    <2>3. QED
      BY <1>2, <2>1, <2>2, CloseInv DEF Accept_end_proposal
  <1>3. QED
    BY <1>1, <1>2 DEF end_proposal

\* cancel_proposal preserves the invariant.
LEMMA CancelInv ==
    ASSUME Inv, NEW who \in Accounts, NEW p \in Ids, cancel_proposal(who, p)
    PROVE  Inv'
  <1>1. CASE Refuse(CancelError(who, p))
    <2>1. CancelError(who, p) \in Errors \cup {Ok}
      BY DEF CancelError, Errors, Ok
    <2>2. QED
      BY <1>1, <2>1, RefuseInv
  <1>2. CASE Accept_cancel_proposal(who, p)
    <2>1. Proposals[p] # None
      BY <1>2 DEF Accept_cancel_proposal, CancelError, Ok
    <2>2. outcome'.result \in Events /\ outcome'.proposal_id \in Ids
      BY <1>2 DEF Accept_cancel_proposal, Deposit, Events
    <2>3. QED
      BY <1>2, <2>1, <2>2, CloseInv DEF Accept_cancel_proposal
  <1>3. QED
    BY <1>1, <1>2 DEF cancel_proposal

\* Every step of the pallet preserves the invariant.
LEMMA NextInv == Inv /\ [Next]_vars => Inv'
  <1> SUFFICES ASSUME Inv, [Next]_vars PROVE Inv'
    OBVIOUS
  <1>1. CASE UNCHANGED vars
    <2>1. TypeOK'
      BY <1>1 DEF Inv, TypeOK, vars
    <2>2. QED
      BY <1>1, <2>1, StorageUnchanged DEF Inv, vars, storage
  <1>2. CASE AdvanceBlock
    BY <1>2, AdvanceBlockInv
  <1>3. CASE \E who \in Accounts, n \in 0 .. MaxOptions + 1,
                len \in 0 .. MaxDescriptionLength + 1,
                period \in 0 .. MaxVotingPeriod + 1 :
                  create_proposal(who, n, len, period)
    BY <1>3, CreateInv
  <1>4. CASE \E who \in Accounts, p \in Ids, i \in 0 .. MaxOptions : vote(who, p, i)
    BY <1>4, VoteInv
  <1>5. CASE \E p \in Ids : end_proposal(p)
    BY <1>5, EndInv
  <1>6. CASE \E who \in Accounts, p \in Ids : cancel_proposal(who, p)
    BY <1>6, CancelInv
  <1>7. QED
    BY <1>1, <1>2, <1>3, <1>4, <1>5, <1>6 DEF Next

\* The invariant holds in every reachable state.
LEMMA Invariance == Spec => []Inv
  <1>1. QED
    BY InitInv, NextInv, PTL DEF Spec

-----------------------------------------------------------------------------
(* The theorems. *)

\* Type correctness of the pallet's storage.
THEOREM TypeCorrect == Spec => []TypeOK
  <1>1. Inv => TypeOK
    BY DEF Inv
  <1>2. QED
    BY <1>1, Invariance, PTL

\* The tally kept by vote() always equals the number of recorded votes, for
\* any number of accounts, proposals and options, saturation included.
THEOREM TallyCorrect == Spec => []TallyMatchesVotes
  <1>1. Inv => TallyMatchesVotes
    BY DEF Inv
  <1>2. QED
    BY <1>1, Invariance, PTL

\* create_proposal always starts from an unused id, short of the last one.
THEOREM FreshIds == Spec => []NextIdIsFresh
  <1>1. Inv => NextIdIsFresh
    BY DEF Inv
  <1>2. QED
    BY <1>1, Invariance, PTL

\* No step of the pallet changes or removes a recorded vote.
THEOREM VotesPermanent == Spec => VotesArePermanent
  <1> DEFINE Kept == \A p \in Ids, a \in Accounts :
                       Votes[p][a] # None => Votes'[p][a] = Votes[p][a]
  <1>1. Inv /\ [Next]_vars => [Kept]_vars
    <2> SUFFICES ASSUME Inv, Next PROVE Kept
      BY DEF vars
    <2>1. CASE \E who \in Accounts, p \in Ids, i \in 0 .. MaxOptions : vote(who, p, i)
      <3>1. PICK who \in Accounts, p \in Ids, i \in 0 .. MaxOptions : vote(who, p, i)
        BY <2>1
      <3>2. CASE Accept_vote(who, p, i)
        <4>1. Votes[p][who] = None
          BY <3>2, AcceptedVote DEF Accept_vote, Inv
        <4>2. QED
          BY <3>2, <4>1 DEF Accept_vote, Inv, TypeOK
      <3>3. CASE Refuse(VoteError(who, p, i))
        BY <3>3 DEF Refuse, storage
      <3>4. QED
        BY <3>1, <3>2, <3>3 DEF vote
    <2>2. CASE AdvanceBlock
      BY <2>2 DEF AdvanceBlock, storage
    <2>3. CASE \E who \in Accounts, n \in 0 .. MaxOptions + 1,
                  len \in 0 .. MaxDescriptionLength + 1,
                  period \in 0 .. MaxVotingPeriod + 1 :
                    create_proposal(who, n, len, period)
      BY <2>3 DEF create_proposal, Accept_create_proposal, Refuse, storage
    <2>4. CASE \E p \in Ids : end_proposal(p)
      BY <2>4 DEF end_proposal, Accept_end_proposal, Refuse, storage
    <2>5. CASE \E who \in Accounts, p \in Ids : cancel_proposal(who, p)
      BY <2>5 DEF cancel_proposal, Accept_cancel_proposal, Refuse, storage
    <2>6. QED
      BY <2>1, <2>2, <2>3, <2>4, <2>5 DEF Next
  <1>2. QED
    BY <1>1, Invariance, PTL DEF Spec, VotesArePermanent

\* What has been ended or cancelled stays as it was: create_proposal uses a
\* fresh id (NextIdIsFresh), and every other call checks is_active first.
THEOREM ClosedFinal == Spec => ClosedIsFinal
  <1> DEFINE Closed(p) == p < U32Max /\ Proposals[p] # None /\ ~Proposals[p].is_active
             Kept == \A p \in Ids : Closed(p) =>
                       /\ Proposals'[p] = Proposals[p]
                       /\ Votes'[p] = Votes[p]
                       /\ VoteResults'[p] = VoteResults[p]
  <1>1. Inv /\ [Next]_vars => [Kept]_vars
    <2> SUFFICES ASSUME Inv, Next, NEW q \in Ids, Closed(q)
                 PROVE  /\ Proposals'[q] = Proposals[q]
                        /\ Votes'[q] = Votes[q]
                        /\ VoteResults'[q] = VoteResults[q]
      BY DEF vars
    <2>1. CASE AdvanceBlock
      BY <2>1 DEF AdvanceBlock, storage
    <2>2. ASSUME NEW who \in Accounts, NEW n \in 0 .. MaxOptions + 1,
                 NEW len \in 0 .. MaxDescriptionLength + 1,
                 NEW period \in 0 .. MaxVotingPeriod + 1,
                 Accept_create_proposal(who, n, len, period)
          PROVE  /\ Proposals'[q] = Proposals[q]
                 /\ Votes'[q] = Votes[q]
                 /\ VoteResults'[q] = VoteResults[q]
      <3>1. q # NextProposalId
        BY DEF Inv, NextIdIsFresh, TypeOK, Ids
      <3>2. QED
        BY <2>2, <3>1 DEF Accept_create_proposal, Inv, TypeOK
    <2>3. ASSUME NEW who \in Accounts, NEW p \in Ids, NEW i \in 0 .. MaxOptions,
                 Accept_vote(who, p, i)
          PROVE  /\ Proposals'[q] = Proposals[q]
                 /\ Votes'[q] = Votes[q]
                 /\ VoteResults'[q] = VoteResults[q]
      <3>1. Proposals[p].is_active
        BY <2>3, AcceptedVote DEF Accept_vote, Inv
      <3>2. QED
        BY <2>3, <3>1 DEF Accept_vote, Inv, TypeOK
    <2>4. ASSUME NEW p \in Ids, Accept_end_proposal(p)
          PROVE  /\ Proposals'[q] = Proposals[q]
                 /\ Votes'[q] = Votes[q]
                 /\ VoteResults'[q] = VoteResults[q]
      <3>1. Proposals[p].is_active
        BY <2>4 DEF Accept_end_proposal, EndError, Ok
      <3>2. QED
        BY <2>4, <3>1 DEF Accept_end_proposal, Inv, TypeOK
    <2>5. ASSUME NEW who \in Accounts, NEW p \in Ids, Accept_cancel_proposal(who, p)
          PROVE  /\ Proposals'[q] = Proposals[q]
                 /\ Votes'[q] = Votes[q]
                 /\ VoteResults'[q] = VoteResults[q]
      <3>1. Proposals[p].is_active
        BY <2>5 DEF Accept_cancel_proposal, CancelError, Ok
      <3>2. QED
        BY <2>5, <3>1 DEF Accept_cancel_proposal, Inv, TypeOK
    <2>6. (\E e : Refuse(e)) => UNCHANGED storage
      BY DEF Refuse, storage
    <2>7. CASE UNCHANGED storage
      BY <2>7 DEF storage
    <2>8. QED
      BY <2>1, <2>2, <2>3, <2>4, <2>5, <2>6, <2>7
      DEF Next, create_proposal, vote, end_proposal, cancel_proposal
  <1>2. QED
    BY <1>1, Invariance, PTL DEF Spec, ClosedIsFinal

-----------------------------------------------------------------------------
(* The winner.  The loop of end_proposal is a recursive function; what it      *)
(* computes is shown by induction on the number of iterations.                 *)

\* One iteration more, for the loop of proposal p.
LoopOf(p, loop) ==
    [n \in Nat |->
        IF n = 0 THEN [max_votes |-> 0, winning_option |-> None]
        ELSE LET votes == VoteResults[p][n - 1]
             IN  IF votes > loop[n - 1].max_votes
                 THEN [max_votes |-> votes, winning_option |-> n - 1]
                 ELSE loop[n - 1]]

\* The loop of end_proposal terminates: there is a function with its equation.
LEMMA LoopExists ==
    ASSUME NEW p
    PROVE  \E loop : loop = LoopOf(p, loop)
  <1> DEFINE V == VoteResults[p]
             R == [max_votes: {0} \cup {V[i] : i \in Nat}, winning_option: {None} \cup Nat]
             a == [max_votes |-> 0, winning_option |-> None]
             g == [n \in Nat |-> [r \in R |->
                     IF V[n] > r.max_votes
                     THEN [max_votes |-> V[n], winning_option |-> n] ELSE r]]
  <1>1. a \in R
    OBVIOUS
  <1>2. g \in [Nat -> [R -> R]]
    <2>1. \A n \in Nat : [max_votes |-> V[n], winning_option |-> n] \in R
      OBVIOUS
    <2> HIDE DEF R
    <2> QED BY <2>1
  <1>3. \A n \in Nat, r \in R : g[n][r] = IF V[n] > r.max_votes
                                          THEN [max_votes |-> V[n], winning_option |-> n] ELSE r
    OBVIOUS
  <1> HIDE DEF R, g, a
  <1>4. PICK f \in [Nat -> R] : f[0] = a /\ \A n \in Nat : f[n + 1] = g[n][f[n]]
    <2>1. MakesNext(g, R)
      BY <1>2 DEF MakesNext
    <2>2. PICK f : IsRun(f, a, g, R)
      BY <1>1, <2>1, NatRecursion
    <2> QED BY <2>2 DEF IsRun
  <1>5. ASSUME NEW n \in Nat, n # 0
        PROVE  f[n] = IF V[n - 1] > f[n - 1].max_votes
                      THEN [max_votes |-> V[n - 1], winning_option |-> n - 1] ELSE f[n - 1]
    <2>1. n - 1 \in Nat /\ (n - 1) + 1 = n
      BY <1>5
    <2>2. f[n] = g[n - 1][f[n - 1]] /\ f[n - 1] \in R
      BY <1>4, <2>1
    <2> QED BY <1>3, <2>1, <2>2
  <1>6. \A n \in Nat : f[n] = LoopOf(p, f)[n]
    BY <1>4, <1>5 DEF LoopOf, a
  <1>7. f = LoopOf(p, f)
    BY <1>6 DEF LoopOf
  <1> QED BY <1>7

\* What the loop has found after n iterations: no vote at all, or the first of
\* the options with the most votes among the first n.
FoundAmong(V, n, r) ==
    /\ r.max_votes \in Nat
    /\ \/ /\ r.winning_option = None /\ r.max_votes = 0
          /\ \A i \in 0 .. n - 1 : V[i] = 0
       \/ /\ r.winning_option \in 0 .. n - 1
          /\ V[r.winning_option] = r.max_votes /\ r.max_votes > 0
          /\ \A i \in 0 .. n - 1 :
                IF i < r.winning_option THEN V[i] < r.max_votes ELSE V[i] <= r.max_votes

\* One iteration of the loop keeps that true.
LEMMA LoopStep ==
    ASSUME NEW V, NEW n \in Nat, \A i \in 0 .. n : V[i] \in Nat, NEW r, FoundAmong(V, n, r)
    PROVE  FoundAmong(V, n + 1,
               IF V[n] > r.max_votes THEN [max_votes |-> V[n], winning_option |-> n] ELSE r)
  <1> DEFINE new == [max_votes |-> V[n], winning_option |-> n]
  <1>1. r.max_votes \in Nat /\ V[n] \in Nat
    BY DEF FoundAmong
  <1>2. \A i \in 0 .. (n + 1) - 1 : i = n \/ i \in 0 .. n - 1
    OBVIOUS
  <1>3. None \notin Nat
    BY VotingAssumption
  <1>4. CASE V[n] > r.max_votes
    <2>1. \A i \in 0 .. n - 1 : V[i] <= r.max_votes /\ V[i] \in Nat
      BY DEF FoundAmong
    <2>2. \A i \in 0 .. n - 1 : V[i] < V[n]
      BY <1>1, <1>4, <2>1
    <2>3. new.max_votes = V[n] /\ new.winning_option = n
      OBVIOUS
    <2> HIDE DEF new
    <2>4. FoundAmong(V, n + 1, new)
      BY <1>1, <1>2, <1>4, <2>2, <2>3 DEF FoundAmong
    <2> QED BY <1>4, <2>4 DEF new
  <1>5. CASE ~(V[n] > r.max_votes)
    <2>1. V[n] <= r.max_votes
      BY <1>1, <1>5
    <2>2. CASE r.winning_option = None
      <3>1. r.max_votes = 0 /\ \A i \in 0 .. n - 1 : V[i] = 0
        BY <1>3, <2>2 DEF FoundAmong
      <3>2. V[n] = 0
        BY <1>1, <2>1, <3>1
      <3>3. \A i \in 0 .. (n + 1) - 1 : V[i] = 0
        BY <1>2, <3>1, <3>2
      <3> QED BY <1>1, <1>5, <2>2, <3>1, <3>3 DEF FoundAmong
    <2>3. CASE r.winning_option # None
      <3> DEFINE w == r.winning_option
      <3>1. /\ w \in 0 .. n - 1 /\ V[w] = r.max_votes /\ r.max_votes > 0
            /\ \A i \in 0 .. n - 1 :
                  IF i < w THEN V[i] < r.max_votes ELSE V[i] <= r.max_votes
        BY <2>3 DEF FoundAmong
      <3>2. w \in 0 .. (n + 1) - 1 /\ ~(n < w)
        BY <3>1
      <3>3. \A i \in 0 .. (n + 1) - 1 :
               IF i < w THEN V[i] < r.max_votes ELSE V[i] <= r.max_votes
        BY <1>2, <2>1, <3>1, <3>2
      <3> QED BY <1>1, <1>5, <3>1, <3>2, <3>3 DEF FoundAmong
    <2> QED BY <2>2, <2>3
  <1> QED BY <1>4, <1>5

\* What end_proposal computes: the plurality of the running tally.
LEMMA TallyLoopFinds ==
    ASSUME TypeOK, NEW p \in Ids, Proposals[p] # None
    PROVE  FoundAmong(VoteResults[p], Proposals[p].options, TallyLoop(p))
  <1> DEFINE V == VoteResults[p]
             k == Proposals[p].options
             loop == CHOOSE f : f = LoopOf(p, f)
             G == {n \in Nat : n <= k => FoundAmong(V, n, loop[n])}
  <1>1. TallyLoop(p) = loop[k]
    BY DEF TallyLoop, LoopOf
  <1>2. loop = LoopOf(p, loop)
    BY LoopExists
  <1>3. k \in Nat /\ \A i \in 0 .. k - 1 : V[i] \in Nat
    <2>1. Proposals[p] \in ProposalInfo
      BY DEF TypeOK
    <2>2. k \in 1 .. MaxOptions
      BY <2>1 DEF ProposalInfo
    <2>3. V \in [OptionIndexes -> 0 .. U32Max]
      BY DEF TypeOK
    <2> QED BY <2>2, <2>3, VotingAssumption DEF OptionIndexes
  <1> HIDE DEF loop, V, k
  <1>4. 0 \in G
    <2>1. loop[0] = [max_votes |-> 0, winning_option |-> None]
      BY <1>2 DEF LoopOf
    <2>2. FoundAmong(V, 0, loop[0])
      BY <2>1 DEF FoundAmong
    <2> QED BY <2>2
  <1>5. ASSUME NEW n \in Nat, n \in G
        PROVE  n + 1 \in G
    <2> SUFFICES ASSUME n + 1 <= k
                 PROVE  FoundAmong(V, n + 1, loop[n + 1])
      OBVIOUS
    <2>1. FoundAmong(V, n, loop[n])
      BY <1>3, <1>5
    <2>2. n + 1 \in Nat /\ n + 1 # 0 /\ (n + 1) - 1 = n
      OBVIOUS
    <2>3. loop[n + 1] = IF V[n] > loop[n].max_votes
                        THEN [max_votes |-> V[n], winning_option |-> n] ELSE loop[n]
      BY <1>2, <2>2 DEF LoopOf, V
    <2>4. \A i \in 0 .. n : V[i] \in Nat
      BY <1>3
    <2> QED BY <2>1, <2>3, <2>4, LoopStep
  <1>6. Nat \subseteq G
    <2> HIDE DEF G
    <2> QED BY <1>4, <1>5, NatSteps
  <1>7. FoundAmong(V, k, loop[k])
    BY <1>3, <1>6
  <1> QED BY <1>1, <1>7 DEF V, k

\* The announcement of the winner agrees with the votes in the state that makes it.
LEMMA EndAnnouncesPlurality ==
    ASSUME Inv, NEW p \in Ids, Accept_end_proposal(p)
    PROVE  WinnerIsPlurality'
  <1> DEFINE w == TallyLoop(p).winning_option
             V == VoteResults[p]
             k == Proposals[p].options
             Count(i) == Saturate(Cardinality(Supporters(Votes[p], i)))
  <1>1. /\ Proposals[p] # None
        /\ outcome' = Deposit("ProposalEnded", p, w)
        /\ Proposals' = [Proposals EXCEPT ![p].is_active = FALSE]
        /\ Votes' = Votes
    BY DEF Accept_end_proposal, EndError, Ok
  <1>2. FoundAmong(V, k, TallyLoop(p))
    BY <1>1, TallyLoopFinds DEF Inv
  <1>3. Proposals[p] \in ProposalInfo
    BY <1>1 DEF Inv, TypeOK
  <1>4. Proposals'[p].options = k
    BY <1>1, <1>3 DEF Inv, TypeOK, ProposalInfo
  <1>5. k \in 1 .. MaxOptions
    BY <1>3 DEF ProposalInfo
  <1>6. \A i \in 0 .. k - 1 : V[i] = Count(i)
    BY <1>5, VotingAssumption DEF Inv, TallyMatchesVotes, OptionIndexes
  <1>7. outcome'.result = "ProposalEnded" /\ outcome'.proposal_id = p /\ outcome'.option = w
    BY <1>1 DEF Deposit
  <1>8. IF w = None THEN \A i \in 0 .. k - 1 : V[i] = 0
        ELSE /\ w \in 0 .. k - 1
             /\ V[w] > 0
             /\ \A i \in 0 .. k - 1 : IF i < w THEN V[i] < V[w] ELSE V[i] <= V[w]
    <2>1. None \notin 0 .. k - 1
      BY VotingAssumption
    <2> QED BY <1>2, <2>1 DEF FoundAmong
  <1> HIDE DEF w, k, V
  <1>9. IF w = None THEN \A i \in 0 .. k - 1 : Count(i) = 0
        ELSE /\ w \in 0 .. k - 1
             /\ Count(w) > 0
             /\ \A i \in 0 .. k - 1 : IF i < w THEN Count(i) < Count(w) ELSE Count(i) <= Count(w)
    <2> HIDE DEF Count
    <2>1. CASE w = None
      BY <1>6, <1>8, <2>1
    <2>2. CASE w # None
      <3>1. w \in 0 .. k - 1 /\ V[w] > 0
        BY <1>8, <2>2
      <3>2. V[w] = Count(w)
        BY <1>6, <3>1
      <3>3. \A i \in 0 .. k - 1 : IF i < w THEN V[i] < V[w] ELSE V[i] <= V[w]
        BY <1>8, <2>2
      <3>4. \A i \in 0 .. k - 1 : IF i < w THEN Count(i) < Count(w) ELSE Count(i) <= Count(w)
        BY <1>6, <3>2, <3>3
      <3> QED BY <2>2, <3>1, <3>2, <3>4
    <2> QED BY <2>1, <2>2
  <1>10. SUFFICES
           IF outcome'.option = None
           THEN \A i \in 0 .. Proposals'[outcome'.proposal_id].options - 1 :
                   Saturate(Cardinality(Supporters(Votes'[outcome'.proposal_id], i))) = 0
           ELSE /\ outcome'.option \in 0 .. Proposals'[outcome'.proposal_id].options - 1
                /\ Saturate(Cardinality(Supporters(Votes'[outcome'.proposal_id], outcome'.option))) > 0
                /\ \A i \in 0 .. Proposals'[outcome'.proposal_id].options - 1 :
                      IF i < outcome'.option
                      THEN Saturate(Cardinality(Supporters(Votes'[outcome'.proposal_id], i)))
                        < Saturate(Cardinality(Supporters(Votes'[outcome'.proposal_id], outcome'.option)))
                      ELSE Saturate(Cardinality(Supporters(Votes'[outcome'.proposal_id], i)))
                        <= Saturate(Cardinality(Supporters(Votes'[outcome'.proposal_id], outcome'.option)))
    BY DEF WinnerIsPlurality, Supporters, Saturate
  <1> QED BY <1>1, <1>4, <1>7, <1>9

\* Every step announces no winner, or the plurality of the votes.
LEMMA NextAnnouncesPlurality ==
    ASSUME Inv, WinnerIsPlurality, [Next]_vars
    PROVE  WinnerIsPlurality'
  <1>1. ASSUME outcome'.result # "ProposalEnded"
        PROVE  WinnerIsPlurality'
    BY <1>1 DEF WinnerIsPlurality
  <1>2. ASSUME NEW e \in Errors \cup {Ok}, Refuse(e)
        PROVE  WinnerIsPlurality'
    BY <1>1, <1>2 DEF Refuse, Deposit, Errors, Ok
  <1>3. CASE AdvanceBlock
    BY <1>1, <1>3 DEF AdvanceBlock, Deposit, Ok
  <1>4. ASSUME NEW who, NEW n, NEW len, NEW period, create_proposal(who, n, len, period)
        PROVE  WinnerIsPlurality'
    <2>1. CreateError(n, len, period) \in Errors \cup {Ok}
      BY DEF CreateError, Errors, Ok
    <2>2. CASE Accept_create_proposal(who, n, len, period)
      BY <1>1, <2>2 DEF Accept_create_proposal, Deposit
    <2> QED BY <1>2, <1>4, <2>1, <2>2 DEF create_proposal
  <1>5. ASSUME NEW who, NEW p, NEW i, vote(who, p, i)
        PROVE  WinnerIsPlurality'
    <2>1. VoteError(who, p, i) \in Errors \cup {Ok}
      BY DEF VoteError, Errors, Ok
    <2>2. CASE Accept_vote(who, p, i)
      BY <1>1, <2>2 DEF Accept_vote, Deposit
    <2> QED BY <1>2, <1>5, <2>1, <2>2 DEF vote
  <1>6. ASSUME NEW p \in Ids, end_proposal(p)
        PROVE  WinnerIsPlurality'
    <2>1. EndError(p) \in Errors \cup {Ok}
      BY DEF EndError, Errors, Ok
    <2> QED BY <1>2, <1>6, <2>1, EndAnnouncesPlurality DEF end_proposal
  <1>7. ASSUME NEW who, NEW p, cancel_proposal(who, p)
        PROVE  WinnerIsPlurality'
    <2>1. CancelError(who, p) \in Errors \cup {Ok}
      BY DEF CancelError, Errors, Ok
    <2>2. CASE Accept_cancel_proposal(who, p)
      BY <1>1, <2>2 DEF Accept_cancel_proposal, Deposit
    <2> QED BY <1>2, <1>7, <2>1, <2>2 DEF cancel_proposal
  <1>8. CASE UNCHANGED vars
    BY <1>8 DEF vars, WinnerIsPlurality, Supporters, Saturate
  <1> QED BY <1>3, <1>4, <1>5, <1>6, <1>7, <1>8 DEF Next

\* The winner that end_proposal announces is the option with the most recorded
\* votes and the lowest index among equals, for any number of options, votes
\* and proposals, also where the u32 counts saturate.
THEOREM WinnerCorrect == Spec => []WinnerIsPlurality
  <1>1. Init => WinnerIsPlurality
    BY DEF Init, WinnerIsPlurality, Deposit, Ok
  <1>2. Inv /\ WinnerIsPlurality /\ [Next]_vars => WinnerIsPlurality'
    BY NextAnnouncesPlurality
  <1> QED BY <1>1, <1>2, Invariance, PTL DEF Spec

-----------------------------------------------------------------------------
(* The refinement of the abstract ballot.  It holds as long as the u32 suffices *)
(* for the ids and for the electorate: then no id is used again, and no count   *)
(* saturates.                                                                   *)

\* Every recorded vote is for an option of its proposal.
VotesForOptions ==
    \A p \in Ids, a \in Accounts : Votes[p][a] # None =>
        Proposals[p] # None /\ Votes[p][a] < Proposals[p].options

\* create_proposal begins with an id that nobody has voted under.
LEMMA CreateIsFresh ==
    ASSUME MaxProposals <= U32Max, Inv, NextProposalId < MaxProposals
    PROVE  /\ NextProposalId \in Ids /\ Proposals[NextProposalId] = None
           /\ \A a \in Accounts : Votes[NextProposalId][a] = None
  <1>1. NextProposalId \in Ids
    BY DEF Inv, TypeOK
  <1>2. NextProposalId < U32Max /\ NextProposalId >= NextProposalId
    BY <1>1, VotingAssumption DEF Ids
  <1> QED BY <1>1, <1>2 DEF Inv, NextIdIsFresh

\* Every step keeps the recorded votes within the options.
LEMMA NextKeepsOptions ==
    ASSUME MaxProposals <= U32Max, Inv, VotesForOptions, [Next]_vars
    PROVE  VotesForOptions'
  <1>1. ASSUME UNCHANGED storage
        PROVE  VotesForOptions'
    BY <1>1 DEF storage, VotesForOptions
  <1>2. ASSUME NEW p \in Ids, Proposals[p] # None,
               Proposals' = [Proposals EXCEPT ![p].is_active = FALSE], Votes' = Votes
        PROVE  VotesForOptions'
    <2>1. Proposals[p] \in ProposalInfo
      BY <1>2 DEF Inv, TypeOK
    <2>2. [Proposals[p] EXCEPT !.is_active = FALSE] \in ProposalInfo
      BY <2>1 DEF ProposalInfo
    <2>3. Proposals'[p] # None /\ Proposals'[p].options = Proposals[p].options
      BY <1>2, <2>1, <2>2, NoneIsNoProposal DEF Inv, TypeOK, ProposalInfo
    <2>4. \A q \in Ids : q # p => Proposals'[q] = Proposals[q]
      BY <1>2 DEF Inv, TypeOK
    <2> QED BY <1>2, <2>3, <2>4 DEF VotesForOptions
  <1>3. ASSUME NEW who \in Accounts, NEW n, NEW len, NEW period,
               NextProposalId < MaxProposals, Accept_create_proposal(who, n, len, period)
        PROVE  VotesForOptions'
    <2>1. /\ NextProposalId \in Ids
          /\ \A a \in Accounts : Votes[NextProposalId][a] = None
      BY <1>3, CreateIsFresh
    <2>2. Votes' = Votes /\ \A q \in Ids : q # NextProposalId => Proposals'[q] = Proposals[q]
      BY <1>3 DEF Accept_create_proposal, Inv, TypeOK
    <2> QED BY <2>1, <2>2 DEF VotesForOptions
  <1>4. ASSUME NEW who \in Accounts, NEW p \in Ids, NEW i \in 0 .. MaxOptions,
               Accept_vote(who, p, i)
        PROVE  VotesForOptions'
    <2>1. Proposals[p] # None /\ i < Proposals[p].options
      <3>1. Proposals[p] \in ProposalInfo /\ Proposals[p] # None
        BY <1>4, AcceptedVote DEF Accept_vote, Inv
      <3>2. ~(i >= Proposals[p].options)
        BY <1>4 DEF Accept_vote, VoteError, Ok
      <3>3. Proposals[p].options \in Nat
        BY <3>1 DEF ProposalInfo
      <3> QED BY <3>1, <3>2, <3>3
    <2>2. /\ Proposals' = Proposals
          /\ \A q \in Ids, a \in Accounts :
                Votes'[q][a] = IF q = p /\ a = who THEN i ELSE Votes[q][a]
      BY <1>4 DEF Accept_vote, Inv, TypeOK
    <2> QED BY <2>1, <2>2 DEF VotesForOptions
  <1>5. ASSUME NEW p \in Ids, Accept_end_proposal(p)
        PROVE  VotesForOptions'
    BY <1>2, <1>5 DEF Accept_end_proposal, EndError, Ok
  <1>6. ASSUME NEW who, NEW p \in Ids, Accept_cancel_proposal(who, p)
        PROVE  VotesForOptions'
    BY <1>2, <1>6 DEF Accept_cancel_proposal, CancelError, Ok
  <1>7. ASSUME NEW e, Refuse(e)
        PROVE  VotesForOptions'
    BY <1>1, <1>7 DEF Refuse, storage
  <1>8. CASE AdvanceBlock
    BY <1>1, <1>8 DEF AdvanceBlock
  <1>9. CASE UNCHANGED vars
    BY <1>1, <1>9 DEF vars, storage
  <1> QED BY <1>3, <1>4, <1>5, <1>6, <1>7, <1>8, <1>9
      DEF Next, create_proposal, vote, end_proposal, cancel_proposal

\* The variables of the abstract ballot.
BallotOptions == [p \in Ids |-> IF Proposals[p] = None THEN 0 ELSE Proposals[p].options]
BallotsOpen == {p \in Ids : IsOpen(p)}
Announcement == IF outcome.result = "ProposalEnded"
                THEN <<outcome.proposal_id, outcome.option>> ELSE None

\* A block or a refused call is a pause of the ballots.
LEMMA PauseStep ==
    ASSUME UNCHANGED storage, outcome'.result # "ProposalEnded"
    PROVE  Ballots!Pause
  BY DEF Ballots!Pause, storage, IsOpen

\* An accepted create_proposal opens a ballot.
LEMMA CreateStep ==
    ASSUME MaxProposals <= U32Max, Inv, NextProposalId < MaxProposals,
           NEW who \in Accounts, NEW n \in 0 .. MaxOptions + 1, NEW len,
           NEW period \in 0 .. MaxVotingPeriod + 1,
           Accept_create_proposal(who, n, len, period)
    PROVE  n \in 1 .. MaxOptions /\ Ballots!Open(NextProposalId, n)
  <1> DEFINE b == NextProposalId
             new == [proposer |-> who, options |-> n, start_block |-> block,
                     end_block |-> SaturatingAdd(block, period, MaxBlock), is_active |-> TRUE]
  <1>1. b \in Ids /\ Proposals[b] = None
    BY CreateIsFresh
  <1>2. n \in 1 .. MaxOptions
    BY VotingAssumption DEF Accept_create_proposal, CreateError, Ok
  <1>3. /\ Proposals' = [Proposals EXCEPT ![b] = new] /\ Votes' = Votes
        /\ outcome'.result # "ProposalEnded"
    BY DEF Accept_create_proposal, Deposit
  <1>4. new # None /\ new.is_active /\ new.options = n
    <2>1. SaturatingAdd(block, period, MaxBlock) \in Blocks /\ block \in Blocks
      BY VotingAssumption DEF SaturatingAdd, Blocks, Inv, TypeOK
    <2>2. new \in ProposalInfo
      BY <1>2, <2>1 DEF ProposalInfo
    <2> QED BY <2>2, NoneIsNoProposal
  <1> HIDE DEF new
  <1>5. \A p \in Ids : Proposals'[p] = IF p = b THEN new ELSE Proposals[p]
    BY <1>1, <1>3 DEF Inv, TypeOK
  <1>6. BallotOptions' = [BallotOptions EXCEPT ![b] = n]
    BY <1>1, <1>4, <1>5 DEF BallotOptions
  <1>7. BallotsOpen' = BallotsOpen \cup {b}
    BY <1>1, <1>4, <1>5 DEF BallotsOpen, IsOpen
  <1>8. BallotOptions[b] = 0
    BY <1>1 DEF BallotOptions
  <1> QED BY <1>2, <1>3, <1>6, <1>7, <1>8
      DEF Ballots!Open, BallotOptions, BallotsOpen

\* An accepted vote casts a vote.
LEMMA VoteStep ==
    ASSUME Inv, NEW who \in Accounts, NEW p \in Ids, NEW i \in 0 .. MaxOptions,
           Accept_vote(who, p, i)
    PROVE  i \in 0 .. MaxOptions - 1 /\ Ballots!Cast(who, p, i)
  <1>1. /\ Proposals[p] \in ProposalInfo /\ Proposals[p] # None /\ Proposals[p].is_active
        /\ i \in OptionIndexes /\ Votes[p][who] = None
    BY AcceptedVote DEF Accept_vote, Inv
  <1>2. /\ Votes' = [Votes EXCEPT ![p][who] = i] /\ Proposals' = Proposals
        /\ outcome'.result # "ProposalEnded"
    BY DEF Accept_vote, Deposit
  <1>3. i < Proposals[p].options
    <2>1. ~(i >= Proposals[p].options)
      BY DEF Accept_vote, VoteError, Ok
    <2>2. Proposals[p].options \in Nat
      BY <1>1 DEF ProposalInfo
    <2> QED BY <2>1, <2>2
  <1>4. BallotOptions[p] = Proposals[p].options /\ p \in BallotsOpen
    BY <1>1 DEF BallotOptions, BallotsOpen, IsOpen
  <1>5. BallotOptions' = BallotOptions /\ BallotsOpen' = BallotsOpen
    BY <1>2 DEF BallotOptions, BallotsOpen, IsOpen
  <1>6. i \in 0 .. MaxOptions - 1
    BY <1>1 DEF OptionIndexes
  <1> QED BY <1>1, <1>2, <1>3, <1>4, <1>5, <1>6
      DEF Ballots!Cast, BallotOptions, BallotsOpen

\* Closing a proposal leaves the ballots' options, and closes one of them.
LEMMA CloseMapped ==
    ASSUME Inv, NEW p \in Ids, IsOpen(p),
           Proposals' = [Proposals EXCEPT ![p].is_active = FALSE]
    PROVE  /\ p \in BallotsOpen /\ BallotsOpen' = BallotsOpen \ {p}
           /\ BallotOptions' = BallotOptions
  <1> DEFINE new == [Proposals[p] EXCEPT !.is_active = FALSE]
  <1>1. Proposals[p] \in ProposalInfo /\ Proposals[p] # None
    BY DEF IsOpen, Inv, TypeOK
  <1>2. new \in ProposalInfo /\ ~new.is_active /\ new.options = Proposals[p].options
    BY <1>1 DEF ProposalInfo
  <1>3. new # None
    BY <1>2, NoneIsNoProposal
  <1>4. \A q \in Ids : Proposals'[q] = IF q = p THEN new ELSE Proposals[q]
    BY DEF Inv, TypeOK
  <1> HIDE DEF new
  <1>5. BallotsOpen' = BallotsOpen \ {p}
    BY <1>2, <1>4 DEF BallotsOpen, IsOpen
  <1>6. BallotOptions' = BallotOptions
    <2>1. \A q \in Ids : (IF Proposals'[q] = None THEN 0 ELSE Proposals'[q].options)
                          = (IF Proposals[q] = None THEN 0 ELSE Proposals[q].options)
      <3> SUFFICES ASSUME NEW q \in Ids
                   PROVE  (IF Proposals'[q] = None THEN 0 ELSE Proposals'[q].options)
                          = (IF Proposals[q] = None THEN 0 ELSE Proposals[q].options)
        OBVIOUS
      <3>1. CASE q = p
        BY <1>1, <1>2, <1>3, <1>4, <3>1
      <3>2. CASE q # p
        BY <1>4, <3>2
      <3> QED BY <3>1, <3>2
    <2> QED BY <2>1 DEF BallotOptions
  <1> QED BY <1>5, <1>6 DEF BallotsOpen

\* The count of an option that suits a u32 is the number of its supporters.
LEMMA CountIsExact ==
    ASSUME Cardinality(Accounts) <= U32Max, NEW ballots, NEW i
    PROVE  Saturate(Cardinality(Supporters(ballots, i))) = Cardinality(Supporters(ballots, i))
  <1>1. Supporters(ballots, i) \in SUBSET Accounts
    BY DEF Supporters
  <1>2. Cardinality(Supporters(ballots, i)) <= Cardinality(Accounts)
    BY <1>1, FS_Subset, VotingAssumption
  <1>3. Cardinality(Supporters(ballots, i)) \in Nat /\ Cardinality(Accounts) \in Nat
    BY SupportersFinite, FS_CardinalityType, VotingAssumption
  <1> QED BY <1>2, <1>3, VotingAssumption DEF Saturate

\* An accepted end_proposal closes the ballot with its winner: the first of
\* the front-runners, or none if nobody voted.
LEMMA EndStep ==
    ASSUME Cardinality(Accounts) <= U32Max, Inv, VotesForOptions, NEW p \in Ids,
           Accept_end_proposal(p)
    PROVE  \/ \E w \in 0 .. MaxOptions - 1 : Ballots!Close(p, w)
           \/ Ballots!Close(p, None)
  <1> DEFINE w == TallyLoop(p).winning_option
             V == VoteResults[p]
             k == Proposals[p].options
             C(i) == Cardinality(Supporters(Votes[p], i))
             Ahead == {i \in 0 .. k - 1 : \A j \in 0 .. k - 1 : C(j) <= C(i)}
  <1>1. /\ Proposals[p] # None /\ IsOpen(p)
        /\ outcome' = Deposit("ProposalEnded", p, w)
        /\ Proposals' = [Proposals EXCEPT ![p].is_active = FALSE]
        /\ Votes' = Votes
    BY DEF Accept_end_proposal, EndError, Ok, IsOpen
  <1>2. FoundAmong(V, k, TallyLoop(p))
    BY <1>1, TallyLoopFinds DEF Inv
  <1>3. k \in 1 .. MaxOptions
    <2>1. Proposals[p] \in ProposalInfo
      BY <1>1 DEF Inv, TypeOK
    <2> QED BY <2>1 DEF ProposalInfo
  <1>4. \A i \in 0 .. k - 1 : V[i] = C(i) /\ C(i) \in Nat
    <2> SUFFICES ASSUME NEW i \in 0 .. k - 1
                 PROVE  V[i] = C(i) /\ C(i) \in Nat
      OBVIOUS
    <2>1. i \in OptionIndexes
      BY <1>3, VotingAssumption DEF OptionIndexes
    <2>2. V[i] = Saturate(Cardinality(Supporters(Votes[p], i)))
      BY <2>1 DEF Inv, TallyMatchesVotes
    <2>3. V[i] = Cardinality(Supporters(Votes[p], i))
      BY <2>2, CountIsExact
    <2>4. Cardinality(Supporters(Votes[p], i)) \in Nat
      BY SupportersFinite
    <2> QED BY <2>3, <2>4
  <1>5. IF w = None THEN \A i \in 0 .. k - 1 : V[i] = 0
        ELSE /\ w \in 0 .. k - 1 /\ V[w] > 0
             /\ \A i \in 0 .. k - 1 : IF i < w THEN V[i] < V[w] ELSE V[i] <= V[w]
    <2>1. None \notin 0 .. k - 1
      BY VotingAssumption
    <2> QED BY <1>2, <2>1 DEF FoundAmong
  <1> HIDE DEF w, V, k
  <1>6. w = None <=> \A a \in Accounts : Votes[p][a] = None
    <2>1. ASSUME w = None, NEW a \in Accounts, Votes[p][a] # None
          PROVE  FALSE
      <3> DEFINE i == Votes[p][a]
                 S == Supporters(Votes[p], i)
      <3>1. i \in OptionIndexes /\ i < k
        BY <2>1 DEF Inv, TypeOK, VotesForOptions, k
      <3>2. i \in 0 .. k - 1
        BY <1>3, <3>1, VotingAssumption DEF OptionIndexes
      <3>3. C(i) = 0
        BY <1>4, <1>5, <2>1, <3>2
      <3>4. a \in S /\ Cardinality(S) = 0
        BY <3>3 DEF Supporters
      <3>5. IsFiniteSet(S)
        BY SupportersFinite
      <3> HIDE DEF S
      <3> QED BY <3>4, <3>5, FS_EmptySet
    <2>2. ASSUME w # None, \A a \in Accounts : Votes[p][a] = None
          PROVE  FALSE
      <3>1. w \in 0 .. k - 1 /\ C(w) > 0
        BY <1>4, <1>5, <2>2
      <3>2. Supporters(Votes[p], w) = {}
        BY <2>2 DEF Supporters
      <3>3. C(w) = 0
        BY <3>2, FS_EmptySet
      <3> HIDE DEF C
      <3> QED BY <3>1, <3>3
    <2> QED BY <2>1, <2>2
  <1>7. w # None => w \in Ahead /\ \A i \in Ahead : w <= i
    <2> HIDE DEF C
    <2> SUFFICES ASSUME w # None
                 PROVE  w \in Ahead /\ \A i \in Ahead : w <= i
      OBVIOUS
    <2>1. w \in 0 .. k - 1
      BY <1>5
    <2>2. \A i \in 0 .. k - 1 : IF i < w THEN C(i) < C(w) ELSE C(i) <= C(w)
      BY <1>4, <1>5, <2>1
    <2>3. \A i \in 0 .. k - 1 : C(i) \in Nat /\ C(i) <= C(w)
      BY <1>4, <2>1, <2>2
    <2>4. \A i \in 0 .. k - 1 : i < w => ~(C(w) <= C(i))
      BY <1>4, <2>1, <2>2
    <2> QED BY <2>1, <2>3, <2>4
  <1>8. /\ p \in BallotsOpen /\ BallotsOpen' = BallotsOpen \ {p}
        /\ BallotOptions' = BallotOptions /\ BallotOptions[p] = k
    BY <1>1, CloseMapped DEF BallotOptions, k
  <1>9. /\ outcome'.result = "ProposalEnded" /\ outcome'.proposal_id = p
        /\ outcome'.option = w
    BY <1>1 DEF Deposit
  <1>10. Announcement' = <<p, w>>
    BY <1>9 DEF Announcement
  <1>11. Ballots!FrontRunners(p) = Ahead
    <2>1. Ballots!FrontRunners(p) =
             {i \in 0 .. BallotOptions[p] - 1 :
                 \A j \in 0 .. BallotOptions[p] - 1 : C(j) <= C(i)}
      <3>1. \A i : Ballots!Supporters(p, i) = Supporters(Votes[p], i)
        BY DEF Ballots!Supporters, Supporters
      <3> DEFINE D(i) == Cardinality(Ballots!Supporters(p, i))
                 m == BallotOptions[p] - 1
      <3>2. \A i : D(i) = C(i)
        BY <3>1
      <3>3. Ballots!FrontRunners(p) = {i \in 0 .. m : \A j \in 0 .. m : D(j) <= D(i)}
        <4>1. \A S : Ballots!Cardinality(S) = Cardinality(S)
          BY DEF Ballots!Cardinality, Cardinality
        <4> QED BY <4>1 DEF Ballots!FrontRunners, BallotOptions
      <3> HIDE DEF C, D, m
      <3>4. Ballots!FrontRunners(p) = {i \in 0 .. m : \A j \in 0 .. m : C(j) <= C(i)}
        BY <3>2, <3>3
      <3> QED BY <3>4 DEF m
    <2> HIDE DEF C
    <2> QED BY <1>8, <2>1
  <1>12. Ballots!IsWinner(p, w)
    <2> HIDE DEF Ahead
    <2>1. CASE w = None
      BY <1>6, <2>1 DEF Ballots!IsWinner
    <2>2. CASE w # None
      <3>1. ~(\A a \in Accounts : Votes[p][a] = None)
        BY <1>6, <2>2
      <3> QED BY <1>7, <1>11, <2>2, <3>1 DEF Ballots!IsWinner
    <2> QED BY <2>1, <2>2
  <1>13. Ballots!Close(p, w)
    BY <1>1, <1>8, <1>10, <1>12 DEF Ballots!Close, BallotOptions, BallotsOpen, Announcement
  <1>14. w = None \/ w \in 0 .. MaxOptions - 1
    BY <1>3, <1>5, VotingAssumption
  <1> QED BY <1>13, <1>14

\* An accepted cancel_proposal withdraws the ballot.
LEMMA CancelStep ==
    ASSUME Inv, NEW who, NEW p \in Ids, Accept_cancel_proposal(who, p)
    PROVE  Ballots!Withdraw(p)
  <1>1. /\ IsOpen(p) /\ Votes' = Votes /\ outcome'.result # "ProposalEnded"
        /\ Proposals' = [Proposals EXCEPT ![p].is_active = FALSE]
    BY DEF Accept_cancel_proposal, CancelError, Ok, IsOpen, Deposit
  <1>2. /\ p \in BallotsOpen /\ BallotsOpen' = BallotsOpen \ {p}
        /\ BallotOptions' = BallotOptions
    BY <1>1, CloseMapped
  <1> QED BY <1>1, <1>2 DEF Ballots!Withdraw, BallotOptions, BallotsOpen

\* The genesis storage is an initial state of the abstract ballot.
LEMMA InitMapped == Init => Ballots!Init
  BY DEF Init, Ballots!Init, IsOpen, Deposit, Ok

\* Every step of the pallet is a step of the abstract ballot, or none.
LEMMA NextMapped ==
    ASSUME MaxProposals <= U32Max, Cardinality(Accounts) <= U32Max,
           Inv, VotesForOptions, [Next]_vars
    PROVE  [Ballots!Next]_(Ballots!vars)
  <1>1. ASSUME NEW e \in Errors \cup {Ok}, Refuse(e)
        PROVE  Ballots!Pause
    <2>1. UNCHANGED storage /\ outcome'.result # "ProposalEnded"
      BY <1>1 DEF Refuse, storage, Deposit, Errors, Ok
    <2> QED BY <2>1, PauseStep
  <1>2. CASE AdvanceBlock
    <2>1. UNCHANGED storage /\ outcome'.result # "ProposalEnded"
      BY <1>2 DEF AdvanceBlock, storage, Deposit, Ok
    <2>2. Ballots!Pause
      BY <2>1, PauseStep
    <2> QED BY <2>2 DEF Ballots!Next
  <1>3. ASSUME NEW who \in Accounts, NEW n \in 0 .. MaxOptions + 1,
               NEW len, NEW period \in 0 .. MaxVotingPeriod + 1,
               create_proposal(who, n, len, period)
        PROVE  Ballots!Next
    <2>1. CreateError(n, len, period) \in Errors \cup {Ok}
      BY DEF CreateError, Errors, Ok
    <2>2. CASE Refuse(CreateError(n, len, period))
      <3>1. Ballots!Pause
        BY <1>1, <2>1, <2>2
      <3> QED BY <3>1 DEF Ballots!Next
    <2>3. CASE Accept_create_proposal(who, n, len, period)
      <3>1. NextProposalId < MaxProposals
        BY <1>3 DEF create_proposal
      <3>2. n \in 1 .. MaxOptions /\ Ballots!Open(NextProposalId, n)
        BY <2>3, <3>1, CreateStep
      <3>3. NextProposalId \in Ids
        BY DEF Inv, TypeOK
      <3> QED BY <3>2, <3>3 DEF Ballots!Next
    <2> QED BY <1>3, <2>2, <2>3 DEF create_proposal
  <1>4. ASSUME NEW who \in Accounts, NEW p \in Ids, NEW i \in 0 .. MaxOptions,
               vote(who, p, i)
        PROVE  Ballots!Next
    <2>1. VoteError(who, p, i) \in Errors \cup {Ok}
      BY DEF VoteError, Errors, Ok
    <2>2. CASE Refuse(VoteError(who, p, i))
      <3>1. Ballots!Pause
        BY <1>1, <2>1, <2>2
      <3> QED BY <3>1 DEF Ballots!Next
    <2>3. CASE Accept_vote(who, p, i)
      <3>1. i \in 0 .. MaxOptions - 1 /\ Ballots!Cast(who, p, i)
        BY <2>3, VoteStep
      <3> QED BY <3>1 DEF Ballots!Next
    <2> QED BY <1>4, <2>2, <2>3 DEF vote
  <1>5. ASSUME NEW p \in Ids, end_proposal(p)
        PROVE  Ballots!Next
    <2>1. EndError(p) \in Errors \cup {Ok}
      BY DEF EndError, Errors, Ok
    <2>2. CASE Refuse(EndError(p))
      <3>1. Ballots!Pause
        BY <1>1, <2>1, <2>2
      <3> QED BY <3>1 DEF Ballots!Next
    <2>3. CASE Accept_end_proposal(p)
      <3>1. \/ \E w \in 0 .. MaxOptions - 1 : Ballots!Close(p, w)
            \/ Ballots!Close(p, None)
        BY <2>3, EndStep
      <3> QED BY <3>1 DEF Ballots!Next
    <2> QED BY <1>5, <2>2, <2>3 DEF end_proposal
  <1>6. ASSUME NEW who \in Accounts, NEW p \in Ids, cancel_proposal(who, p)
        PROVE  Ballots!Next
    <2>1. CancelError(who, p) \in Errors \cup {Ok}
      BY DEF CancelError, Errors, Ok
    <2>2. CASE Refuse(CancelError(who, p))
      <3>1. Ballots!Pause
        BY <1>1, <2>1, <2>2
      <3> QED BY <3>1 DEF Ballots!Next
    <2>3. CASE Accept_cancel_proposal(who, p)
      <3>1. Ballots!Withdraw(p)
        BY <2>3, CancelStep
      <3> QED BY <3>1 DEF Ballots!Next
    <2> QED BY <1>6, <2>2, <2>3 DEF cancel_proposal
  <1>7. CASE UNCHANGED vars
    BY <1>7 DEF vars, Ballots!vars, IsOpen
  <1> QED BY <1>2, <1>3, <1>4, <1>5, <1>6, <1>7 DEF Next

\* The pallet implements the abstract ballot wherever a u32 has room for the
\* ids that are handed out and for one vote of every account.
THEOREM BallotImplemented ==
    ASSUME MaxProposals <= U32Max, Cardinality(Accounts) <= U32Max
    PROVE  Spec => ImplementsBallot
  <1>1. Init => VotesForOptions
    BY DEF Init, VotesForOptions
  <1>2. Inv /\ VotesForOptions /\ [Next]_vars => VotesForOptions'
    BY NextKeepsOptions
  <1>3. Inv /\ VotesForOptions /\ [Next]_vars => [Ballots!Next]_(Ballots!vars)
    BY NextMapped
  <1> QED BY <1>1, <1>2, <1>3, InitMapped, Invariance, PTL
      DEF Spec, ImplementsBallot, Ballots!Spec

-----------------------------------------------------------------------------
(* Weights. *)

\* The entries of the storage maps that a step changes.
ChangedProposals == {p \in Ids : Proposals[p] # Proposals'[p]}
ChangedVotes == {x \in Ids \X Accounts : Votes[x[1]][x[2]] # Votes'[x[1]][x[2]]}
ChangedResults ==
    {x \in Ids \X OptionIndexes : VoteResults[x[1]][x[2]] # VoteResults'[x[1]][x[2]]}

\* The written entries, map by map.
LEMMA WrittenParts ==
    WrittenEntries = Cardinality(ChangedProposals) + Cardinality(ChangedVotes)
                       + Cardinality(ChangedResults)
                       + IF NextProposalId' = NextProposalId THEN 0 ELSE 1
  BY DEF WrittenEntries, ChangedProposals, ChangedVotes, ChangedResults

\* A set without elements counts nothing, and one within a singleton at most one.
LEMMA AtMostOne ==
    ASSUME NEW S, NEW x
    PROVE  /\ S = {} => Cardinality(S) = 0
           /\ S \subseteq {x} => Cardinality(S) \in Nat /\ Cardinality(S) <= 1
  <1>1. S = {} => Cardinality(S) = 0
    BY FS_EmptySet
  <1>2. ASSUME S \subseteq {x}
        PROVE  Cardinality(S) \in Nat /\ Cardinality(S) <= 1
    <2>1. CASE S = {}
      BY <1>1, <2>1
    <2>2. CASE S # {}
      <3>1. S = {x}
        BY <1>2, <2>2
      <3>2. Cardinality(S) = 1
        BY <3>1, FS_Singleton
      <3> QED BY <3>2
    <2> QED BY <2>1, <2>2
  <1> QED BY <1>1, <1>2

\* A step that changes nothing of the storage writes nothing.
LEMMA NothingWritten ==
    ASSUME UNCHANGED storage
    PROVE  WrittenEntries = 0
  <1>1. ChangedProposals = {} /\ ChangedVotes = {} /\ ChangedResults = {}
    BY DEF storage, ChangedProposals, ChangedVotes, ChangedResults
  <1>2. NextProposalId' = NextProposalId
    BY DEF storage
  <1> QED BY <1>1, <1>2, AtMostOne, WrittenParts

\* A fee is paid for a number of writes.
LEMMA PaidIsNat == \A event : PaidWrites(event) \in Nat
  BY DEF PaidWrites

\* Every storage entry that a call changes was paid for with its weight.
THEOREM WritesPaid == Spec => WritesArePaid
  <1> DEFINE Paid == WrittenEntries <= PaidWrites(outcome'.result)
  <1>1. ASSUME UNCHANGED storage
        PROVE  Paid
    BY <1>1, NothingWritten, PaidIsNat
  <1>2. ASSUME Inv, NEW who, NEW n, NEW len, NEW period,
               Accept_create_proposal(who, n, len, period)
        PROVE  Paid
    <2>1. ChangedProposals \subseteq {NextProposalId}
      BY <1>2 DEF Accept_create_proposal, Inv, TypeOK, ChangedProposals
    <2>2. ChangedVotes = {} /\ ChangedResults = {}
      BY <1>2 DEF Accept_create_proposal, ChangedVotes, ChangedResults
    <2>3. PaidWrites(outcome'.result) = 2
      BY <1>2 DEF Accept_create_proposal, Deposit, PaidWrites
    <2>4. Cardinality(ChangedProposals) \in Nat /\ Cardinality(ChangedProposals) <= 1
      BY <2>1, AtMostOne
    <2>5. Cardinality(ChangedVotes) = 0 /\ Cardinality(ChangedResults) = 0
      BY <2>2, AtMostOne
    <2> QED BY <2>3, <2>4, <2>5, WrittenParts
  <1>3. ASSUME Inv, NEW who \in Accounts, NEW p \in Ids, NEW i \in 0 .. MaxOptions,
               Accept_vote(who, p, i)
        PROVE  Paid
    <2>0. i \in OptionIndexes
      BY <1>3, AcceptedVote DEF Accept_vote, Inv
    <2>1. ChangedProposals = {} /\ NextProposalId' = NextProposalId
      BY <1>3 DEF Accept_vote, ChangedProposals
    <2>2. ChangedVotes \subseteq {<<p, who>>}
      <3>1. \A q \in Ids, a \in Accounts :
               Votes'[q][a] = IF q = p /\ a = who THEN i ELSE Votes[q][a]
        BY <1>3 DEF Accept_vote, Inv, TypeOK
      <3> QED BY <3>1 DEF ChangedVotes
    <2>3. ChangedResults \subseteq {<<p, i>>}
      <3>1. \A q \in Ids, j \in OptionIndexes : ~(q = p /\ j = i) =>
               VoteResults'[q][j] = VoteResults[q][j]
        BY <1>3, <2>0 DEF Accept_vote, Inv, TypeOK
      <3> QED BY <3>1 DEF ChangedResults
    <2>4. PaidWrites(outcome'.result) = 2
      BY <1>3 DEF Accept_vote, Deposit, PaidWrites
    <2>5. Cardinality(ChangedProposals) = 0
      BY <2>1, AtMostOne
    <2>6. Cardinality(ChangedVotes) \in Nat /\ Cardinality(ChangedVotes) <= 1
      BY <2>2, AtMostOne
    <2>7. Cardinality(ChangedResults) \in Nat /\ Cardinality(ChangedResults) <= 1
      BY <2>3, AtMostOne
    <2> QED BY <2>1, <2>4, <2>5, <2>6, <2>7, WrittenParts
  <1>4. ASSUME Inv, NEW p \in Ids, Proposals' = [Proposals EXCEPT ![p].is_active = FALSE],
               UNCHANGED <<Votes, VoteResults, NextProposalId>>,
               outcome'.result \in {"ProposalEnded", "ProposalCancelled"}
        PROVE  Paid
    <2>1. ChangedProposals \subseteq {p}
      BY <1>4 DEF Inv, TypeOK, ChangedProposals
    <2>2. ChangedVotes = {} /\ ChangedResults = {}
      BY <1>4 DEF ChangedVotes, ChangedResults
    <2>3. PaidWrites(outcome'.result) = 1
      BY <1>4 DEF PaidWrites
    <2>4. Cardinality(ChangedProposals) \in Nat /\ Cardinality(ChangedProposals) <= 1
      BY <2>1, AtMostOne
    <2>5. Cardinality(ChangedVotes) = 0 /\ Cardinality(ChangedResults) = 0
      BY <2>2, AtMostOne
    <2> QED BY <1>4, <2>3, <2>4, <2>5, WrittenParts
  <1>5. ASSUME Inv, NEW p \in Ids, Accept_end_proposal(p)
        PROVE  Paid
    BY <1>4, <1>5 DEF Accept_end_proposal, Deposit
  <1>6. ASSUME Inv, NEW who, NEW p \in Ids, Accept_cancel_proposal(who, p)
        PROVE  Paid
    BY <1>4, <1>6 DEF Accept_cancel_proposal, Deposit
  <1>7. ASSUME NEW e, Refuse(e)
        PROVE  Paid
    BY <1>1, <1>7 DEF Refuse, storage
  <1>8. Inv /\ [Next]_vars => [Paid]_vars
    <2> SUFFICES ASSUME Inv, Next PROVE Paid
      OBVIOUS
    <2>1. CASE AdvanceBlock
      BY <1>1, <2>1 DEF AdvanceBlock
    <2> HIDE DEF Paid
    <2> QED BY <1>2, <1>3, <1>5, <1>6, <1>7, <2>1
        DEF Next, create_proposal, vote, end_proposal, cancel_proposal
  <1> QED BY <1>8, Invariance, PTL DEF Spec, WritesArePaid

=============================================================================
