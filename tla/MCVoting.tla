-------------------------------- MODULE MCVoting --------------------------------
(* Model-checking instances of the voting pallet.                              *)
EXTENDS VotingPallet, TLC

\* Accounts are interchangeable: they are only compared with one another.
Symmetry == Permutations(Accounts)
=============================================================================
