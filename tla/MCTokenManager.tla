----------------------------- MODULE MCTokenManager -----------------------------
(* Model-checking instances of the token program and the token manager.        *)
EXTENDS TokenManager, TLC

\* The mints are interchangeable, and so are the wallets before they are generated.
Symmetry == Permutations(Mints) \cup Permutations(Wallets)
=============================================================================
