---------------------------- MODULE MCAssetRegistry ----------------------------
(* Model-checking instances of the asset registry.                             *)
EXTENDS AssetRegistry, TLC

CONSTANTS a1, a2, ok_name, s1, s2, s3, s4, empty, long

MCAccounts == {a1, a2}
MCNames == {ok_name, long}
MCSymbols == {s1, s2, s3, s4, empty}
MCTextLen == [t \in Names \cup Symbols |->
                IF t = empty THEN 0 ELSE IF t = long THEN 2 ELSE 1]

\* Accounts are interchangeable, and so are the well-formed symbols.
Symmetry == Permutations({a1, a2}) \cup Permutations(Symbols \ {empty, long})
=============================================================================
