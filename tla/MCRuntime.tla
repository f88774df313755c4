------------------------------- MODULE MCRuntime -------------------------------
(* Model-checking instance of the demo chain's runtime.                        *)
EXTENDS SolochainRuntime

MCAccounts == {alice, bob, charlie}

\* Enough to leave dust, enough to endow again, and less than the deposit.
MCTransfers == {[dest |-> alice, value |-> 4], [dest |-> bob, value |-> 5],
                [dest |-> charlie, value |-> 1]}
=============================================================================
