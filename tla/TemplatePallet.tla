----------------------------- MODULE TemplatePallet -----------------------------
(* The template pallet of the demo chain                                       *)
(* (task4/substrate-demo/pallets/template/src/lib.rs): one optional u32.       *)
(* A dispatchable is an action over the stored value and the result of the     *)
(* dispatch; the runtime calls it with an origin and rolls a failed one back.  *)
EXTENDS Integers

CONSTANTS
    Accounts,   \* accounts that sign extrinsics
    Root,       \* the root origin of sudo, which signs nothing
    U32Max,     \* largest u32
    None        \* the Option::None of the storage value

ASSUME TemplateAssumption ==
    /\ Root \notin Accounts
    /\ U32Max \in Nat
    /\ None \notin Int

VARIABLES
    Something,  \* the stored u32, or None
    dispatch    \* the DispatchResult of the last dispatched call

Ok == "Ok"
TemplateErrors == {"BadOrigin", "NoneValue", "StorageOverflow"}

Fail(error) == dispatch' = error /\ UNCHANGED Something

Store(something) == dispatch' = Ok /\ Something' = something

do_something(origin, something) ==
    IF origin \in Accounts THEN Store(something) ELSE Fail("BadOrigin")

cause_error(origin) ==
    CASE origin \notin Accounts -> Fail("BadOrigin")
      [] origin \in Accounts /\ Something = None -> Fail("NoneValue")
      [] origin \in Accounts /\ Something = U32Max -> Fail("StorageOverflow")
      [] OTHER -> Store(Something + 1)

\* Weights (weights.rs): database accesses that a call pays for.
do_something_weight == 1
cause_error_weight == 2

=============================================================================
