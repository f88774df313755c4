--------------------------------- MODULE Ballot ---------------------------------
(* What the voting pallet promises, without blocks, periods, ids in order,    *)
(* running tallies or a counting loop: ballots are opened, every account may  *)
(* cast one vote while a ballot is open, and a ballot is closed either with   *)
(* the announcement of its plurality winner or without one.                   *)
EXTENDS Integers, FiniteSets

CONSTANTS
    Accounts,   \* the electorate
    Ids,        \* names of ballots
    MaxOptions, \* most options of a ballot
    None        \* no vote, no winner, no announcement

VARIABLES
    options,        \* ballot -> number of its options, 0 before it is opened
    open,           \* the ballots that accept votes
    cast,           \* ballot -> account -> the option it voted for, or None
    announcement    \* <<ballot, winner>> in the state that announces it

vars == <<options, open, cast, announcement>>

Supporters(b, i) == {a \in Accounts : cast[b][a] = i}

\* The options with the most votes; none of them has a vote only if nobody voted.
FrontRunners(b) ==
    {i \in 0 .. options[b] - 1 :
        \A j \in 0 .. options[b] - 1 :
            Cardinality(Supporters(b, j)) <= Cardinality(Supporters(b, i))}

\* The first of the front-runners, as long as anybody voted at all.
IsWinner(b, w) ==
    IF \A a \in Accounts : cast[b][a] = None THEN w = None
    ELSE w \in FrontRunners(b) /\ \A i \in FrontRunners(b) : w <= i

Init ==
    /\ options = [b \in Ids |-> 0]
    /\ open = {}
    /\ cast = [b \in Ids |-> [a \in Accounts |-> None]]
    /\ announcement = None

Open(b, n) ==
    /\ options[b] = 0
    /\ options' = [options EXCEPT ![b] = n]
    /\ open' = open \cup {b}
    /\ announcement' = None
    /\ UNCHANGED cast

Cast(a, b, i) ==
    /\ b \in open
    /\ cast[b][a] = None
    /\ i < options[b]
    /\ cast' = [cast EXCEPT ![b][a] = i]
    /\ announcement' = None
    /\ UNCHANGED <<options, open>>

Close(b, w) ==
    /\ b \in open
    /\ IsWinner(b, w)
    /\ open' = open \ {b}
    /\ announcement' = <<b, w>>
    /\ UNCHANGED <<options, cast>>

Withdraw(b) ==
    /\ b \in open
    /\ open' = open \ {b}
    /\ announcement' = None
    /\ UNCHANGED <<options, cast>>

\* Time goes on, or a call is refused.
Pause == announcement' = None /\ UNCHANGED <<options, open, cast>>

Next ==
    \/ Pause
    \/ \E b \in Ids :
        \/ \E n \in 1 .. MaxOptions : Open(b, n)
        \/ \E a \in Accounts, i \in 0 .. MaxOptions - 1 : Cast(a, b, i)
        \/ \E w \in 0 .. MaxOptions - 1 : Close(b, w)
        \/ Close(b, None)
        \/ Withdraw(b)

Spec == Init /\ [][Next]_vars

=============================================================================
