---------------------------- MODULE SplTokenProgram ----------------------------
(* The Anchor program of the Solana example                                    *)
(* (solana-dev/spl-token-program/programs/spl-token-program/src/lib.rs) over    *)
(* the SPL token program that it calls.  The token program is external: it     *)
(* keeps a mint (authority, supply) and the balances.  Beside it the program   *)
(* keeps its own record of every mint, with an authority and a total supply    *)
(* of its own.                                                                 *)
(*                                                                             *)
(* An instruction that fails rolls everything back: it is an action that is    *)
(* not enabled.  Associated token accounts are taken to exist; one that does   *)
(* not is one with an empty balance whose creation the caller has to pay for.  *)
(* Names, symbols and decimals are stored and never read.                      *)
EXTENDS Integers

CONSTANTS
    Keys,       \* public keys whose owners sign transactions
    Default,    \* Pubkey::default(), which nobody can sign for
    Mints,      \* addresses of mints
    Amounts,    \* amounts offered to the instructions
    U64Max,     \* largest u64
    None        \* an account that does not exist

ASSUME TokenAssumption ==
    /\ Default \notin Keys
    /\ U64Max \in Nat
    /\ Amounts \subseteq 0 .. U64Max

MintAccount == [authority: Keys, supply: 0 .. U64Max]
TokenMetadata == [authority: Keys \cup {Default}, total_supply: 0 .. U64Max]

ASSUME NoneIsNoAccount == None \notin MintAccount \cup TokenMetadata

VARIABLES
    mints,          \* the token program: mint -> MintAccount, or None
    balances,       \* the token program: mint -> key -> balance
    metadata,       \* the program: mint -> TokenMetadata, or None
    outside         \* history: tokens minted minus burned past the program

token == <<mints, balances>>

TokenInit ==
    /\ mints = [m \in Mints |-> None]
    /\ balances = [m \in Mints |-> [k \in Keys |-> 0]]
    /\ metadata = [m \in Mints |-> None]
    /\ outside = [m \in Mints |-> 0]

-----------------------------------------------------------------------------
(* The instructions of the SPL token program, as far as they are used.  Each   *)
(* checks its own conditions and the signature of the authority it needs.      *)

spl_initialize_mint(m, authority) ==
    /\ mints[m] = None
    /\ mints' = [mints EXCEPT ![m] = [authority |-> authority, supply |-> 0]]
    /\ UNCHANGED balances

spl_mint_to(m, to, signer, amount) ==
    /\ mints[m] # None
    /\ signer = mints[m].authority
    /\ mints[m].supply + amount <= U64Max
    /\ balances[m][to] + amount <= U64Max
    /\ mints' = [mints EXCEPT ![m].supply = @ + amount]
    /\ balances' = [balances EXCEPT ![m][to] = @ + amount]

Moved(held, from, to, amount) ==
    LET sent == [held EXCEPT ![from] = held[from] - amount]
    IN  [sent EXCEPT ![to] = sent[to] + amount]

spl_transfer(m, from, to, amount) ==
    /\ mints[m] # None
    /\ balances[m][from] >= amount
    /\ from = to \/ balances[m][to] + amount <= U64Max
    /\ balances' = [balances EXCEPT ![m] = Moved(balances[m], from, to, amount)]
    /\ UNCHANGED mints

spl_burn(m, owner, amount) ==
    /\ mints[m] # None
    /\ balances[m][owner] >= amount
    /\ mints[m].supply >= amount
    /\ mints' = [mints EXCEPT ![m].supply = @ - amount]
    /\ balances' = [balances EXCEPT ![m][owner] = @ - amount]

-----------------------------------------------------------------------------
(* The instructions of the program.                                            *)

\* init creates the mint with the signer as its authority, and its record.
initialize_mint(authority, m) ==
    /\ metadata[m] = None
    /\ spl_initialize_mint(m, authority)
    /\ metadata' = [metadata EXCEPT ![m] = [authority |-> authority, total_supply |-> 0]]
    /\ UNCHANGED outside

\* Mutant of MayMint: the recorded authority is not compared.
MayMint_Anyone(authority, m) == metadata[m] # None

\* The require! of mint_tokens and of update_mint_authority.
MayMint(authority, m) == metadata[m] # None /\ metadata[m].authority = authority

\* Mutant of mint_tokens: the record is forgotten.
mint_tokens_NoRecord(authority, m, recipient, amount) ==
    /\ MayMint(authority, m)
    /\ spl_mint_to(m, recipient, authority, amount)
    /\ UNCHANGED <<metadata, outside>>

mint_tokens(authority, m, recipient, amount) ==
    /\ MayMint(authority, m)
    /\ spl_mint_to(m, recipient, authority, amount)
    /\ metadata[m].total_supply + amount <= U64Max
    /\ metadata' = [metadata EXCEPT ![m].total_supply = @ + amount]
    /\ UNCHANGED outside

transfer_tokens(authority, m, to, amount) ==
    /\ spl_transfer(m, authority, to, amount)
    /\ UNCHANGED <<metadata, outside>>

\* Mutant of burn_tokens: the subtraction is not checked.
burn_tokens_Unchecked(authority, m, amount) ==
    /\ metadata[m] # None
    /\ spl_burn(m, authority, amount)
    /\ metadata' = [metadata EXCEPT ![m].total_supply = @ - amount]
    /\ UNCHANGED outside

burn_tokens(authority, m, amount) ==
    /\ metadata[m] # None
    /\ spl_burn(m, authority, amount)
    /\ metadata[m].total_supply >= amount
    /\ metadata' = [metadata EXCEPT ![m].total_supply = @ - amount]
    /\ UNCHANGED outside

\* Only the record changes: the mint of the token program keeps its authority.
\* No new authority at all is recorded as the default key.
update_mint_authority(current_authority, m, new_authority) ==
    /\ MayMint(current_authority, m)
    /\ metadata' = [metadata EXCEPT ![m].authority = new_authority]
    /\ UNCHANGED <<token, outside>>

\* The instructions that the given keys can sign.
ProgramNext(signers) ==
    \E signer \in signers, m \in Mints :
        \/ initialize_mint(signer, m)
        \/ \E to \in Keys, amount \in Amounts : mint_tokens(signer, m, to, amount)
        \/ \E to \in Keys, amount \in Amounts : transfer_tokens(signer, m, to, amount)
        \/ \E amount \in Amounts : burn_tokens(signer, m, amount)
        \/ \E new \in Keys \cup {Default} : update_mint_authority(signer, m, new)

-----------------------------------------------------------------------------
(* Properties.                                                                 *)

TokenTypeOK ==
    /\ mints \in [Mints -> MintAccount \cup {None}]
    /\ balances \in [Mints -> [Keys -> 0 .. U64Max]]
    /\ metadata \in [Mints -> TokenMetadata \cup {None}]
    /\ outside \in [Mints -> Int]

\* The total supply that the program records differs from the mint's supply
\* by exactly what was minted and burned past the program: every mint_tokens
\* and burn_tokens changes both copies by the same amount or neither, also
\* when one of the two checked operations fails.
RecordedSupplyExact ==
    \A m \in Mints : metadata[m] # None =>
        /\ mints[m] # None
        /\ mints[m].supply = metadata[m].total_supply + outside[m]

\* update_mint_authority moves the record and not the mint.  lib.rs:123-128
\* says that it hands the authority over or, without a new one, disables
\* minting ("Mint authority disabled").  What holds is less: once the recorded
\* authority is not the mint's own, nobody mints through the program, the new
\* holder included, and no supply grows but past the program, where the key
\* that made the mint keeps its authority; a record with the default key, for
\* which nobody signs, stays so for ever.
HandoverMovesRecordOnly ==
    [][\A m \in Mints : metadata[m] # None /\ metadata[m].authority # mints[m].authority =>
          /\ mints'[m].authority = mints[m].authority
          /\ mints'[m].supply - mints[m].supply <= outside'[m] - outside[m]
          /\ metadata[m].authority = Default => metadata'[m].authority = Default]_<<token, metadata>>

=============================================================================
