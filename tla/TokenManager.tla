------------------------------ MODULE TokenManager ------------------------------
(* The token manager script (solana-dev/spl-token-program/scripts/              *)
(* token-manager.js) at work beside the program.  A process of the script      *)
(* holds a wallet and the mint it works on, and calls the token program        *)
(* directly, without the Anchor program and its record.  Two files outlive it: *)
(* keypair.json, the wallet that initialize() loads or generates, and          *)
(* mint-address.txt, the mint that createToken saves and the command line      *)
(* reads back.  Both are written after the memory they stand for is set, and   *)
(* an error of either write is caught and ignored; it may leave the file as it *)
(* was or damaged.  One process runs at a time.                                *)
(*                                                                             *)
(* An amount is what the script hands on: the number it was given times        *)
(* 10^decimals; the library refuses one that is not whole.                     *)
EXTENDS SplTokenProgram

CONSTANTS
    Wallets,        \* the keys that Keypair.generate() may come up with
    Damaged         \* a file that exists and cannot be parsed

ASSUME WalletAssumption ==
    /\ Wallets \subseteq Keys
    /\ None \notin Mints \cup Keys /\ Damaged \notin Mints \cup Keys \cup {None}

VARIABLES
    payer,          \* this.payer: the wallet of the process, or None
    mint,           \* this.mint: the mint that is loaded, or None
    keypairFile,    \* keypair.json: the wallet in it, Damaged, or None
    mintFile,       \* mint-address.txt: the address in it, Damaged, or None
    generated,      \* history: the wallets generated so far
    unsaved         \* history: those of them that could not be written to the file

manager == <<payer, mint, keypairFile, mintFile, generated, unsaved>>
wallet == <<payer, keypairFile, generated, unsaved>>
vars == <<mints, balances, metadata, outside, manager>>

Init ==
    /\ TokenInit
    /\ payer = None /\ mint = None
    /\ keypairFile = None /\ mintFile = None
    /\ generated = {} /\ unsaved = {}

\* Mutant of GenerateWallet: whether the file exists is not looked at.
GenerateWallet_Always(k) ==
    /\ k \in Wallets \ generated
    /\ generated' = generated \cup {k}
    /\ payer' = k
    /\ \/ keypairFile' = k /\ UNCHANGED unsaved
       \/ keypairFile' \in {keypairFile, Damaged} /\ unsaved' = unsaved \cup {k}

\* this.payer is set before the file is written: a failure of the write is
\* reported by the result of initialize(), which main() ignores.
GenerateWallet(k) ==
    /\ keypairFile = None
    /\ k \in Wallets \ generated
    /\ generated' = generated \cup {k}
    /\ payer' = k
    /\ \/ keypairFile' = k /\ UNCHANGED unsaved
       \/ keypairFile' \in {None, Damaged} /\ unsaved' = unsaved \cup {k}

\* A file that cannot be parsed leaves this.payer at null.
LoadWallet ==
    /\ keypairFile # None
    /\ payer' = IF keypairFile = Damaged THEN None ELSE keypairFile
    /\ UNCHANGED <<keypairFile, generated, unsaved>>

\* A new process: the constructor and initialize().
initialize ==
    /\ LoadWallet \/ \E k \in Wallets : GenerateWallet(k)
    /\ mint' = None
    /\ UNCHANGED <<mints, balances, metadata, outside, mintFile>>

Manager(m) == payer # None /\ mint = m /\ UNCHANGED <<manager, metadata>>

\* The transaction may go through although createMint gives up waiting for it
\* (the manager keeps the mint it had), and the file may fail to be written
\* after this.mint is set; both errors are caught.
createToken(m) ==
    /\ payer # None
    /\ spl_initialize_mint(m, payer)
    /\ \/ UNCHANGED <<mint, mintFile>>
       \/ mint' = m /\ mintFile' \in {m, mintFile, Damaged}
    /\ UNCHANGED <<wallet, metadata, outside>>

\* this.mint is set before getMint finds out whether there is such a mint.
loadToken(m) ==
    /\ mint' = m
    /\ UNCHANGED <<mints, balances, metadata, outside, wallet, mintFile>>

\* Most commands of main() load what the file names; an address that cannot be
\* parsed loads nothing.
loadSaved ==
    /\ mintFile \in Mints
    /\ loadToken(mintFile)

mintTokens(to, amount) ==
    \E m \in Mints :
        /\ Manager(m)
        /\ spl_mint_to(m, to, payer, amount)
        /\ outside' = [outside EXCEPT ![m] = @ + amount]

\* Only the payer signs, so that only the payer's tokens can be moved or burned.
transferTokens(from, to, amount) ==
    \E m \in Mints :
        /\ Manager(m)
        /\ from = payer
        /\ spl_transfer(m, from, to, amount)
        /\ UNCHANGED outside

burnTokens(owner, amount) ==
    \E m \in Mints :
        /\ Manager(m)
        /\ owner = payer
        /\ spl_burn(m, owner, amount)
        /\ outside' = [outside EXCEPT ![m] = @ - amount]

ManagerNext ==
    \/ initialize
    \/ \E m \in Mints : createToken(m)
    \/ \E m \in Mints : loadToken(m)
    \/ loadSaved
    \/ \E to \in Keys, amount \in Amounts : mintTokens(to, amount)
    \/ \E from, to \in Keys, amount \in Amounts : transferTokens(from, to, amount)
    \/ \E owner \in Keys, amount \in Amounts : burnTokens(owner, amount)

\* Who can sign: everybody else, and a wallet that is in memory or in the file.
\* A wallet that was only in the memory of an earlier process is lost.
Signers == (Keys \ Wallets) \cup ({payer, keypairFile} \cap Wallets)

Next ==
    \/ ProgramNext(Signers) /\ UNCHANGED manager
    \/ ManagerNext

Spec == Init /\ [][Next]_vars

-----------------------------------------------------------------------------
(* Properties.                                                                 *)

\* The types of the chain's accounts, of the manager's state and of its files.
TypeOK ==
    /\ TokenTypeOK
    /\ payer \in Wallets \cup {None}
    /\ keypairFile \in Wallets \cup {None, Damaged}
    /\ mint \in Mints \cup {None}
    /\ mintFile \in Mints \cup {None, Damaged}
    /\ unsaved \subseteq generated /\ generated \subseteq Wallets

\* The address in mint-address.txt leads to a mint that exists, that has no
\* record of the program (whose supply it would leave behind), and whose
\* authority is a wallet of the manager: the one in keypair.json, which the
\* next process loads and mints with, unless it is one that initialize() could
\* not write to the file.  That case is real, since main() goes on after it:
\* such a mint is saved under a wallet that is lost with its process.
SavedMintIsOurs ==
    mintFile \in Mints =>
        /\ mints[mintFile] # None
        /\ metadata[mintFile] = None
        /\ mints[mintFile].authority \in {keypairFile} \cup unsaved

=============================================================================
