--------------------------- MODULE TokenManager_proof ---------------------------
(* Proofs about the token program and the token manager: the types, the        *)
(* relation of the recorded to the real supply, the saved mint, and what a     *)
(* handover of the authority means, for any keys, mints and amounts.           *)
EXTENDS TokenManager, TLAPS

\* RecordedSupplyExact and SavedMintIsOurs are inductive together with the
\* types: a record is only made together with its mint, and no instruction
\* removes a mint or changes its authority.  That nothing was minted past the
\* program before there was a mint makes a fresh record start out exact.
OutsideNeedsMint == \A m \in Mints : mints[m] = None => outside[m] = 0

\* The saved mint stays within reach because the wallet of a process is the
\* one in the file or was never in it, and because a wallet in the file is
\* never replaced.
PayerIsSaved == payer # None => payer \in {keypairFile} \cup unsaved

Inv == TypeOK /\ RecordedSupplyExact /\ OutsideNeedsMint /\ PayerIsSaved /\ SavedMintIsOurs

\* The state right after the deployment satisfies the invariant.
LEMMA InitInv == Init => Inv
BY TokenAssumption, WalletAssumption DEF Init, TokenInit, Inv, TypeOK, TokenTypeOK, RecordedSupplyExact,
   OutsideNeedsMint, PayerIsSaved, SavedMintIsOurs

\* A transfer of the token program keeps every balance a u64, also from an
\* account to itself.
LEMMA TransferTyped ==
    ASSUME TokenTypeOK, NEW m \in Mints, NEW from \in Keys, NEW to \in Keys,
           NEW amount \in Amounts, spl_transfer(m, from, to, amount)
    PROVE  \E moved \in [Keys -> 0 .. U64Max] : balances' = [balances EXCEPT ![m] = moved]
<1> DEFINE sent == [balances[m] EXCEPT ![from] = balances[m][from] - amount]
           moved == [sent EXCEPT ![to] = sent[to] + amount]
<1>1. balances' = [balances EXCEPT ![m] = moved]
  BY DEF spl_transfer, Moved
<1>2. balances[m] \in [Keys -> 0 .. U64Max] /\ amount \in 0 .. U64Max /\ U64Max \in Nat
  BY TokenAssumption DEF TokenTypeOK
<1>3. balances[m][from] >= amount /\ (from = to \/ balances[m][to] + amount <= U64Max)
  BY DEF spl_transfer
<1>4. sent \in [Keys -> 0 .. U64Max]
  BY <1>2, <1>3
<1>5. sent[to] + amount \in 0 .. U64Max
  BY <1>2, <1>3
<1>6. moved \in [Keys -> 0 .. U64Max]
  BY <1>4, <1>5
<1>7. QED BY <1>1, <1>6

\* Only keys sign.
LEMMA SignersAreKeys == Signers \subseteq Keys
BY WalletAssumption DEF Signers

\* Every instruction of the program keeps it, whoever signs.
LEMMA ProgramStep ==
    ASSUME Inv, ProgramNext(Signers), UNCHANGED manager
    PROVE  Inv'
<1> USE TokenAssumption, NoneIsNoAccount, WalletAssumption
<1> USE DEF Inv, TypeOK, TokenTypeOK, RecordedSupplyExact, OutsideNeedsMint, PayerIsSaved, SavedMintIsOurs,
        MintAccount, TokenMetadata, MayMint, token, manager
<1>1. PICK signer \in Signers, m \in Mints :
        \/ initialize_mint(signer, m)
        \/ \E to \in Keys, amount \in Amounts : mint_tokens(signer, m, to, amount)
        \/ \E to \in Keys, amount \in Amounts : transfer_tokens(signer, m, to, amount)
        \/ \E amount \in Amounts : burn_tokens(signer, m, amount)
        \/ \E new \in Keys \cup {Default} : update_mint_authority(signer, m, new)
  BY DEF ProgramNext
<1>1a. signer \in Keys
  BY SignersAreKeys
<1> USE <1>1a
<1>2. CASE initialize_mint(signer, m)
  BY <1>2 DEF initialize_mint, spl_initialize_mint
<1>3. ASSUME NEW to \in Keys, NEW amount \in Amounts, mint_tokens(signer, m, to, amount)
      PROVE  Inv'
  BY <1>3 DEF mint_tokens, spl_mint_to
<1>4. ASSUME NEW to \in Keys, NEW amount \in Amounts, transfer_tokens(signer, m, to, amount)
      PROVE  Inv'
  <2>1. PICK moved \in [Keys -> 0 .. U64Max] : balances' = [balances EXCEPT ![m] = moved]
    BY <1>4, TransferTyped DEF transfer_tokens
  <2>2. UNCHANGED <<mints, metadata, outside>>
    BY <1>4 DEF transfer_tokens, spl_transfer
  <2>3. QED BY <2>1, <2>2
<1>5. ASSUME NEW amount \in Amounts, burn_tokens(signer, m, amount)
      PROVE  Inv'
  BY <1>5, SMTT(30) DEF burn_tokens, spl_burn
<1>6. ASSUME NEW new \in Keys \cup {Default}, update_mint_authority(signer, m, new)
      PROVE  Inv'
  BY <1>6 DEF update_mint_authority
<1>7. QED BY <1>1, <1>2, <1>3, <1>4, <1>5, <1>6

\* Every call of the manager keeps it, although it goes past the program.
LEMMA ManagerStep ==
    ASSUME Inv, ManagerNext
    PROVE  Inv'
<1> USE TokenAssumption, NoneIsNoAccount, WalletAssumption
<1> USE DEF Inv, TypeOK, TokenTypeOK, RecordedSupplyExact, OutsideNeedsMint, PayerIsSaved, SavedMintIsOurs,
        MintAccount, TokenMetadata, token, Manager, manager, wallet
<1>1. ASSUME NEW m \in Mints, createToken(m) PROVE Inv'
  BY <1>1 DEF createToken, spl_initialize_mint
<1>2. ASSUME NEW m \in Mints, loadToken(m) PROVE Inv'
  BY <1>2 DEF loadToken
<1>3. CASE loadSaved
  BY <1>3 DEF loadSaved, loadToken
<1>3a. CASE initialize
  BY <1>3a DEF initialize, LoadWallet, GenerateWallet
<1>4. ASSUME NEW to \in Keys, NEW amount \in Amounts, mintTokens(to, amount) PROVE Inv'
  BY <1>4 DEF mintTokens, spl_mint_to
<1>5. ASSUME NEW from \in Keys, NEW to \in Keys, NEW amount \in Amounts,
             transferTokens(from, to, amount)
      PROVE  Inv'
  <2>1. PICK m \in Mints : spl_transfer(m, from, to, amount)
    BY <1>5 DEF transferTokens
  <2>2. PICK moved \in [Keys -> 0 .. U64Max] : balances' = [balances EXCEPT ![m] = moved]
    BY <2>1, TransferTyped
  <2>3. UNCHANGED <<mints, metadata, outside, manager>>
    BY <1>5, <2>1 DEF transferTokens, spl_transfer
  <2>4. QED BY <2>2, <2>3
<1>6. ASSUME NEW owner \in Keys, NEW amount \in Amounts, burnTokens(owner, amount) PROVE Inv'
  BY <1>6 DEF burnTokens, spl_burn
<1>7. QED BY <1>1, <1>2, <1>3, <1>3a, <1>4, <1>5, <1>6 DEF ManagerNext

\* The invariant holds in every state of every behaviour.
THEOREM Invariance == Spec => []Inv
<1>1. Inv /\ [Next]_vars => Inv'
  <2>1. ASSUME Inv, UNCHANGED vars PROVE Inv'
    BY <2>1 DEF vars, manager, Inv, TypeOK, TokenTypeOK, RecordedSupplyExact, OutsideNeedsMint,
       PayerIsSaved, SavedMintIsOurs
  <2>2. QED BY <2>1, ProgramStep, ManagerStep DEF Next
<1>2. QED BY InitInv, <1>1, PTL DEF Spec

\* The accounts on the chain and the manager's state keep their types: in
\* particular no supply and no balance leaves the range of a u64.
THEOREM TypeCorrect == Spec => []TypeOK
<1>1. Inv => TypeOK
  BY DEF Inv
<1>2. QED BY <1>1, Invariance, PTL

\* The record of mint_tokens and burn_tokens is exact up to what happens past
\* the program.
THEOREM SupplyCorrect == Spec => []RecordedSupplyExact
<1>1. Inv => RecordedSupplyExact
  BY DEF Inv
<1>2. QED BY <1>1, Invariance, PTL

\* The file mint-address.txt always names a mint whose authority is the wallet
\* in keypair.json or one that could not be written there.
THEOREM SavedMintCorrect == Spec => []SavedMintIsOurs
<1>1. Inv => SavedMintIsOurs
  BY DEF Inv
<1>2. QED BY <1>1, Invariance, PTL

\* Once the recorded authority differs from the mint's own, mint_tokens is
\* refused to everybody; the mint keeps its authority, so that its supply grows
\* past the program only, and a disabled record stays disabled.
THEOREM HandoverLimits == Spec => HandoverMovesRecordOnly
<1> DEFINE Handed(m) == metadata[m] # None /\ metadata[m].authority # mints[m].authority
           Limits(m) ==
              Handed(m) =>
                  /\ mints'[m].authority = mints[m].authority
                  /\ mints'[m].supply - mints[m].supply <= outside'[m] - outside[m]
                  /\ metadata[m].authority = Default => metadata'[m].authority = Default
<1>1. ASSUME Inv, [Next]_vars, NEW m \in Mints PROVE Limits(m)
  <2> USE <1>1, TokenAssumption, NoneIsNoAccount
  <2> SUFFICES ASSUME Handed(m)
               PROVE  /\ mints'[m].authority = mints[m].authority
                      /\ mints'[m].supply - mints[m].supply <= outside'[m] - outside[m]
                      /\ metadata[m].authority = Default => metadata'[m].authority = Default
    OBVIOUS
  <2>0. /\ metadata[m] \in TokenMetadata /\ mints[m] \in MintAccount
        /\ mints[m].supply \in Int /\ outside[m] \in Int
    BY DEF Inv, TypeOK, TokenTypeOK, RecordedSupplyExact, MintAccount
  <2>0a. mints \in [Mints -> MintAccount \cup {None}] /\ metadata \in [Mints -> TokenMetadata \cup {None}]
         /\ outside \in [Mints -> Int]
    BY DEF Inv, TypeOK, TokenTypeOK
  <2>1. ASSUME mints'[m] = mints[m], outside'[m] = outside[m], metadata'[m] = metadata[m]
        PROVE  Limits(m)
    BY <2>0, <2>1
  <2>2. ASSUME NEW signer \in Keys, NEW n \in Mints, initialize_mint(signer, n)
        PROVE  Limits(m)
    <3>1. n # m
      BY <2>0, <2>2 DEF initialize_mint
    <3> QED BY <2>0a, <2>1, <2>2, <3>1 DEF initialize_mint, spl_initialize_mint
  <2>3. ASSUME NEW signer \in Keys, NEW n \in Mints, NEW to \in Keys, NEW amount \in Amounts,
               mint_tokens(signer, n, to, amount)
        PROVE  Limits(m)
    <3>1. n # m
      BY <2>3 DEF mint_tokens, spl_mint_to, MayMint
    <3> QED BY <2>0a, <2>1, <2>3, <3>1 DEF mint_tokens, spl_mint_to
  <2>4. ASSUME NEW signer \in Keys, NEW n \in Mints, NEW amount \in Amounts,
               burn_tokens(signer, n, amount)
        PROVE  Limits(m)
    <3>1. amount \in Nat
      OBVIOUS
    <3>2. CASE n = m
      <4>1. /\ mints'[m].supply = mints[m].supply - amount
            /\ mints'[m].authority = mints[m].authority
            /\ metadata'[m].authority = metadata[m].authority /\ outside' = outside
        BY <2>0, <2>0a, <2>4, <3>2 DEF burn_tokens, spl_burn, MintAccount, TokenMetadata
      <4> QED BY <2>0, <3>1, <4>1
    <3>3. CASE n # m
      BY <2>0a, <2>1, <2>4, <3>3 DEF burn_tokens, spl_burn
    <3> QED BY <3>2, <3>3
  <2>5. ASSUME NEW signer \in Keys, NEW n \in Mints, NEW new \in Keys \cup {Default},
               update_mint_authority(signer, n, new)
        PROVE  Limits(m)
    <3>1. mints' = mints /\ outside' = outside
      BY <2>5 DEF update_mint_authority, token
    <3>2. metadata[m].authority = Default => metadata'[m].authority = Default
      BY <2>0, <2>0a, <2>5 DEF update_mint_authority, MayMint
    <3> QED BY <2>0, <3>1, <3>2
  <2>6. ASSUME NEW signer \in Keys, NEW n \in Mints, NEW to \in Keys, NEW amount \in Amounts,
               transfer_tokens(signer, n, to, amount)
        PROVE  Limits(m)
    BY <2>1, <2>6 DEF transfer_tokens, spl_transfer
  <2>7. CASE ProgramNext(Signers)
    BY <2>2, <2>3, <2>4, <2>5, <2>6, <2>7, SignersAreKeys DEF ProgramNext
  <2>8. CASE initialize \/ loadSaved \/ \E n \in Mints : loadToken(n)
    BY <2>1, <2>8 DEF initialize, loadSaved, loadToken
  <2>9. ASSUME NEW n \in Mints, createToken(n) PROVE Limits(m)
    <3>1. n # m
      BY <2>0, <2>9 DEF createToken, spl_initialize_mint
    <3> QED BY <2>0a, <2>1, <2>9, <3>1 DEF createToken, spl_initialize_mint
  <2>10. ASSUME NEW to \in Keys, NEW amount \in Amounts, mintTokens(to, amount) PROVE Limits(m)
    <3>1. PICK n \in Mints : /\ spl_mint_to(n, to, payer, amount)
                             /\ outside' = [outside EXCEPT ![n] = @ + amount]
      BY <2>10 DEF mintTokens
    <3>2. metadata' = metadata /\ amount \in Nat
      BY <2>10 DEF mintTokens, Manager
    <3>3. CASE n = m
      <4>1. /\ mints'[m].supply = mints[m].supply + amount
            /\ mints'[m].authority = mints[m].authority
            /\ outside'[m] = outside[m] + amount
        BY <2>0, <2>0a, <3>1, <3>3 DEF spl_mint_to, MintAccount
      <4> QED BY <2>0, <3>2, <4>1
    <3>4. CASE n # m
      BY <2>0a, <2>1, <3>1, <3>2, <3>4 DEF spl_mint_to
    <3> QED BY <3>3, <3>4
  <2>11. ASSUME NEW from \in Keys, NEW to \in Keys, NEW amount \in Amounts,
                transferTokens(from, to, amount)
         PROVE  Limits(m)
    BY <2>1, <2>11 DEF transferTokens, spl_transfer, Manager
  <2>12. ASSUME NEW owner \in Keys, NEW amount \in Amounts, burnTokens(owner, amount)
         PROVE  Limits(m)
    <3>1. PICK n \in Mints : /\ spl_burn(n, owner, amount)
                             /\ outside' = [outside EXCEPT ![n] = @ - amount]
      BY <2>12 DEF burnTokens
    <3>2. metadata' = metadata
      BY <2>12 DEF burnTokens, Manager
    <3>2a. amount \in Nat
      OBVIOUS
    <3>3. CASE n = m
      <4>1. /\ mints'[m].supply = mints[m].supply - amount
            /\ mints'[m].authority = mints[m].authority
            /\ outside'[m] = outside[m] - amount
        BY <2>0, <2>0a, <3>1, <3>3 DEF spl_burn, MintAccount
      <4> QED BY <2>0, <3>2, <3>2a, <4>1
    <3>4. CASE n # m
      BY <2>0a, <2>1, <3>1, <3>2, <3>4 DEF spl_burn
    <3> QED BY <3>3, <3>4
  <2>13. CASE UNCHANGED vars
    BY <2>1, <2>13 DEF vars
  <2>14. QED BY <2>7, <2>8, <2>9, <2>10, <2>11, <2>12, <2>13 DEF Next, ManagerNext
<1>2. Inv /\ [Next]_vars => [\A m \in Mints : Limits(m)]_<<token, metadata>>
  BY <1>1
<1>3. QED BY <1>2, Invariance, PTL DEF Spec, HandoverMovesRecordOnly
=============================================================================
