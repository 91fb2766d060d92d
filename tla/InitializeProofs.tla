-------------------------- MODULE InitializeProofs --------------------------
(***************************************************************************)
(* Theorems about Initialize, for any number of users, pools, mints and    *)
(* accounts.                                                               *)
(***************************************************************************)
EXTENDS Initialize, TLAPS

(* The inductive invariant: an initialized pool has its discriminator, so  *)
(* it is not initialized again, and every authority over its vaults and    *)
(* its mint is the derived address, which no token instruction signs for.  *)
PoolSafe(p) ==
    opened[p] # NoOne =>
       /\ amm[p].discriminator
       /\ VaultLocked(p, opened[p].token_a)
       /\ VaultLocked(p, opened[p].token_b)
       /\ account[opened[p].token_a].mint # account[opened[p].token_b].mint
       /\ MintSealed(p, opened[p].pool_mint)

Inv == TypeOK /\ \A p \in Amm : PoolSafe(p)

(* No user signs as the address derived from a pool. *)
LEMMA DerivedAddressIsNoUser ==
    ASSUME NEW p \in Amm
    PROVE  SwapAuthority(p) \in Authority /\ SwapAuthority(p) \notin User /\ NoOne \notin User
BY SwapAuthorityAssumption, KeysAssumption

(* The instructions of the token program keep the types. *)
LEMMA TokensKeepTypes == TypeOK /\ Tokens => TypeOK'
<1> SUFFICES ASSUME TypeOK, Tokens PROVE TypeOK'
  OBVIOUS
<1>0. TokenTypeOK
  BY DEF TypeOK
<1>1. ASSUME MintInstruction PROVE TokenTypeOK'
  <2> PICK m \in Mint :
       \/ \E authority \in Key, freeze \in Key \cup {NoOne} : InitializeMint(m, authority, freeze)
       \/ \E key \in Key \cup {NoOne} : SetMintAuthority(m, key) \/ SetFreezeAuthority(m, key)
       \/ UserMints(m)
       \/ UserBurns(m)
    BY <1>1 DEF MintInstruction
  <2>1. ASSUME NEW authority \in Key, NEW freeze \in Key \cup {NoOne}, InitializeMint(m, authority, freeze)
        PROVE TokenTypeOK'
    BY <1>0, <2>1 DEF InitializeMint, TokenTypeOK, MintState
  <2>2. ASSUME NEW key \in Key \cup {NoOne}, SetMintAuthority(m, key) PROVE TokenTypeOK'
    BY <1>0, <2>2 DEF SetMintAuthority, TokenTypeOK, MintState, IsMint
  <2>3. ASSUME NEW key \in Key \cup {NoOne}, SetFreezeAuthority(m, key) PROVE TokenTypeOK'
    BY <1>0, <2>3 DEF SetFreezeAuthority, TokenTypeOK, MintState, IsMint
  <2>4. CASE UserMints(m)
    BY <1>0, <2>4 DEF UserMints, TokenTypeOK, MintState, IsMint
  <2>5. CASE UserBurns(m)
    BY <1>0, <2>5 DEF UserBurns, TokenTypeOK, MintState, IsMint
  <2> QED BY <2>1, <2>2, <2>3, <2>4, <2>5
<1>2. ASSUME AccountInstruction PROVE TokenTypeOK'
  <2> PICK t \in Account :
       \/ \E m \in Mint, owner \in Key : InitializeAccount(t, m, owner)
       \/ \E key \in Key : SetAccountOwner(t, key)
       \/ \E key \in User \cup {NoOne} : Approve(t, key)
       \/ \E key \in Key \cup {NoOne} : SetCloseAuthority(t, key)
       \/ CloseAccount(t)
    BY <1>2 DEF AccountInstruction
  <2>1. ASSUME NEW m \in Mint, NEW owner \in Key, InitializeAccount(t, m, owner) PROVE TokenTypeOK'
    BY <1>0, <2>1 DEF InitializeAccount, TokenTypeOK, AccountState
  <2>2. ASSUME NEW key \in Key, SetAccountOwner(t, key) PROVE TokenTypeOK'
    BY <1>0, <2>2 DEF SetAccountOwner, TokenTypeOK, AccountState, IsAccount
  <2>3. ASSUME NEW key \in User \cup {NoOne}, Approve(t, key) PROVE TokenTypeOK'
    BY <1>0, <2>3 DEF Approve, TokenTypeOK, AccountState, IsAccount
  <2>4. ASSUME NEW key \in Key \cup {NoOne}, SetCloseAuthority(t, key) PROVE TokenTypeOK'
    BY <1>0, <2>4 DEF SetCloseAuthority, TokenTypeOK, AccountState, IsAccount
  <2>5. CASE CloseAccount(t)
    BY <1>0, <2>5 DEF CloseAccount, TokenTypeOK
  <2> QED BY <2>1, <2>2, <2>3, <2>4, <2>5
<1> QED BY <1>1, <1>2 DEF Tokens, TypeOK

(* No token instruction touches a locked vault. *)
LEMMA TokensKeepVaults ==
    ASSUME TypeOK, Tokens, NEW p \in Amm, NEW v \in Account, VaultLocked(p, v)
    PROVE  account'[v] = account[v]
<1>1. /\ account[v] # NoOne
      /\ account[v].owner \notin User
      /\ account[v].close_authority = NoOne
      /\ Closer(v) \notin User
  BY DerivedAddressIsNoUser DEF VaultLocked, IsAccount, Closer
<1>2. CASE MintInstruction
  BY <1>2 DEF MintInstruction, InitializeMint, SetMintAuthority, SetFreezeAuthority, UserMints, UserBurns
<1>3. CASE AccountInstruction
  <2> PICK t \in Account :
       \/ \E m \in Mint, owner \in Key : InitializeAccount(t, m, owner)
       \/ \E key \in Key : SetAccountOwner(t, key)
       \/ \E key \in User \cup {NoOne} : Approve(t, key)
       \/ \E key \in Key \cup {NoOne} : SetCloseAuthority(t, key)
       \/ CloseAccount(t)
    BY <1>3 DEF AccountInstruction
  <2>1. t # v
    BY <1>1 DEF InitializeAccount, SetAccountOwner, Approve, SetCloseAuthority, CloseAccount, IsAccount
  <2>2. \E s : account' = [account EXCEPT ![t] = s]
    <3>1. ASSUME NEW m \in Mint, NEW owner \in Key, InitializeAccount(t, m, owner)
          PROVE  \E s : account' = [account EXCEPT ![t] = s]
      BY <3>1 DEF InitializeAccount
    <3>2. ASSUME NEW key \in Key, SetAccountOwner(t, key)
          PROVE  \E s : account' = [account EXCEPT ![t] = s]
      BY <3>2 DEF SetAccountOwner
    <3>3. ASSUME NEW key \in User \cup {NoOne}, Approve(t, key)
          PROVE  \E s : account' = [account EXCEPT ![t] = s]
      BY <3>3 DEF Approve
    <3>4. ASSUME NEW key \in Key \cup {NoOne}, SetCloseAuthority(t, key)
          PROVE  \E s : account' = [account EXCEPT ![t] = s]
      BY <3>4 DEF SetCloseAuthority
    <3>5. CASE CloseAccount(t)
      BY <3>5 DEF CloseAccount
    <3> QED BY <3>1, <3>2, <3>3, <3>4, <3>5
  <2> QED BY <2>1, <2>2 DEF TypeOK, TokenTypeOK
<1> QED BY <1>2, <1>3 DEF Tokens

(* No token instruction changes the authorities of a sealed mint, or mints *)
(* from it.                                                                *)
LEMMA TokensKeepSeals ==
    ASSUME TypeOK, Tokens, NEW p \in Amm, NEW w \in Mint, MintSealed(p, w)
    PROVE  MintSealed(p, w)' /\ mint'[w].supply <= mint[w].supply
<1>1. /\ mint[w] # NoOne /\ mint[w] \in MintState
      /\ mint[w].mint_authority = SwapAuthority(p) /\ mint[w].mint_authority \notin User
      /\ mint[w].freeze_authority = NoOne /\ mint[w].freeze_authority \notin User
  BY DerivedAddressIsNoUser DEF MintSealed, IsMint, TypeOK, TokenTypeOK
<1>2. SUFFICES ASSUME mint'[w] # mint[w] PROVE MintSealed(p, w)' /\ mint'[w].supply <= mint[w].supply
  BY <1>1 DEF MintSealed, IsMint, MintState
<1>3. UserBurns(w)
  <2>1. MintInstruction
    BY <1>2 DEF Tokens, AccountInstruction, InitializeAccount, SetAccountOwner, Approve,
                SetCloseAuthority, CloseAccount
  <2> PICK m \in Mint :
       \/ \E authority \in Key, freeze \in Key \cup {NoOne} : InitializeMint(m, authority, freeze)
       \/ \E key \in Key \cup {NoOne} : SetMintAuthority(m, key) \/ SetFreezeAuthority(m, key)
       \/ UserMints(m)
       \/ UserBurns(m)
    BY <2>1 DEF MintInstruction
  <2>2. m = w
    BY <1>2 DEF InitializeMint, SetMintAuthority, SetFreezeAuthority, UserMints, UserBurns, TypeOK, TokenTypeOK
  <2> QED BY <1>1, <2>2 DEF InitializeMint, SetMintAuthority, SetFreezeAuthority, UserMints, IsMint
<1>4. /\ mint'[w] = [mint[w] EXCEPT !.supply = @ - 1]
      /\ mint[w].supply \in Nat \ {0}
  BY <1>1, <1>3 DEF UserBurns, TypeOK, TokenTypeOK, MintState
<1>5. mint'[w] \in MintState
  BY <1>1, <1>4 DEF MintState
<1> QED BY <1>1, <1>4, <1>5, KeysAssumption DEF MintSealed, IsMint, MintState

(* `initialize` itself: of the pool it opens, everything the invariant     *)
(* asks was just validated; of another pool, it touches nothing.           *)
LEMMA ProgramStep ==
    ASSUME Inv, NEW q \in Amm, NEW c \in Accounts, NEW authority \in Key,
           InitializePool(q, c, authority)
    PROVE  /\ Inv'
           /\ opened[q] = NoOne
           /\ \A p \in Amm : opened[p] # NoOne => opened[p].pool_mint # c.pool_mint
<1>1. /\ c.pool_mint \in Mint /\ c.token_a \in Account /\ c.token_b \in Account
      /\ mint[c.pool_mint] \in MintState
  BY DEF Accounts, Inv, TypeOK, TokenTypeOK, InitializePool, Deserializes, IsMint
<1>2. TypeOK'
  <2>1. mint' \in [Mint -> MintState \cup {NoOne}]
    BY <1>1 DEF InitializePool, Inv, TypeOK, TokenTypeOK, MintState
  <2> QED BY <2>1 DEF InitializePool, Inv, TypeOK, TokenTypeOK
<1>3. opened[q] = NoOne
  BY DEF Inv, PoolSafe, InitializePool, Deserializes
<1>4. /\ VaultLocked(q, c.token_a) /\ VaultLocked(q, c.token_b)
      /\ account[c.token_a].mint # account[c.token_b].mint
      /\ MintSealed(q, c.pool_mint)
  BY DEF InitializePool, Deserializes, ValidateInputAccounts, VaultLocked, MintSealed
<1>5. account' = account
  BY DEF InitializePool
<1>6. ASSUME NEW p \in Amm, NEW m \in Mint, MintSealed(p, m) PROVE MintSealed(p, m)'
  <2>1. CASE m = c.pool_mint
    <3>1. mint'[m] = [mint[m] EXCEPT !.supply = @ + 1]
      BY <2>1 DEF InitializePool, Inv, TypeOK, TokenTypeOK
    <3>2. mint'[m] \in MintState
      BY <1>1, <2>1, <3>1 DEF MintState
    <3> QED BY <1>1, <1>6, <2>1, <3>1, <3>2, KeysAssumption DEF MintSealed, IsMint, MintState
  <2>2. CASE m # c.pool_mint
    BY <1>6, <2>2 DEF MintSealed, IsMint, InitializePool, Inv, TypeOK, TokenTypeOK
  <2> QED BY <2>1, <2>2
<1>7. ASSUME NEW p \in Amm PROVE PoolSafe(p)'
  <2>1. CASE p = q
    <3>1. opened'[p] = c /\ amm'[p].discriminator
      BY <2>1 DEF InitializePool, Inv, TypeOK
    <3>2. MintSealed(p, c.pool_mint)'
      BY <1>1, <1>4, <1>6, <2>1
    <3> QED BY <1>4, <1>5, <2>1, <3>1, <3>2 DEF PoolSafe, VaultLocked, IsAccount, MintSealed, IsMint
  <2>2. CASE p # q
    <3>1. opened'[p] = opened[p] /\ amm'[p] = amm[p]
      BY <2>2 DEF InitializePool, Inv, TypeOK
    <3>2. CASE opened[p] = NoOne
      BY <3>1, <3>2 DEF PoolSafe
    <3>3. CASE opened[p] # NoOne
      <4>1. opened[p] \in Accounts /\ opened[p].pool_mint \in Mint
        BY <3>3 DEF Inv, TypeOK, Accounts
      <4>2. PoolSafe(p)
        BY DEF Inv
      <4>3. MintSealed(p, opened[p].pool_mint)'
        <5> DEFINE m == opened[p].pool_mint
        <5>1. mint'[m] # NoOne /\ mint'[m].mint_authority = SwapAuthority(p) /\ mint'[m].freeze_authority = NoOne
          <6>1. MintSealed(p, m)
            BY <3>3, <4>2 DEF PoolSafe
          <6> HIDE DEF m
          <6>2. m \in Mint
            BY <4>1 DEF m
          <6> QED BY <1>6, <6>1, <6>2 DEF MintSealed, IsMint
        <5> QED BY <3>1, <5>1 DEF MintSealed, IsMint
      <4> QED BY <1>5, <3>1, <3>3, <4>2, <4>3 DEF PoolSafe, VaultLocked, IsAccount, MintSealed, IsMint
    <3> QED BY <3>2, <3>3
  <2> QED BY <2>1, <2>2
<1>8. ASSUME NEW p \in Amm, opened[p] # NoOne PROVE opened[p].pool_mint # c.pool_mint
  <2>1. MintSealed(p, opened[p].pool_mint)
    BY <1>8 DEF Inv, PoolSafe
  <2>2. p # q
    BY <1>3, <1>8
  <2> QED BY <1>4, <2>1, <2>2, SwapAuthorityAssumption DEF MintSealed
<1> QED BY <1>2, <1>3, <1>7, <1>8 DEF Inv

(* The invariant survives every token instruction. *)
LEMMA TokensStep == Inv /\ Tokens => Inv'
<1> SUFFICES ASSUME Inv, Tokens, NEW p \in Amm, opened[p] # NoOne PROVE PoolSafe(p)'
  BY TokensKeepTypes DEF Inv, PoolSafe, Tokens
<1> DEFINE c == opened[p]
<1>1. c \in Accounts /\ opened' = opened /\ amm' = amm /\ PoolSafe(p) /\ TypeOK
  BY DEF Inv, TypeOK, Tokens
<1>2. account'[c.token_a] = account[c.token_a] /\ account'[c.token_b] = account[c.token_b]
  <2>1. c.token_a \in Account /\ c.token_b \in Account
    BY <1>1 DEF Accounts
  <2>2. VaultLocked(p, c.token_a) /\ VaultLocked(p, c.token_b)
    BY <1>1 DEF PoolSafe
  <2> HIDE DEF c
  <2> QED BY <1>1, <2>1, <2>2, TokensKeepVaults
<1>3. mint'[c.pool_mint] # NoOne /\ mint'[c.pool_mint].mint_authority = SwapAuthority(p)
      /\ mint'[c.pool_mint].freeze_authority = NoOne
  <2>1. c.pool_mint \in Mint /\ MintSealed(p, c.pool_mint)
    BY <1>1 DEF Accounts, PoolSafe
  <2> DEFINE m == c.pool_mint
  <2> HIDE DEF m
  <2>2. m \in Mint /\ MintSealed(p, m)
    BY <2>1 DEF m
  <2>3. mint'[m] # NoOne /\ mint'[m].mint_authority = SwapAuthority(p) /\ mint'[m].freeze_authority = NoOne
    BY <1>1, <2>2, TokensKeepSeals DEF MintSealed, IsMint
  <2> QED BY <2>3 DEF m
<1> QED BY <1>1, <1>2, <1>3 DEF PoolSafe, VaultLocked, IsAccount, MintSealed, IsMint

(* The invariant holds in every reachable state; with it, the types. *)
THEOREM Invariance == Spec => []Inv
<1>1. Init => Inv
  BY DEF Init, TokenInit, Inv, TypeOK, TokenTypeOK, PoolSafe
<1>2. Inv /\ [Next]_vars => Inv'
  <2> SUFFICES ASSUME Inv, [Next]_vars PROVE Inv'
    OBVIOUS
  <2>1. CASE Program
    BY <2>1, ProgramStep DEF Program
  <2>2. CASE Tokens
    BY <2>2, TokensStep
  <2>3. CASE UNCHANGED vars
    BY <2>3 DEF vars, Inv, TypeOK, TokenTypeOK, PoolSafe, VaultLocked, MintSealed, IsAccount, IsMint
  <2> QED BY <2>1, <2>2, <2>3 DEF Next
<1> QED BY <1>1, <1>2, PTL DEF Spec

(* In particular the types.                                                *)
THEOREM TypeCorrect == Spec => []TypeOK
<1>1. Inv => TypeOK
  BY DEF Inv
<1> QED BY <1>1, Invariance, PTL

-----------------------------------------------------------------------------
(* However many users do whatever they may with token instructions, the    *)
(* vaults of an initialized pool stay under the program's address alone.   *)
THEOREM VaultsAreLocked == Spec => []VaultsStayLocked
<1>1. Inv => VaultsStayLocked
  BY DEF Inv, PoolSafe, VaultsStayLocked, VaultLocked
<1> QED BY <1>1, Invariance, PTL

(* Nobody gains the authority to mint or freeze a pool's tokens.           *)
THEOREM PoolMintIsSealed == Spec => []PoolMintStaysSealed
<1>1. Inv => PoolMintStaysSealed
  BY DEF Inv, PoolSafe, PoolMintStaysSealed, MintSealed
<1> QED BY <1>1, Invariance, PTL

(* The supply of an initialized pool's tokens never grows.                 *)
THEOREM SupplyNeverGrows == Spec => PoolTokensAreNeverMintedAgain
<1>1. ASSUME Inv, Next, NEW p \in Amm, opened[p] # NoOne
      PROVE  mint'[opened[p].pool_mint].supply <= mint[opened[p].pool_mint].supply
  <2> DEFINE m == opened[p].pool_mint
  <2>1. m \in Mint /\ MintSealed(p, m) /\ TypeOK
    BY <1>1 DEF Inv, TypeOK, Accounts, PoolSafe
  <2> HIDE DEF m
  <2>2. mint[m].supply \in Nat
    BY <2>1 DEF MintSealed, IsMint, TypeOK, TokenTypeOK, MintState
  <2>3. CASE Tokens
    BY <2>1, <2>3, TokensKeepSeals DEF m
  <2>4. CASE Program
    <3> PICK q \in Amm, c \in Accounts, authority \in Key : InitializePool(q, c, authority)
      BY <2>4 DEF Program
    <3>1. m # c.pool_mint
      BY <1>1, ProgramStep DEF m
    <3>2. mint'[m] = mint[m]
      BY <2>1, <3>1 DEF InitializePool, TypeOK, TokenTypeOK
    <3> QED BY <2>2, <3>2 DEF m
  <2> QED BY <1>1, <2>3, <2>4 DEF Next
<1>2. Inv /\ [Next]_vars
      => [\A p \in Amm : opened[p] # NoOne =>
             mint'[opened[p].pool_mint].supply <= mint[opened[p].pool_mint].supply]_vars
  BY <1>1
<1> QED BY <1>2, Invariance, PTL DEF Spec, PoolTokensAreNeverMintedAgain

(* No pool is initialized a second time.                                   *)
THEOREM PoolsOpenOnce == Spec => InitializedOnce
<1>1. ASSUME Inv, Next, NEW p \in Amm, opened[p] # NoOne PROVE opened'[p] = opened[p]
  <2>1. CASE Tokens
    BY <2>1 DEF Tokens
  <2>2. CASE Program
    <3> PICK q \in Amm, c \in Accounts, authority \in Key : InitializePool(q, c, authority)
      BY <2>2 DEF Program
    <3>1. q # p
      BY <1>1, ProgramStep
    <3> QED BY <1>1, <3>1 DEF InitializePool, Inv, TypeOK
  <2> QED BY <1>1, <2>1, <2>2 DEF Next
<1>2. Inv /\ [Next]_vars => [\A p \in Amm : opened[p] # NoOne => opened'[p] = opened[p]]_vars
  BY <1>1
<1> QED BY <1>2, Invariance, PTL DEF Spec, InitializedOnce

(* Vaults and pool token mints of different pools are different: each is   *)
(* under the one address derived from its own pool.                        *)
THEOREM PoolsStayDisjoint == Spec => []PoolsAreDisjoint
<1>1. Inv => PoolsAreDisjoint
  BY SwapAuthorityAssumption DEF Inv, PoolSafe, PoolsAreDisjoint, VaultLocked, MintSealed
<1> QED BY <1>1, Invariance, PTL

-----------------------------------------------------------------------------
(* The pools keep the promise of Custody: by the invariant, a pool has all *)
(* of its vaults and its mint, so that its custody only moves with the     *)
(* supply of its tokens; and as each is under the address of its own pool, *)
(* a new pool takes nothing that another one has.                          *)
CustodyWhole ==
    \A p \in Amm : opened[p] # NoOne =>
       CustodyOf(p) = [vaults |-> {opened[p].token_a, opened[p].token_b},
                       mints  |-> {opened[p].pool_mint},
                       tokens |-> mint[opened[p].pool_mint].supply]

LEMMA CustodyIsWhole == Inv => CustodyWhole
<1> SUFFICES ASSUME Inv, NEW p \in Amm, opened[p] # NoOne
             PROVE  CustodyOf(p) = [vaults |-> {opened[p].token_a, opened[p].token_b},
                                    mints  |-> {opened[p].pool_mint},
                                    tokens |-> mint[opened[p].pool_mint].supply]
  BY DEF CustodyWhole
<1>1. /\ VaultLocked(p, opened[p].token_a) /\ VaultLocked(p, opened[p].token_b)
      /\ MintSealed(p, opened[p].pool_mint)
  BY DEF Inv, PoolSafe
<1>2. /\ {t \in {opened[p].token_a, opened[p].token_b} : VaultLocked(p, t)}
           = {opened[p].token_a, opened[p].token_b}
      /\ {m \in {opened[p].pool_mint} : MintSealed(p, m)} = {opened[p].pool_mint}
  BY <1>1
<1> QED BY <1>2 DEF CustodyOf

LEMMA CustodyStaysWhole == Inv' => CustodyWhole'
BY CustodyIsWhole, PTL

(* Initialization opens a pool. *)
LEMMA ProgramOpens ==
    ASSUME Inv, NEW q \in Amm, NEW c \in Accounts, NEW authority \in Key,
           InitializePool(q, c, authority)
    PROVE  Kept!Open(q, c.token_a, c.token_b, c.pool_mint)
<1> DEFINE a == c.token_a
           b == c.token_b
           m == c.pool_mint
           old == {x \in Amm : opened[x] # NoOne}
<1>1. /\ Inv' /\ opened[q] = NoOne
      /\ \A p \in Amm : opened[p] # NoOne => opened[p].pool_mint # m
  BY ProgramStep
<1>2. /\ a \in Account /\ b \in Account /\ m \in Mint /\ c # NoOne
      /\ TypeOK
  BY NoOneAssumption DEF Accounts, Inv
<1>3. /\ opened' = [opened EXCEPT ![q] = c]
      /\ mint' = [mint EXCEPT ![m].supply = @ + 1]
      /\ account[a].owner = SwapAuthority(q) /\ account[b].owner = SwapAuthority(q)
      /\ a # b /\ mint[m].supply = 0
  BY DEF InitializePool, ValidateInputAccounts
<1> HIDE DEF a, b, m
<1>4. opened'[q] = c /\ \A p \in Amm : p # q => opened'[p] = opened[p]
  BY <1>2, <1>3 DEF TypeOK
<1>5. {x \in Amm : opened'[x] # NoOne} = old \cup {q}
  BY <1>1, <1>2, <1>4
<1>6. ASSUME NEW p \in old PROVE CustodyOf(p)' = CustodyOf(p)
  <2>1. p \in Amm /\ p # q /\ opened[p] # NoOne /\ opened'[p] = opened[p]
    BY <1>1, <1>4
  <2>2. mint'[opened[p].pool_mint].supply = mint[opened[p].pool_mint].supply
    <3>1. opened[p].pool_mint \in Mint /\ opened[p].pool_mint # m
      BY <1>1, <1>2, <2>1 DEF TypeOK, Accounts
    <3> QED BY <1>2, <1>3, <3>1 DEF TypeOK, TokenTypeOK
  <2> QED BY <1>1, <2>1, <2>2, CustodyIsWhole, CustodyStaysWhole DEF CustodyWhole
<1>7. CustodyOf(q)' = [vaults |-> {a, b}, mints |-> {m}, tokens |-> 1]
  <2>1. mint[m] \in MintState
    BY <1>2 DEF InitializePool, Deserializes, IsMint, TypeOK, TokenTypeOK, m
  <2>2. mint'[m].supply = 1
    BY <1>2, <1>3, <2>1 DEF MintState, TypeOK, TokenTypeOK
  <2> QED BY <1>1, <1>2, <1>4, <2>2, CustodyStaysWhole DEF CustodyWhole, a, b, m
<1>8. ASSUME NEW p \in old PROVE {a, b} \cap Held[p].vaults = {} /\ m \notin Held[p].mints
  <2>1. /\ p \in Amm /\ opened[p] # NoOne /\ p # q
        /\ Held[p].vaults = {opened[p].token_a, opened[p].token_b}
        /\ Held[p].mints = {opened[p].pool_mint}
    BY <1>1, CustodyIsWhole DEF CustodyWhole, Held
  <2>2. /\ account[opened[p].token_a].owner = SwapAuthority(p)
        /\ account[opened[p].token_b].owner = SwapAuthority(p)
    BY <2>1 DEF Inv, PoolSafe, VaultLocked
  <2>3. SwapAuthority(p) # SwapAuthority(q)
    BY <2>1, SwapAuthorityAssumption
  <2> QED BY <1>1, <1>3, <2>1, <2>2, <2>3
<1>9. Held' = [x \in old \cup {q} |-> IF x = q THEN [vaults |-> {a, b}, mints |-> {m}, tokens |-> 1]
                                       ELSE Held[x]]
  <2>1. Held' = [x \in old \cup {q} |-> CustodyOf(x)']
    BY <1>5 DEF Held
  <2>2. \A x \in old : Held[x] = CustodyOf(x)
    BY DEF Held
  <2> QED BY <1>1, <1>6, <1>7, <2>1, <2>2
<1>10. DOMAIN Held = old /\ q \notin old
  BY <1>1 DEF Held
<1> HIDE DEF old
<1> QED BY <1>3, <1>8, <1>9, <1>10 DEF Kept!Open, Kept!OpenPools, Kept!Free, a, b, m

(* A token instruction changes one mint at most. *)
LEMMA TokensChangeOneMint ==
    ASSUME TypeOK, Tokens, NEW m \in Mint, mint'[m] # mint[m], NEW w \in Mint, w # m
    PROVE  mint'[w] = mint[w]
<1>1. MintInstruction
  BY DEF Tokens, AccountInstruction, InitializeAccount, SetAccountOwner, Approve, SetCloseAuthority, CloseAccount
<1>2. PICK n \in Mint : \E s : mint' = [mint EXCEPT ![n] = s]
  <2> PICK n \in Mint :
       \/ \E authority \in Key, freeze \in Key \cup {NoOne} : InitializeMint(n, authority, freeze)
       \/ \E key \in Key \cup {NoOne} : SetMintAuthority(n, key) \/ SetFreezeAuthority(n, key)
       \/ UserMints(n)
       \/ UserBurns(n)
    BY <1>1 DEF MintInstruction
  <2>1. ASSUME NEW authority \in Key, NEW freeze \in Key \cup {NoOne}, InitializeMint(n, authority, freeze)
        PROVE  \E s : mint' = [mint EXCEPT ![n] = s]
    BY <2>1 DEF InitializeMint
  <2>2. ASSUME NEW key \in Key \cup {NoOne}, SetMintAuthority(n, key)
        PROVE  \E s : mint' = [mint EXCEPT ![n] = s]
    BY <2>2 DEF SetMintAuthority
  <2>3. ASSUME NEW key \in Key \cup {NoOne}, SetFreezeAuthority(n, key)
        PROVE  \E s : mint' = [mint EXCEPT ![n] = s]
    BY <2>3 DEF SetFreezeAuthority
  <2>4. CASE UserMints(n)
    BY <2>4 DEF UserMints
  <2>5. CASE UserBurns(n)
    BY <2>5 DEF UserBurns
  <2> QED BY <2>1, <2>2, <2>3, <2>4, <2>5
<1>3. n = m
  BY <1>2 DEF TypeOK, TokenTypeOK
<1> QED BY <1>2, <1>3 DEF TypeOK, TokenTypeOK

(* The tokens of a pool that an instruction changes fall by one. *)
LEMMA SupplyStep ==
    ASSUME TypeOK, Tokens, NEW p \in Amm, NEW w \in Mint, MintSealed(p, w), mint'[w].supply # mint[w].supply
    PROVE  mint[w].supply \in Nat \ {0} /\ mint'[w].supply = mint[w].supply - 1
<1>1. mint[w] \in MintState /\ mint[w].mint_authority \notin User /\ mint[w] # NoOne
      /\ mint[w].freeze_authority \notin User
  BY DerivedAddressIsNoUser DEF MintSealed, IsMint, TypeOK, TokenTypeOK
<1>2. UserBurns(w)
  <2>1. MintInstruction
    BY DEF Tokens, AccountInstruction, InitializeAccount, SetAccountOwner, Approve,
                SetCloseAuthority, CloseAccount
  <2> PICK m \in Mint :
       \/ \E authority \in Key, freeze \in Key \cup {NoOne} : InitializeMint(m, authority, freeze)
       \/ \E key \in Key \cup {NoOne} : SetMintAuthority(m, key) \/ SetFreezeAuthority(m, key)
       \/ UserMints(m)
       \/ UserBurns(m)
    BY <2>1 DEF MintInstruction
  <2>2. m = w
    BY DEF InitializeMint, SetMintAuthority, SetFreezeAuthority, UserMints, UserBurns, TypeOK, TokenTypeOK
  <2> QED BY <1>1, <2>2 DEF InitializeMint, SetMintAuthority, SetFreezeAuthority, UserMints, IsMint
<1>3. mint'[w] = [mint[w] EXCEPT !.supply = @ - 1] /\ mint[w].supply \in Nat \ {0}
  BY <1>1, <1>2 DEF UserBurns, TypeOK, TokenTypeOK, MintState
<1> QED BY <1>1, <1>3 DEF MintState

(* A token instruction burns tokens of one pool, or moves no custody. *)
LEMMA TokensBurn ==
    ASSUME Inv, Tokens
    PROVE  (\E p \in Kept!OpenPools : Kept!Burn(p)) \/ Held' = Held
<1> DEFINE old == {x \in Amm : opened[x] # NoOne}
           poolMint(p) == opened[p].pool_mint
<1>1. Inv' /\ opened' = opened /\ TypeOK
  BY TokensStep DEF Tokens, Inv
<1>2. ASSUME NEW p \in old
      PROVE  /\ poolMint(p) \in Mint /\ MintSealed(p, poolMint(p))
             /\ Held[p] = [vaults |-> {opened[p].token_a, opened[p].token_b},
                           mints |-> {poolMint(p)}, tokens |-> mint[poolMint(p)].supply]
             /\ CustodyOf(p)' = [vaults |-> {opened[p].token_a, opened[p].token_b},
                                 mints |-> {poolMint(p)}, tokens |-> mint'[poolMint(p)].supply]
  <2>1. poolMint(p) \in Mint /\ MintSealed(p, poolMint(p))
    BY <1>1 DEF TypeOK, Accounts, Inv, PoolSafe
  <2>2. Held[p] = CustodyOf(p)
    BY DEF Held
  <2> QED BY <1>1, <2>1, <2>2, CustodyIsWhole, CustodyStaysWhole DEF CustodyWhole
<1>3. Held' = [x \in old |-> CustodyOf(x)'] /\ Held = [x \in old |-> Held[x]]
  BY <1>1 DEF Held
<1>4. CASE \A p \in old : mint'[poolMint(p)].supply = mint[poolMint(p)].supply
  <2>1. \A p \in old : CustodyOf(p)' = Held[p]
    BY <1>2, <1>4
  <2> QED BY <1>3, <2>1
<1>5. ASSUME NEW p \in old, mint'[poolMint(p)].supply # mint[poolMint(p)].supply
      PROVE  p \in Kept!OpenPools /\ Kept!Burn(p)
  <2>1. /\ mint[poolMint(p)].supply \in Nat \ {0}
        /\ mint'[poolMint(p)].supply = mint[poolMint(p)].supply - 1
    BY <1>1, <1>2, <1>5, SupplyStep
  <2>2. ASSUME NEW x \in old, x # p PROVE CustodyOf(x)' = Held[x]
    <3>1. poolMint(x) # poolMint(p)
      <4>1. MintSealed(x, poolMint(x)) /\ MintSealed(p, poolMint(p)) /\ x \in Amm /\ p \in Amm
        BY <1>2, <2>2
      <4> HIDE DEF poolMint
      <4> QED BY <2>2, <4>1, SwapAuthorityAssumption DEF MintSealed
    <3>2. mint'[poolMint(x)] = mint[poolMint(x)]
      BY <1>1, <1>2, <1>5, <3>1, TokensChangeOneMint
    <3> QED BY <1>2, <3>2
  <2>3. /\ CustodyOf(p)' = [Held[p] EXCEPT !.tokens = @ - 1]
        /\ Held[p].tokens \in Nat \ {0}
    <3> DEFINE vaults == {opened[p].token_a, opened[p].token_b}
               n == mint[poolMint(p)].supply
               after == mint'[poolMint(p)].supply
    <3>1. /\ Held[p] = [vaults |-> vaults, mints |-> {poolMint(p)}, tokens |-> n]
          /\ CustodyOf(p)' = [vaults |-> vaults, mints |-> {poolMint(p)}, tokens |-> after]
          /\ n \in Nat \ {0} /\ after = n - 1
      BY <1>2, <2>1
    <3> HIDE DEF vaults, n, after, poolMint
    <3> QED BY <3>1
  <2>4. Held' = [Held EXCEPT ![p].tokens = @ - 1]
    BY <1>3, <2>2, <2>3
  <2>5. DOMAIN Held = old /\ Held[p].tokens > 0
    BY <2>3 DEF Held
  <2> QED BY <2>4, <2>5 DEF Kept!OpenPools, Kept!Burn
<1> QED BY <1>4, <1>5

(* The program, with whatever users give the token program around it,      *)
(* implements the promise of custody, for any number of pools.             *)
THEOREM PoolsKeepCustody == Spec => ImplementsCustody
<1>1. Init => Kept!Init
  BY DEF Init, Kept!Init, Held
<1>2. Inv /\ [Next]_vars => [Kept!Next]_Held
  <2> SUFFICES ASSUME Inv, [Next]_vars PROVE Kept!Next \/ Held' = Held
    OBVIOUS
  <2>1. CASE Program
    <3> PICK q \in Amm, c \in Accounts, authority \in Key : InitializePool(q, c, authority)
      BY <2>1 DEF Program
    <3>1. c.token_a \in Account /\ c.token_b \in Account /\ c.pool_mint \in Mint
      BY DEF Accounts
    <3> QED BY <3>1, ProgramOpens DEF Kept!Next
  <2>2. CASE Tokens
    BY <2>2, TokensBurn DEF Kept!Next
  <2>3. CASE UNCHANGED vars
    BY <2>3 DEF vars, Held, CustodyOf, VaultLocked, MintSealed, IsAccount, IsMint
  <2> QED BY <2>1, <2>2, <2>3 DEF Next
<1> QED BY <1>1, <1>2, Invariance, PTL DEF Spec, ImplementsCustody, Kept!Spec
=============================================================================
