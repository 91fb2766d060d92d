----------------------------- MODULE Initialize -----------------------------
(***************************************************************************)
(* lib.rs: the program's one instruction, `initialize`, among whatever     *)
(* users do to mints and token accounts before and after it.               *)
(***************************************************************************)
EXTENDS SplToken

CONSTANTS Amm,                \* addresses of accounts the program owns, sized for an Amm
          SwapAuthority(_)    \* find_program_address of such an address

ASSUME SwapAuthorityAssumption ==
    /\ \A p \in Amm : SwapAuthority(p) \in Authority
    /\ \A p, q \in Amm : SwapAuthority(p) = SwapAuthority(q) => p = q

VARIABLES amm,     \* of each Amm address, the data the instruction reads or writes
          opened   \* of each Amm address, the accounts it was initialized with; the
                   \* Amm has fields for them but the program writes none

vars == <<mint, account, amm, opened>>

Accounts == [pool_mint : Mint, token_a : Account, token_b : Account,
             fee_account : Account, destination : Account]

ASSUME NoOneAssumption == NoOne \notin Accounts

(* The state is well typed, and every pool on record carries the           *)
(* discriminator: nothing else in its data tells that it was initialized.  *)
TypeOK ==
    /\ TokenTypeOK
    /\ amm \in [Amm -> [discriminator : BOOLEAN, is_initialized : BOOLEAN]]
    /\ opened \in [Amm -> Accounts \cup {NoOne}]
    /\ \A p \in Amm : opened[p] # NoOne => amm[p].discriminator

Init ==
    /\ TokenInit
    /\ amm = [p \in Amm |-> [discriminator |-> FALSE, is_initialized |-> FALSE]]
    /\ opened = [p \in Amm |-> NoOne]

(* The accounts deserialize as what the instruction declares them to be,   *)
(* and the `zero` constraint takes only an Amm with no discriminator yet.  *)
(* That the Amm has to sign (lib.rs:72) is left out: more calls get in.    *)
Deserializes(p, c) ==
    /\ ~amm[p].discriminator
    /\ IsMint(c.pool_mint)
    /\ IsAccount(c.token_a) /\ IsAccount(c.token_b)
    /\ IsAccount(c.fee_account) /\ IsAccount(c.destination)

(* A faulty validation that stops at the owners. *)
ValidateOwnersOnly(p, c, authority) ==
    /\ authority = SwapAuthority(p)
    /\ account[c.token_a].owner = authority /\ account[c.token_b].owner = authority
    /\ mint[c.pool_mint].mint_authority = authority

ValidateInputAccounts(p, c, authority) ==
    LET a == account[c.token_a]
        b == account[c.token_b]
        lp == mint[c.pool_mint]
    IN  /\ ~amm[p].is_initialized
        /\ authority = SwapAuthority(p)
        /\ a.owner = authority /\ b.owner = authority
        /\ ~(account[c.fee_account].owner = authority /\ account[c.destination].owner = authority)
        /\ lp.mint_authority = authority
        /\ a.mint # b.mint
        /\ a.delegate = NoOne /\ b.delegate = NoOne
        /\ a.close_authority = NoOne /\ b.close_authority = NoOne
        /\ lp.supply = 0
        /\ lp.freeze_authority = NoOne
        /\ account[c.fee_account].mint = c.pool_mint

(* A faulty initialization that leaves the Amm as it found it. *)
InitializePoolUnmarked(p, c, authority) ==
    /\ Deserializes(p, c)
    /\ ValidateInputAccounts(p, c, authority)
    /\ mint' = [mint EXCEPT ![c.pool_mint].supply = @ + 1]
    /\ opened' = [opened EXCEPT ![p] = c]
    /\ UNCHANGED <<account, amm>>

(* One pool token is minted to the destination, which the token program    *)
(* requires to be of that mint; on success Anchor writes the discriminator *)
(* back.  The fields of the Amm, is_initialized among them, stay zero.     *)
InitializePool(p, c, authority) ==
    /\ Deserializes(p, c)
    /\ ValidateInputAccounts(p, c, authority)
    /\ account[c.destination].mint = c.pool_mint
    /\ mint' = [mint EXCEPT ![c.pool_mint].supply = @ + 1]
    /\ amm' = [amm EXCEPT ![p].discriminator = TRUE]
    /\ opened' = [opened EXCEPT ![p] = c]
    /\ UNCHANGED account

Program == \E p \in Amm, c \in Accounts, authority \in Key : InitializePool(p, c, authority)
Tokens  == (MintInstruction \/ AccountInstruction) /\ UNCHANGED <<amm, opened>>

Next == Program \/ Tokens

Spec == Init /\ [][Next]_vars

-----------------------------------------------------------------------------
(* An account that no key but the address of the pool can move tokens out  *)
(* of, delegate or close; a mint whose tokens none but it can mint, and    *)
(* nobody freeze.                                                          *)
VaultLocked(p, t) ==
    /\ IsAccount(t)
    /\ account[t].owner = SwapAuthority(p)
    /\ account[t].delegate = NoOne
    /\ account[t].close_authority = NoOne

MintSealed(p, m) ==
    /\ IsMint(m)
    /\ mint[m].mint_authority = SwapAuthority(p)
    /\ mint[m].freeze_authority = NoOne

(* The vaults of an initialized pool stay what initialize checked them to  *)
(* be: two accounts of different mints that only the program's derived     *)
(* address controls, whatever the users who once controlled them do        *)
(* afterwards.                                                             *)
VaultsStayLocked ==
    \A p \in Amm : opened[p] # NoOne =>
       /\ VaultLocked(p, opened[p].token_a)
       /\ VaultLocked(p, opened[p].token_b)
       /\ account[opened[p].token_a].mint # account[opened[p].token_b].mint

(* No one but the program can ever mint the pool tokens of an initialized  *)
(* pool, or freeze them.                                                   *)
PoolMintStaysSealed ==
    \A p \in Amm : opened[p] # NoOne => MintSealed(p, opened[p].pool_mint)

(* The one pool token minted at initialization is the only one there will  *)
(* be, even after its holder burns it and the mint is at zero again.       *)
PoolTokensAreNeverMintedAgain ==
    [][\A p \in Amm : opened[p] # NoOne =>
          mint'[opened[p].pool_mint].supply <= mint[opened[p].pool_mint].supply]_vars

(* A pool is initialized at most once: it is never moved to other accounts.*)
InitializedOnce ==
    [][\A p \in Amm : opened[p] # NoOne => opened'[p] = opened[p]]_vars

(* Two pools share neither a vault nor a mint of pool tokens.              *)
PoolsAreDisjoint ==
    \A p, q \in Amm : p # q /\ opened[p] # NoOne /\ opened[q] # NoOne =>
       /\ opened[p].pool_mint # opened[q].pool_mint
       /\ {opened[p].token_a, opened[p].token_b} \cap {opened[q].token_a, opened[q].token_b} = {}

(* The pools keep the promise of Custody, a pool counted to have only what *)
(* its derived address controls: no two pools get hold of the same vault   *)
(* or mint, and neither initialize nor any token instruction takes from a  *)
(* pool what it has.                                                       *)
CustodyOf(p) ==
    [vaults |-> {t \in {opened[p].token_a, opened[p].token_b} : VaultLocked(p, t)},
     mints  |-> {m \in {opened[p].pool_mint} : MintSealed(p, m)},
     tokens |-> mint[opened[p].pool_mint].supply]

Held == [p \in {x \in Amm : opened[x] # NoOne} |-> CustodyOf(p)]

Kept == INSTANCE Custody WITH custody <- Held

ImplementsCustody == Kept!Spec

-----------------------------------------------------------------------------
(* As the comment on Amm::is_initialized has it (lib.rs:149), the field    *)
(* says whether the swap is initialized, with data written to it.          *)
FieldTellsInitialized ==
    \A p \in Amm : amm[p].discriminator => amm[p].is_initialized

(* As the message of InvalidOutputOwner has it (error.rs), the owner of an *)
(* output pool account cannot be the program's address.                    *)
OutputsNotOwnedByProgram ==
    [][\A p \in Amm : opened'[p] # opened[p] =>
          /\ account[opened'[p].fee_account].owner # SwapAuthority(p)
          /\ account[opened'[p].destination].owner # SwapAuthority(p)]_vars
=============================================================================
