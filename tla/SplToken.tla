------------------------------ MODULE SplToken ------------------------------
(***************************************************************************)
(* External: the mints and accounts of the SPL token program, as far as    *)
(* the fields that `initialize` reads can change.  Every instruction needs *)
(* the signature of the authority it names.  A user can sign; the address  *)
(* a program derives cannot, except where that program signs for it.       *)
(* Account balances are left out: a user may burn any supply there is, and *)
(* close any account it has the authority to close, which is more than the *)
(* token program would let it do.                                          *)
(***************************************************************************)
EXTENDS Naturals

CONSTANTS Mint,        \* addresses of mints
          Account,     \* addresses of token accounts
          User,        \* keys whose holders can sign
          Authority,   \* addresses derived by the swap program, one per pool
          NoOne,       \* COption::None, and the state of an unallocated address
          MaxMinted    \* bound: users mint only while the supply is below it

Key == User \cup Authority

MintState == [mint_authority : Key \cup {NoOne}, freeze_authority : Key \cup {NoOne},
              supply : Nat]
AccountState == [mint : Mint, owner : Key, delegate : User \cup {NoOne},
                 close_authority : Key \cup {NoOne}]

ASSUME KeysAssumption ==
    /\ User \cap Authority = {}
    /\ NoOne \notin User \cup Authority
    /\ NoOne \notin MintState \cup AccountState
    /\ MaxMinted \in Nat

VARIABLES mint,     \* of each mint address, its state or NoOne
          account   \* of each account address, its state or NoOne

tokenVars == <<mint, account>>

IsMint(m)    == mint[m] # NoOne
IsAccount(t) == account[t] # NoOne

TokenTypeOK ==
    /\ mint \in [Mint -> MintState \cup {NoOne}]
    /\ account \in [Account -> AccountState \cup {NoOne}]

TokenInit ==
    /\ mint = [m \in Mint |-> NoOne]
    /\ account = [t \in Account |-> NoOne]

(* Anyone may create a mint or an account in anyone's name. *)
InitializeMint(m, authority, freeze) ==
    /\ ~IsMint(m)
    /\ mint' = [mint EXCEPT ![m] = [mint_authority |-> authority, freeze_authority |-> freeze,
                                    supply |-> 0]]
    /\ UNCHANGED account

InitializeAccount(t, m, owner) ==
    /\ ~IsAccount(t)
    /\ IsMint(m)
    /\ account' = [account EXCEPT ![t] = [mint |-> m, owner |-> owner, delegate |-> NoOne,
                                          close_authority |-> NoOne]]
    /\ UNCHANGED mint

(* Authorities of a mint can be passed on or given up, each by its holder. *)
SetMintAuthority(m, key) ==
    /\ IsMint(m) /\ mint[m].mint_authority \in User
    /\ mint' = [mint EXCEPT ![m].mint_authority = key]
    /\ UNCHANGED account

SetFreezeAuthority(m, key) ==
    /\ IsMint(m) /\ mint[m].freeze_authority \in User
    /\ mint' = [mint EXCEPT ![m].freeze_authority = key]
    /\ UNCHANGED account

(* The supply moves by the signature of a user: minted by the authority,   *)
(* burned by a holder.                                                     *)
UserMints(m) ==
    /\ IsMint(m) /\ mint[m].mint_authority \in User
    /\ mint[m].supply < MaxMinted
    /\ mint' = [mint EXCEPT ![m].supply = @ + 1]
    /\ UNCHANGED account

UserBurns(m) ==
    /\ IsMint(m) /\ mint[m].supply > 0
    /\ mint' = [mint EXCEPT ![m].supply = @ - 1]
    /\ UNCHANGED account

(* A change of owner revokes the delegate and keeps the close authority. *)
SetAccountOwner(t, key) ==
    /\ IsAccount(t) /\ account[t].owner \in User
    /\ account' = [account EXCEPT ![t].owner = key, ![t].delegate = NoOne]
    /\ UNCHANGED mint

(* A delegate is only asked for being there: a user stands for all. *)
Approve(t, key) ==
    /\ IsAccount(t) /\ account[t].owner \in User
    /\ account' = [account EXCEPT ![t].delegate = key]
    /\ UNCHANGED mint

(* The close authority of an account, its owner unless another is named. *)
Closer(t) == IF account[t].close_authority = NoOne THEN account[t].owner
             ELSE account[t].close_authority

SetCloseAuthority(t, key) ==
    /\ IsAccount(t) /\ Closer(t) \in User
    /\ account' = [account EXCEPT ![t].close_authority = key]
    /\ UNCHANGED mint

CloseAccount(t) ==
    /\ IsAccount(t) /\ Closer(t) \in User
    /\ account' = [account EXCEPT ![t] = NoOne]
    /\ UNCHANGED mint

MintInstruction ==
    \E m \in Mint :
       \/ \E authority \in Key, freeze \in Key \cup {NoOne} : InitializeMint(m, authority, freeze)
       \/ \E key \in Key \cup {NoOne} : SetMintAuthority(m, key) \/ SetFreezeAuthority(m, key)
       \/ UserMints(m)
       \/ UserBurns(m)

AccountInstruction ==
    \E t \in Account :
       \/ \E m \in Mint, owner \in Key : InitializeAccount(t, m, owner)
       \/ \E key \in Key : SetAccountOwner(t, key)
       \/ \E key \in User \cup {NoOne} : Approve(t, key)
       \/ \E key \in Key \cup {NoOne} : SetCloseAuthority(t, key)
       \/ CloseAccount(t)
=============================================================================
