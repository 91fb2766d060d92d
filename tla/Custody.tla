------------------------------ MODULE Custody ------------------------------
(***************************************************************************)
(* What initialization promises of the pools of the program, without token *)
(* instructions, keys and checks: a pool is opened once, with two vaults   *)
(* and a mint of its own and one pool token; from then on it has them, and *)
(* all that can happen is that pool tokens are burned.                     *)
(***************************************************************************)
EXTENDS Naturals

CONSTANTS Amm, Account, Mint

VARIABLE custody  \* of each pool that is open, what it has and its pool tokens

OpenPools == DOMAIN custody

Init == custody = [p \in {} |-> 0]

(* Not held by any pool that is open. *)
Free(vaults, m) ==
    \A p \in OpenPools : /\ vaults \cap custody[p].vaults = {}
                         /\ m \notin custody[p].mints

Open(p, a, b, m) ==
    /\ p \notin OpenPools
    /\ a # b
    /\ Free({a, b}, m)
    /\ custody' = [x \in OpenPools \cup {p} |->
                      IF x = p THEN [vaults |-> {a, b}, mints |-> {m}, tokens |-> 1]
                      ELSE custody[x]]

Burn(p) ==
    /\ p \in OpenPools
    /\ custody[p].tokens > 0
    /\ custody' = [custody EXCEPT ![p].tokens = @ - 1]

Next ==
    \/ \E p \in Amm, a \in Account, b \in Account, m \in Mint : Open(p, a, b, m)
    \/ \E p \in OpenPools : Burn(p)

Spec == Init /\ [][Next]_custody
=============================================================================
