---------------------------- MODULE PoolHistory ----------------------------
(***************************************************************************)
(* Pool with a record of the state it opened in, for what a whole sequence *)
(* of calls can and cannot do to it.                                       *)
(***************************************************************************)
EXTENDS Pool

VARIABLE opening  \* the reserves and the supply at creation; never changes

HistoryInit == Init /\ opening = [token_a |-> token_a, token_b |-> token_b, supply |-> pool_supply]
HistoryNext == Next /\ UNCHANGED opening
HistorySpec == HistoryInit /\ [][HistoryNext]_<<vars, opening>>

(* No sequence of swaps and two sided deposits and withdrawals, by one     *)
(* caller or several, leaves a pool on a multiplicative curve with less of *)
(* one token, no more of the other, and no fewer pool tokens to honour: a  *)
(* round trip can only leave something behind.                             *)
RoundTripsLeaveNothingOwed ==
    /\ Multiplicative(curve)
    /\ token_a <= opening.token_a
    /\ token_b <= opening.token_b
    /\ pool_supply >= opening.supply
    => /\ token_a = opening.token_a
       /\ token_b = opening.token_b
       /\ pool_supply = opening.supply
=============================================================================
