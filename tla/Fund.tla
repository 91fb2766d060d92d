-------------------------------- MODULE Fund --------------------------------
(***************************************************************************)
(* What a pool of two tokens promises the holders of its shares, without   *)
(* the curve, the fees and the rounding that bring it about: trading never *)
(* lowers the product of the two sides, issuing and redeeming shares never *)
(* lowers what a share has of either side, and the fund ends, for good,    *)
(* when it pays the last of both sides for the last share.                 *)
(***************************************************************************)
EXTENDS Naturals

VARIABLES side_a, side_b, shares

fundVars == <<side_a, side_b, shares>>

Open   == side_a > 0 /\ side_b > 0 /\ shares > 0
Closed == side_a = 0 /\ side_b = 0 /\ shares = 0

Init == side_a \in Nat /\ side_b \in Nat /\ shares \in Nat /\ Open

Exchange ==
    /\ Open
    /\ side_a' \in Nat /\ side_b' \in Nat
    /\ side_a' * side_b' >= side_a * side_b
    /\ UNCHANGED shares

(* With more shares each side grows in proportion, with fewer it shrinks   *)
(* in proportion, or better for those who stay.                            *)
IssueOrRedeem ==
    /\ Open
    /\ side_a' \in Nat /\ side_b' \in Nat /\ shares' \in Nat
    /\ side_a' * shares >= side_a * shares'
    /\ side_b' * shares >= side_b * shares'
    /\ Open' \/ Closed'

Next == Exchange \/ IssueOrRedeem

Spec == Init /\ [][Next]_fundVars
=============================================================================
