------------------------------- MODULE MCPool -------------------------------
(***************************************************************************)
(* Instances of Pool for TLC.  Widths are scaled down together: a u128     *)
(* still holds the product of two u64, and a U256 that of two u128.        *)
(***************************************************************************)
EXTENDS Pool

Fee(n, d) == [numerator |-> n, denominator |-> d]
Free == Fee(0, 0)
NoFees == [trade_fee |-> Free, owner_trade_fee |-> Free,
           owner_withdraw_fee |-> Free, host_fee |-> Free]
SomeFees == [trade_fee |-> Fee(1, 4), owner_trade_fee |-> Fee(1, 6),
             owner_withdraw_fee |-> Fee(2, 3), host_fee |-> Fee(1, 5)]
HighFees == [NoFees EXCEPT !.trade_fee = Fee(3, 4), !.owner_trade_fee = Fee(3, 4)]
InvalidFees == [NoFees EXCEPT !.trade_fee = Fee(3, 3)]

MCFeeChoices == {NoFees, SomeFees, InvalidFees}
OnlyNoFees   == {NoFees}
OnlySomeFees == {SomeFees}
OnlyHighFees == {HighFees}

Product == [curve_type |-> "ConstantProduct", param |-> 0]
Price(p)  == [curve_type |-> "ConstantPrice", param |-> p]
Stable(amp) == [curve_type |-> "Stable", param |-> amp]
Offset(o) == [curve_type |-> "Offset", param |-> o]

RatioCurves == {Product, Offset(0), Offset(3), Offset(7)}
StableCurves == {Stable(amp) : amp \in 0..4}
FormulaCurves == RatioCurves \cup {Price(0), Price(1), Price(2), Price(3)}
PriceCurves == {Price(0), Price(1), Price(2), Price(3)}
=============================================================================
