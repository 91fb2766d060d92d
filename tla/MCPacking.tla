----------------------------- MODULE MCPacking -----------------------------
(***************************************************************************)
(* An instance of Packing for TLC: bytes of five values, of which one is   *)
(* no curve type, two to a u64, and one byte no calculator uses.           *)
(***************************************************************************)
EXTENDS Packing

MCToLe(n)   == [i \in 0..1 |-> IF i = 0 THEN n % 5 ELSE n \div 5]
MCFromLe(s) == s[0] + 5 * s[1]

Fee(n, d) == [numerator |-> n, denominator |-> d]
MCFeeChoices ==
    {[trade_fee |-> Fee(1, 4), owner_trade_fee |-> Fee(2, 5),
      owner_withdraw_fee |-> Fee(4, 10), host_fee |-> Fee(7, 24)],
     [trade_fee |-> Fee(0, 0), owner_trade_fee |-> Fee(24, 24),
      owner_withdraw_fee |-> Fee(0, 1), host_fee |-> Fee(5, 0)]}
MCCurves == Curve
=============================================================================
