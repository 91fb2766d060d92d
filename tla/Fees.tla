-------------------------------- MODULE Fees --------------------------------
(***************************************************************************)
(* curve/fees.rs: the four fee fractions of a pool and what they charge.   *)
(***************************************************************************)
EXTENDS CheckedMath

Fraction  == [numerator : U64, denominator : U64]
CurveFees == [trade_fee : Fraction, owner_trade_fee : Fraction,
              owner_withdraw_fee : Fraction, host_fee : Fraction]

(* A fee that applies to something is at least one token. *)
CalculateFee(token_amount, f) ==
    IF f.numerator = 0 \/ token_amount = 0 THEN {0}
    ELSE IF f.denominator = 0 \/ token_amount * f.numerator > MaxU128 THEN {}
    ELSE LET fee == (token_amount * f.numerator) \div f.denominator
         IN  {IF fee = 0 THEN 1 ELSE fee}

(* A faulty validation that lets a fee be all of the amount. *)
ValidateFractionUpToOne(f) ==
    \/ f.numerator = 0 /\ f.denominator = 0
    \/ f.numerator <= f.denominator

ValidateFraction(f) ==
    \/ f.numerator = 0 /\ f.denominator = 0
    \/ f.numerator < f.denominator

ValidateFees(fees) == \A name \in DOMAIN fees : ValidateFraction(fees[name])

TradingFee(fees, trading_tokens)       == CalculateFee(trading_tokens, fees.trade_fee)
OwnerTradingFee(fees, trading_tokens)  == CalculateFee(trading_tokens, fees.owner_trade_fee)
OwnerWithdrawFee(fees, pool_tokens)    == CalculateFee(pool_tokens, fees.owner_withdraw_fee)
HostFee(fees, owner_fee)               == CalculateFee(owner_fee, fees.host_fee)
=============================================================================
