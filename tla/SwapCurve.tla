----------------------------- MODULE SwapCurve -----------------------------
(***************************************************************************)
(* curve/base.rs, curve/offset.rs and the trait of curve/calculator.rs:    *)
(* the four operations of a pool's curve, dispatched on its type, with the *)
(* fees taken out first.  A curve is a record of its type and of the one   *)
(* u64 its calculator keeps: the price, the amplifier, or the offset of    *)
(* token B.                                                                *)
(***************************************************************************)
EXTENDS Fees, ConstantProduct, ConstantPrice, Stable

TradeDirection == {"AtoB", "BtoA"}
Opposite(direction) == IF direction = "AtoB" THEN "BtoA" ELSE "AtoB"

CurveType == {"ConstantProduct", "ConstantPrice", "Stable", "Offset"}
Curve == {c \in [curve_type : CurveType, param : U64] :
            c.curve_type = "ConstantProduct" => c.param = 0}

(* The curves that keep the product of the two sides. *)
Multiplicative(curve) == curve.curve_type \in {"ConstantProduct", "Offset"}

(* What a curve adds to the token B side before it calculates. *)
TokenBOffset(curve) == IF curve.curve_type = "Offset" THEN curve.param ELSE 0

(* Every amplifier passes, zero too. *)
ValidateCurve(curve) == curve.curve_type \in {"ConstantPrice", "Offset"} => curve.param > 0

(* The constant price and the offset curve open without token B. *)
ValidateSupply(curve, token_a, token_b) ==
    /\ token_a > 0
    /\ curve.curve_type \in {"ConstantProduct", "Stable"} => token_b > 0

AllowsDeposits(curve) == curve.curve_type # "Offset"

(* The side that a trade in this direction takes its source from. *)
SourceSide(direction, side_a, side_b) == IF direction = "AtoB" THEN side_a ELSE side_b

(* A faulty swap that counts the offset only where it pays token B out. *)
SwapOffsetPaidOutOnly(curve, source_amount, swap_source, swap_destination, direction) ==
    ProductSwap(source_amount, swap_source,
                swap_destination + SourceSide(direction, TokenBOffset(curve), 0))

SwapWithoutFees(curve, source_amount, swap_source, swap_destination, direction) ==
    IF curve.curve_type = "ConstantPrice"
    THEN PriceSwap(curve.param, source_amount, direction)
    ELSE IF curve.curve_type = "Stable"
    THEN StableSwap(curve.param, source_amount, swap_source, swap_destination)
    ELSE ProductSwap(source_amount,
                     swap_source + SourceSide(direction, 0, TokenBOffset(curve)),
                     swap_destination + SourceSide(direction, TokenBOffset(curve), 0))

(* The stable calculator repeats the conversion of the constant product    *)
(* one, line for line.                                                     *)
PoolTokensToTradingTokens(curve, pool_tokens, pool_supply, held_a, held_b, round) ==
    IF curve.curve_type = "ConstantPrice"
    THEN PricePoolTokensToTradingTokens(curve.param, pool_tokens, pool_supply, held_a, held_b, round)
    ELSE ProductPoolTokensToTradingTokens(pool_tokens, pool_supply, held_a,
                                          held_b + TokenBOffset(curve), round)

DepositWithoutFees(curve, source_amount, held_a, held_b, pool_supply, direction) ==
    IF curve.curve_type = "ConstantPrice"
    THEN TradingTokensToPoolTokens(curve.param, source_amount, held_a, held_b,
                                   pool_supply, direction, "Floor")
    ELSE IF curve.curve_type = "Stable"
    THEN StableDepositSingle(curve.param, source_amount, held_a, held_b, pool_supply, direction)
    ELSE ProductDepositSingle(source_amount,
                              SourceSide(direction, held_a, held_b + TokenBOffset(curve)),
                              pool_supply)

WithdrawWithoutFees(curve, source_amount, held_a, held_b, pool_supply, direction) ==
    IF curve.curve_type = "ConstantPrice"
    THEN TradingTokensToPoolTokens(curve.param, source_amount, held_a, held_b,
                                   pool_supply, direction, "Ceiling")
    ELSE IF curve.curve_type = "Stable"
    THEN StableWithdrawSingle(curve.param, source_amount, held_a, held_b, pool_supply, direction)
    ELSE ProductWithdrawSingle(source_amount,
                               SourceSide(direction, held_a, held_b + TokenBOffset(curve)),
                               pool_supply)

(* Both fees come out of the source amount before the trade and are added *)
(* to what the trade charges, so that they stay in the pool.               *)
SwapAfterFees(curve, source_amount, trade_fee, owner_fee, swap_source, swap_destination, direction) ==
    LET total_fees == trade_fee + owner_fee
        trades == IF total_fees > source_amount THEN {}
                  ELSE SwapWithoutFees(curve, source_amount - total_fees,
                                       swap_source, swap_destination, direction)
    IN  {r \in {[new_source      |-> swap_source + t.source + total_fees,
                 new_destination |-> swap_destination - t.destination,
                 source          |-> t.source + total_fees,
                 destination     |-> t.destination,
                 trade_fee       |-> trade_fee,
                 owner_fee       |-> owner_fee] : t \in trades} :
           r.new_source <= MaxU128 /\ r.new_destination >= 0}

SwapWithFees(curve, fees, source_amount, swap_source, swap_destination, direction) ==
    UNION {SwapAfterFees(curve, source_amount, fee[1], fee[2], swap_source, swap_destination, direction) :
             fee \in TradingFee(fees, source_amount) \X OwnerTradingFee(fees, source_amount)}

(* A single sided operation pays the trading fee on half of its amount.    *)
LessHalfFee(fees, source_amount) ==
    LET half == IF source_amount < 2 THEN 1 ELSE source_amount \div 2
    IN  {source_amount - fee : fee \in {f \in TradingFee(fees, half) : f <= source_amount}}

DepositSingleTokenType(curve, fees, source_amount, held_a, held_b, pool_supply, direction) ==
    IF source_amount = 0 THEN {0}
    ELSE UNION {DepositWithoutFees(curve, less, held_a, held_b, pool_supply, direction) :
                  less \in LessHalfFee(fees, source_amount)}

WithdrawSingleTokenTypeExactOut(curve, fees, source_amount, held_a, held_b, pool_supply, direction) ==
    IF source_amount = 0 THEN {0}
    ELSE UNION {WithdrawWithoutFees(curve, less, held_a, held_b, pool_supply, direction) :
                  less \in LessHalfFee(fees, source_amount)}
=============================================================================
