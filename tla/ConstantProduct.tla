-------------------------- MODULE ConstantProduct --------------------------
(***************************************************************************)
(* curve/constant_product.rs: the x * y = k calculator and the free        *)
(* functions the offset and stable curves share with it.                   *)
(***************************************************************************)
EXTENDS PreciseNumber

(* A faulty swap: the quotient truncated, and the whole offer charged. *)
ProductSwapTruncated(source_amount, swap_source, swap_destination) ==
    {[source |-> source_amount, destination |-> swap_destination - quotient] :
        quotient \in {(swap_source * swap_destination) \div (swap_source + source_amount)}
                       \cap 0..(swap_destination - 1)}

(* Swap source_amount into a pool holding the two given amounts.  The      *)
(* destination side keeps the quotient k / (source + source_amount),       *)
(* rounded up; the source side is then charged only the least amount that  *)
(* yields that quotient.  A trade that yields nothing is None.             *)
ProductSwap(source_amount, swap_source, swap_destination) ==
    LET invariant  == swap_source * swap_destination
        new_source == swap_source + source_amount
    IN  {[source      |-> d.divisor - swap_source,
          destination |-> swap_destination - d.quotient] :
            d \in {c \in CheckedCeilDiv(invariant, new_source) :
                     /\ invariant <= MaxU128
                     /\ new_source <= MaxU128
                     /\ c.divisor >= swap_source
                     /\ c.quotient < swap_destination}}

(* A faulty share, its two rounding directions mixed up.                   *)
ShareRoundedForTheCaller(pool_tokens, pool_supply, held, round) ==
    IF round = "Floor"
    THEN Ceiling(pool_tokens * held, pool_supply)
    ELSE (pool_tokens * held) \div pool_supply

(* A faulty share that skips the ceiling for a small amount, not just for none. *)
ShareOfOneNotRoundedUp(pool_tokens, pool_supply, held, round) ==
    LET floor == (pool_tokens * held) \div pool_supply
    IN  IF round = "Ceiling" /\ floor > 1
        THEN Ceiling(pool_tokens * held, pool_supply)
        ELSE floor

(* pool_tokens of pool_supply, as an amount of a side holding `held`.  The *)
(* ceiling is not applied to an amount that floors to 0: that deposit is   *)
(* left at 0 for the caller to reject.                                     *)
ShareOf(pool_tokens, pool_supply, held, round) ==
    LET floor == (pool_tokens * held) \div pool_supply
    IN  IF /\ round = "Ceiling"
           /\ (pool_tokens * held) % pool_supply > 0
           /\ floor > 0
        THEN floor + 1
        ELSE floor

(* A faulty conversion whose products have to fit a u64.                   *)
ProductPoolTokensInU64(pool_tokens, pool_supply, held_a, held_b, round) ==
    IF /\ pool_supply > 0
       /\ pool_tokens * held_a <= MaxU64
       /\ pool_tokens * held_b <= MaxU64
    THEN {[token_a |-> ShareOf(pool_tokens, pool_supply, held_a, round),
           token_b |-> ShareOf(pool_tokens, pool_supply, held_b, round)]}
    ELSE {}

(* The amounts of both sides that pool_tokens stand for. *)
ProductPoolTokensToTradingTokens(pool_tokens, pool_supply, held_a, held_b, round) ==
    IF /\ pool_supply > 0
       /\ pool_tokens * held_a <= MaxU128
       /\ pool_tokens * held_b <= MaxU128
    THEN {[token_a |-> ShareOf(pool_tokens, pool_supply, held_a, round),
           token_b |-> ShareOf(pool_tokens, pool_supply, held_b, round)]}
    ELSE {}

(* A faulty deposit that lets the supply grow as much as the side does.    *)
ProductDepositSingleUnrooted(source_amount, held, pool_supply) ==
    {PreciseFloor(PreciseMul(pool_supply * One, ratio)) :
        ratio \in PreciseDiv(source_amount * One, held * One)}

(* Pool tokens for source_amount put into the side holding `held`: the     *)
(* supply grows by the square root of the growth of that side, as if half  *)
(* of the amount had been traded for the other token first.                *)
ProductDepositSingle(source_amount, held, pool_supply) ==
    {PreciseFloor(PreciseMul(pool_supply * One, root - One)) :
        root \in UNION {PreciseRoots(One + ratio) :
                          ratio \in PreciseDiv(source_amount * One, held * One)}}

(* A faulty withdrawal that rounds the pool tokens it takes down.          *)
ProductWithdrawSingleFloored(source_amount, held, pool_supply) ==
    {PreciseFloor(PreciseMul(pool_supply * One, One - root)) :
        root \in {r \in UNION {PreciseRoots(One - ratio) :
                                 ratio \in {q \in PreciseDiv(source_amount * One, held * One) :
                                               q <= One}} : r <= One}}

(* Pool tokens for source_amount taken out of that side, rounded up; None  *)
(* when it does not hold that much.                                        *)
ProductWithdrawSingle(source_amount, held, pool_supply) ==
    {PreciseCeiling(PreciseMul(pool_supply * One, One - root)) :
        root \in {r \in UNION {PreciseRoots(One - ratio) :
                                 ratio \in {q \in PreciseDiv(source_amount * One, held * One) :
                                               q <= One}} : r <= One}}
=============================================================================
