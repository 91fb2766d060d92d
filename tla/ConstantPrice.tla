--------------------------- MODULE ConstantPrice ---------------------------
(***************************************************************************)
(* curve/constant_price.rs: token B always costs `price` of token A.       *)
(***************************************************************************)
EXTENDS CheckedMath

(* A faulty swap that keeps no remainder and rounds its payout up. *)
PriceSwapRoundedUp(price, source_amount, direction) ==
    {[source |-> source_amount, destination |-> IF direction = "AtoB"
                                                THEN Ceiling(source_amount, price)
                                                ELSE source_amount * price]}

(* Selling A buys whole units of B and leaves the remainder with the       *)
(* seller; selling B yields `price` of A each.  Zero on either side is     *)
(* None.  The reserves do not enter: the caller finds out whether they are *)
(* large enough.                                                           *)
PriceSwap(price, source_amount, direction) ==
    IF price = 0 THEN {}
    ELSE {r \in {IF direction = "AtoB"
                 THEN [source      |-> source_amount - (source_amount % price),
                       destination |-> source_amount \div price]
                 ELSE [source      |-> source_amount,
                       destination |-> source_amount * price]} :
             r.source > 0 /\ r.destination \in 1..MaxU128}

(* Half of the pool's total value in token A.  PreciseNumber carries the   *)
(* whole number scaled, and to_imprecise rounds the half unit it adds off  *)
(* again.  The branch "close to the limits" asks b * price - MaxU64 to     *)
(* exceed MaxU128 - MaxU64, which no u128 product does: the plain sum is   *)
(* what runs, and what is None when it leaves u128.                        *)
PriceNormalizedValue(price, held_a, held_b) ==
    {(held_a + v) \div 2 : v \in {u \in {held_b * price} : held_a + u <= MaxU128}}

(* pool_tokens as the same value of either token.  Floor divides twice;    *)
(* Ceiling rounds up twice, and is None for what floors to 0.              *)
PricePoolTokensToTradingTokens(price, pool_tokens, pool_supply, held_a, held_b, round) ==
    UNION {LET value == pool_tokens * total
           IN  IF value > MaxU128 \/ price = 0 \/ pool_supply = 0 THEN {}
               ELSE IF round = "Floor"
               THEN {[token_a |-> value \div pool_supply,
                      token_b |-> (value \div price) \div pool_supply]}
               ELSE {[token_a |-> a.quotient, token_b |-> b.quotient] :
                       a \in CheckedCeilDiv(value, pool_supply),
                       b \in UNION {CheckedCeilDiv(v.quotient, pool_supply) :
                                      v \in CheckedCeilDiv(value, price)}}
          : total \in PriceNormalizedValue(price, held_a, held_b)}

(* A faulty conversion that rounds down in either direction. *)
TradingTokensToPoolTokensFloored(price, source_amount, held_a, held_b, pool_supply, direction, round) ==
    LET given == IF direction = "AtoB" THEN source_amount ELSE source_amount * price
        total == held_b * price + held_a
    IN  IF total = 0 THEN {} ELSE {(pool_supply * given) \div total}

(* Pool tokens worth source_amount of the side `direction` starts from, in *)
(* U256; a result that does not fit u128 panics, which fails the call too. *)
TradingTokensToPoolTokens(price, source_amount, held_a, held_b, pool_supply, direction, round) ==
    LET given == IF direction = "AtoB" THEN source_amount ELSE source_amount * price
        total == held_b * price + held_a
        value == pool_supply * given
    IN  IF total = 0 \/ total > MaxU256 \/ value > MaxU256 THEN {}
        ELSE (IF round = "Floor" THEN {value \div total}
              ELSE {c.quotient : c \in CheckedCeilDiv(value, total)}) \cap U128
=============================================================================
