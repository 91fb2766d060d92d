------------------------------- MODULE Stable -------------------------------
(***************************************************************************)
(* curve/stable.rs: the curve.fi calculator.  Its invariant d is not a     *)
(* formula but the outcome of at most 32 rounds of Newton's method, which  *)
(* also solves it for the destination side of a swap.  The method stops    *)
(* when a round changes nothing, or wherever it is after the last.         *)
(***************************************************************************)
EXTENDS PreciseNumber

(* A faulty bound: an odd one ends on the other value of an alternation. *)
OneRoundLess == 31

ITERATIONS == 32

(* The results of repeating `step`, which has the results of one round,    *)
(* from `start`; {} once a round has none.                                 *)
Newton(step, start) ==
    LET after[rounds \in Nat] ==
            [x \in Nat |->
                IF rounds = 0 THEN {x}
                ELSE UNION {IF next = x THEN {x} ELSE after[rounds - 1][next] : next \in step[x]}]
    IN  after[ITERATIONS][start]

(* One round for d, with the reserves doubled and kept off zero by one. *)
CalculateStep(leverage, amount_a, amount_b, d) ==
    LET by_a      == ((d * d) \div (2 * amount_a + 1)) * d
        d_product == by_a \div (2 * amount_b + 1)
        l_val     == (leverage * (amount_a + amount_b) + 2 * d_product) * d
        r_val     == (leverage - 1) * d + 3 * d_product
    IN  IF leverage > 0 /\ r_val > 0 /\ {d * d, by_a, l_val, r_val} \subseteq 0..MaxU256
        THEN {l_val \div r_val}
        ELSE {}

ComputeD(leverage, amount_a, amount_b) ==
    LET sum_x == amount_a + amount_b
        step  == [d \in Nat |-> CalculateStep(leverage, amount_a, amount_b, d)]
    IN  IF sum_x = 0 THEN {0}
        ELSE IF sum_x > MaxU128 THEN {}
        ELSE Newton(step, sum_x) \cap U128

(* One round for the destination side y that keeps d with this much on the *)
(* source side: y^2 + b * y = c, with d taken off b in the divisor.        *)
DestinationStep(leverage, new_source_amount, d, y) ==
    LET c == (d * d * d) \div (4 * new_source_amount * leverage)
        b == new_source_amount + d \div leverage
    IN  IF 2 * y + b > d /\ y * y + c <= MaxU256
        THEN {(y * y + c) \div (2 * y + b - d)} ELSE {}

ComputeNewDestinationAmount(leverage, new_source_amount, d) ==
    LET step == [y \in Nat |-> DestinationStep(leverage, new_source_amount, d, y)]
    IN  IF 4 * new_source_amount * leverage \in 1..MaxU256 /\ d * d * d <= MaxU256
        THEN Newton(step, d) \cap U128 ELSE {}

(* A faulty leverage: the amplifier as it is. *)
LeverageNotDoubled(amp) == {amp} \cap U64

(* The amplifier doubled, as a u64. *)
Leverage(amp) == {2 * amp} \cap U64

StableD(amp, amount_a, amount_b) ==
    UNION {ComputeD(leverage, amount_a, amount_b) : leverage \in Leverage(amp)}

(* A faulty swap that pays out what should stay. *)
StableSwapPaysRest(amp, source_amount, swap_source, swap_destination) ==
    {[source |-> source_amount, destination |-> y] :
        y \in (0..swap_destination) \cap
              UNION {UNION {ComputeNewDestinationAmount(leverage, swap_source + source_amount, d) :
                              d \in ComputeD(leverage, swap_source, swap_destination)} :
                       leverage \in Leverage(amp)}}

(* The whole amount is charged; a payout of zero is not refused here. *)
StableSwap(amp, source_amount, swap_source, swap_destination) ==
    {[source |-> source_amount, destination |-> swap_destination - y] :
        y \in (0..swap_destination) \cap
              UNION {UNION {ComputeNewDestinationAmount(leverage, swap_source + source_amount, d) :
                              d \in ComputeD(leverage, swap_source, swap_destination)} :
                       leverage \in Leverage(amp)}}

(* A faulty change of d, the two sides the other way round. *)
ChangedDReversed(amp, amount, held_a, held_b, direction) ==
    IF direction = "AtoB" THEN StableD(amp, held_b, held_a + amount)
                          ELSE StableD(amp, held_a, held_b + amount)

(* What d becomes when the side that `direction` starts from changes; that *)
(* side comes first, and the two sides are not rounded alike.              *)
ChangedD(amp, amount, held_a, held_b, direction) ==
    IF direction = "AtoB" THEN StableD(amp, held_a + amount, held_b)
                          ELSE StableD(amp, held_b + amount, held_a)

(* Pool tokens in proportion to a change of d from d0. *)
ShareOfD(change, d0, pool_supply) == PreciseDiv(PreciseMul(change * One, pool_supply * One), d0 * One)

StableDepositSingle(amp, source_amount, held_a, held_b, pool_supply, direction) ==
    IF source_amount = 0 THEN {0}
    ELSE {PreciseFloor(share) : share \in
            UNION {UNION {ShareOfD(d1 - d0, d0, pool_supply) :
                            d1 \in {d \in ChangedD(amp, source_amount, held_a, held_b, direction) :
                                       d >= d0}} :
                     d0 \in StableD(amp, held_a, held_b)}}

StableWithdrawSingle(amp, source_amount, held_a, held_b, pool_supply, direction) ==
    IF source_amount = 0 THEN {0}
    ELSE IF source_amount > (IF direction = "AtoB" THEN held_a ELSE held_b) THEN {}
    ELSE {PreciseCeiling(share) : share \in
            UNION {UNION {ShareOfD(d0 - d1, d0, pool_supply) :
                            d1 \in {d \in ChangedD(amp, -source_amount, held_a, held_b, direction) :
                                       d <= d0}} :
                     d0 \in StableD(amp, held_a, held_b)}}
=============================================================================
