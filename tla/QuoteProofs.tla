---------------------------- MODULE QuoteProofs ----------------------------
(***************************************************************************)
(* What holds of the quotes, fees and conversions of the library at every  *)
(* state of a pool, for every width, curve with a formula, and amount.     *)
(***************************************************************************)
EXTENDS PoolProofs

(* A quotient does not fall when what is divided grows, and two parts have *)
(* quotients that add up to no more than that of the whole.                *)
LEMMA QuotientsAdd ==
    ASSUME NEW x \in Nat, NEW y \in Nat, NEW p \in Nat \ {0}
    PROVE  /\ x \div p \in Nat /\ y \div p \in Nat /\ (x + y) \div p \in Nat
           /\ x \div p + y \div p <= (x + y) \div p
<1> DEFINE q == x \div p
           r == y \div p
           n == x + y
           w == n \div p
<1>1. q \in Nat /\ q * p <= x
  BY DivBelow
<1>2. r \in Nat /\ r * p <= y
  BY DivBelow
<1>3. w \in Nat /\ n % p \in 0..(p - 1) /\ n = p * w + (n % p)
  <2>1. n \in Nat
    OBVIOUS
  <2> HIDE DEF n
  <2> QED BY <2>1, DivMod
<1> HIDE DEF q, r, w
<1>4. p * (q + r) < p * (w + 1)
  BY <1>1, <1>2, <1>3
<1>5. q + r >= w + 1 => p * (q + r) >= p * (w + 1)
  BY <1>1, <1>2, <1>3
<1>6. q + r <= w
  BY <1>1, <1>2, <1>3, <1>4, <1>5
<1> QED BY <1>1, <1>2, <1>3, <1>6 DEF q, r, w

(* On two sides s and d, a constant product swap of a part, followed by    *)
(* that of the rest against the sides the first has left, pays at most     *)
(* what the swap of the whole does; and a larger offer pays no less.       *)
LEMMA ProductSplits ==
    ASSUME NEW x \in Nat, NEW y \in Nat, NEW s \in Nat, NEW d \in Nat,
           NEW first \in ProductSwap(x, s, d),
           NEW second \in ProductSwap(y, s + first.source, d - first.destination),
           NEW whole \in ProductSwap(x + y, s, d)
    PROVE  first.destination + second.destination <= whole.destination
<1> DEFINE u == first.source
           p == first.destination
           v == second.source
           q == second.destination
<1>1. /\ u \in 1..x /\ p \in 1..d
      /\ s * d <= (s + u) * (d - p)
  BY ProductSwapIsBest
<1> HIDE DEF u, p
<1>2. s + u \in Nat /\ d - p \in Nat
  BY <1>1
<1>3. /\ v \in 1..y /\ q \in 1..(d - p)
      /\ (s + u) * (d - p) <= ((s + u) + v) * ((d - p) - q)
  <2> DEFINE t == s + u
             f == d - p
  <2>1. t \in Nat /\ f \in Nat /\ second \in ProductSwap(y, t, f)
    BY <1>2 DEF u, p
  <2> HIDE DEF t, f
  <2>2. v \in 1..y /\ q \in 1..f /\ t * f <= (t + v) * (f - q)
    BY <2>1, ProductSwapIsBest
  <2> QED BY <2>2 DEF t, f
<1> HIDE DEF v, q
<1> DEFINE e == p + q
<1>4. e \in 0..d /\ d - e = (d - p) - q
  BY <1>1, <1>3
<1> HIDE DEF e
<1>5. ((s + u) + v) * (d - e) <= (s + (x + y)) * (d - e)
  <2>1. s + (x + y) >= (s + u) + v /\ d - e >= d - e
    BY <1>1, <1>3, <1>4
  <2>2. s + (x + y) \in Nat /\ (s + u) + v \in Nat /\ d - e \in Nat
    BY <1>1, <1>3, <1>4
  <2> QED BY <2>1, <2>2, ProductMonotone
<1>6. s * d <= (s + (x + y)) * (d - e)
  <2>1. /\ s * d \in Int /\ (s + u) * (d - p) \in Int
        /\ ((s + u) + v) * (d - e) \in Int /\ (s + (x + y)) * (d - e) \in Int
    BY <1>1, <1>3, <1>4
  <2> QED BY <1>1, <1>3, <1>4, <1>5, <2>1
<1>7. \A f \in 0..d : s * d <= (s + (x + y)) * (d - f) => f <= whole.destination
  BY ProductSwapIsBest
<1> QED BY <1>4, <1>6, <1>7 DEF e, p, q

LEMMA ProductGrows ==
    ASSUME NEW x \in Nat, NEW y \in Nat, NEW s \in Nat, NEW d \in Nat, x <= y,
           NEW less \in ProductSwap(x, s, d), NEW more \in ProductSwap(y, s, d)
    PROVE  less.destination <= more.destination
<1> DEFINE u == less.source
           p == less.destination
<1>1. u \in 1..x /\ p \in 1..d /\ s * d <= (s + u) * (d - p)
  BY ProductSwapIsBest
<1> HIDE DEF u, p
<1>2. (s + u) * (d - p) <= (s + y) * (d - p)
  <2>1. s + y >= s + u /\ s + y \in Nat /\ s + u \in Nat /\ d - p \in Nat
    BY <1>1
  <2> QED BY <2>1, ProductMonotone
<1>3. s * d <= (s + y) * (d - p)
  <2>1. s * d \in Int /\ (s + u) * (d - p) \in Int /\ (s + y) * (d - p) \in Int
    BY <1>1
  <2> QED BY <1>1, <1>2, <2>1
<1>4. \A f \in 0..d : s * d <= (s + y) * (d - f) => f <= more.destination
  BY ProductSwapIsBest
<1> QED BY <1>1, <1>3, <1>4 DEF p

(* The same at a constant price.                                           *)
LEMMA PriceSwapPays ==
    ASSUME NEW price \in Nat, NEW x \in Nat, NEW direction \in TradeDirection,
           NEW r \in PriceSwap(price, x, direction)
    PROVE  /\ price # 0
           /\ direction = "AtoB" => r.destination = x \div price
           /\ direction # "AtoB" => r.destination = x * price
BY DEF PriceSwap

-----------------------------------------------------------------------------
(* In every reachable state, on every curve but the stable one, splitting  *)
(* a trade in two pays no more than trading at once.                       *)
THEOREM SplittingPaysNothing == Spec => []SplittingNeverPays
<1>1. TypeOK => SplittingNeverPays
  <2> SUFFICES ASSUME TypeOK, HasFormula, NEW direction \in TradeDirection,
                      NEW x \in SwapAmounts, NEW y \in SwapAmounts
               PROVE  LET s == SourceSide(direction, token_a, token_b)
                          d == SourceSide(Opposite(direction), token_a, token_b)
                      IN  \A first \in SwapWithoutFees(curve, x, s, d, direction) :
                          \A second \in SwapWithoutFees(curve, y, s + first.source,
                                                        d - first.destination, direction) :
                          \A whole \in SwapWithoutFees(curve, x + y, s, d, direction) :
                             first.destination + second.destination <= whole.destination
    BY DEF SplittingNeverPays
  <2> DEFINE s == SourceSide(direction, token_a, token_b)
             d == SourceSide(Opposite(direction), token_a, token_b)
             os == SourceSide(direction, 0, TokenBOffset(curve))
             od == SourceSide(direction, TokenBOffset(curve), 0)
  <2>1. s \in Nat /\ d \in Nat /\ curve \in Curve /\ os \in Nat /\ od \in Nat
    BY TypeFacts DEF SourceSide
  <2>2. x \in Nat /\ y \in Nat
    BY PoolAssumption, WidthAssumption DEF U64
  <2> SUFFICES ASSUME NEW first \in SwapWithoutFees(curve, x, s, d, direction),
                      NEW second \in SwapWithoutFees(curve, y, s + first.source,
                                                    d - first.destination, direction),
                      NEW whole \in SwapWithoutFees(curve, x + y, s, d, direction)
               PROVE  first.destination + second.destination <= whole.destination
    OBVIOUS
  <2> HIDE DEF s, d
  <2>3. CASE curve.curve_type = "ConstantPrice"
    <3> DEFINE p == curve.param
    <3>1. /\ first \in PriceSwap(p, x, direction)
          /\ second \in PriceSwap(p, y, direction)
          /\ whole \in PriceSwap(p, x + y, direction)
      BY <2>3 DEF SwapWithoutFees
    <3>2. p \in Nat /\ x + y \in Nat
      BY <2>2, TypeFacts
    <3> HIDE DEF p
    <3>3. p # 0 /\ (direction = "AtoB" => /\ first.destination = x \div p
                                         /\ second.destination = y \div p
                                         /\ whole.destination = (x + y) \div p)
          /\ (direction # "AtoB" => /\ first.destination = x * p
                                    /\ second.destination = y * p
                                    /\ whole.destination = (x + y) * p)
      BY <2>2, <3>1, <3>2, PriceSwapPays
    <3>4. x \div p + y \div p <= (x + y) \div p
      BY <2>2, <3>2, <3>3, QuotientsAdd
    <3>5. x * p + y * p = (x + y) * p
      BY <2>2, <3>2
    <3>6. x * p \in Nat /\ y * p \in Nat
      BY <2>2, <3>2
    <3> QED BY <3>3, <3>4, <3>5, <3>6
  <2>4. CASE curve.curve_type # "ConstantPrice"
    <3> DEFINE S == s + os
               D == d + od
    <3>1. S \in Nat /\ D \in Nat
      BY <2>1
    <3>2. first \in ProductSwap(x, S, D) /\ whole \in ProductSwap(x + y, S, D)
      BY <2>4 DEF SwapWithoutFees, HasFormula
    <3>3. first.source \in Nat /\ first.destination \in Nat
      BY <2>2, <3>1, <3>2, ProductSwapIsBest
    <3>4. second \in ProductSwap(y, S + first.source, D - first.destination)
      <4>1. /\ (s + first.source) + os = S + first.source
            /\ (d - first.destination) + od = D - first.destination
        BY <2>1, <3>3
      <4> HIDE DEF S, D
      <4>2. second \in ProductSwap(y, (s + first.source) + os, (d - first.destination) + od)
        BY <2>4 DEF SwapWithoutFees, HasFormula
      <4> QED BY <4>1, <4>2
    <3> HIDE DEF S, D
    <3> QED BY <2>2, <3>1, <3>2, <3>4, ProductSplits
  <2> QED BY <2>3, <2>4
<1> QED BY <1>1, TypeCorrect, PTL

(* And a larger offer pays no less. *)
LEMMA FormulaOffersAreOrdered == Spec => [](HasFormula => OfferingMoreNeverYieldsLess)
<1>1. TypeOK /\ HasFormula => OfferingMoreNeverYieldsLess
  <2> SUFFICES ASSUME TypeOK, HasFormula, NEW direction \in TradeDirection,
                      NEW x \in SwapAmounts, NEW y \in SwapAmounts, x <= y
               PROVE  LET s == SourceSide(direction, token_a, token_b)
                          d == SourceSide(Opposite(direction), token_a, token_b)
                      IN  \A less \in SwapWithoutFees(curve, x, s, d, direction),
                             more \in SwapWithoutFees(curve, y, s, d, direction) :
                             less.destination <= more.destination
    BY DEF OfferingMoreNeverYieldsLess
  <2> DEFINE s == SourceSide(direction, token_a, token_b)
             d == SourceSide(Opposite(direction), token_a, token_b)
             os == SourceSide(direction, 0, TokenBOffset(curve))
             od == SourceSide(direction, TokenBOffset(curve), 0)
  <2>1. s + os \in Nat /\ d + od \in Nat
    BY TypeFacts DEF SourceSide
  <2>2. x \in Nat /\ y \in Nat
    BY PoolAssumption, WidthAssumption DEF U64
  <2> SUFFICES ASSUME NEW less \in SwapWithoutFees(curve, x, s, d, direction),
                      NEW more \in SwapWithoutFees(curve, y, s, d, direction)
               PROVE  less.destination <= more.destination
    OBVIOUS
  <2>3. CASE curve.curve_type = "ConstantPrice"
    <3> DEFINE p == curve.param
               z == y - x
    <3>1. less \in PriceSwap(p, x, direction) /\ more \in PriceSwap(p, y, direction)
      BY <2>3 DEF SwapWithoutFees
    <3>2. p \in Nat /\ z \in Nat /\ x + z = y
      BY <2>2, TypeFacts
    <3> HIDE DEF p, z
    <3>3. /\ p # 0
          /\ direction = "AtoB" => less.destination = x \div p /\ more.destination = y \div p
          /\ direction # "AtoB" => less.destination = x * p /\ more.destination = y * p
      BY <2>2, <3>1, <3>2, PriceSwapPays
    <3>4. x \div p \in Nat /\ z \div p \in Nat /\ y \div p \in Nat /\ x \div p + z \div p <= y \div p
      BY <2>2, <3>2, <3>3, QuotientsAdd
    <3>5. x * p <= y * p
      BY <2>2, <3>2, ProductMonotone
    <3> QED BY <3>3, <3>4, <3>5
  <2>4. CASE curve.curve_type # "ConstantPrice"
    <3>1. less \in ProductSwap(x, s + os, d + od) /\ more \in ProductSwap(y, s + os, d + od)
      BY <2>4 DEF SwapWithoutFees, HasFormula
    <3> QED BY <2>1, <2>2, <3>1, ProductGrows
  <2> QED BY <2>3, <2>4
<1> QED BY <1>1, TypeCorrect, PTL

-----------------------------------------------------------------------------
(* A fee that passes validation takes all of an amount at most if that is  *)
(* a single token.                                                         *)
LEMMA ValidFeeIsBelow ==
    ASSUME NEW f \in Fraction, ValidateFraction(f), NEW x \in Nat, NEW fee \in CalculateFee(x, f)
    PROVE  fee <= x /\ (fee = x => x <= 1)
<1> DEFINE n == f.numerator
           d == f.denominator
           k == x * n
           q == k \div d
<1>1. n \in Nat /\ d \in Nat /\ (n < d \/ n = 0)
  BY WidthAssumption DEF Fraction, ValidateFraction, U64
<1>2. CASE n = 0 \/ x = 0
  BY <1>2 DEF CalculateFee
<1>3. CASE n > 0 /\ x > 0
  <2>1. fee = IF q = 0 THEN 1 ELSE q
    BY <1>3 DEF CalculateFee
  <2> HIDE DEF n, d
  <2>2. k \in Nat /\ k < x * d
    BY <1>1, <1>3
  <2>3. q \in Nat /\ q * d <= k
    <3> HIDE DEF k
    <3> QED BY <1>1, <1>3, <2>2, DivBelow
  <2> HIDE DEF k, q
  <2>4. q >= x => q * d >= x * d
    BY <1>1, <2>3
  <2>5. q * d < x * d
    BY <1>1, <2>2, <2>3
  <2>6. q < x
    BY <1>1, <2>3, <2>4, <2>5
  <2> QED BY <1>3, <2>1, <2>3, <2>6
<1> QED BY <1>1, <1>2, <1>3

(* In every pool, each of the four fees leaves something of what it is     *)
(* taken from.                                                             *)
THEOREM FeesLeaveSomething == Spec => []ValidFeesLeaveSomething
<1>1. ASSUME TypeOK, NEW x \in SwapAmounts,
             NEW fee \in TradingFee(fees, x) \cup OwnerTradingFee(fees, x)
                            \cup OwnerWithdrawFee(fees, x) \cup HostFee(fees, x)
      PROVE  fee <= x /\ (fee = x => x <= 1)
  <2>1. x \in Nat
    BY PoolAssumption, WidthAssumption DEF U64
  <2>2. fees \in CurveFees /\ \A name \in DOMAIN fees : ValidateFraction(fees[name])
    BY <1>1, PoolAssumption DEF TypeOK, ValidateFees
  <2>3. /\ fees.trade_fee \in Fraction /\ ValidateFraction(fees.trade_fee)
        /\ fees.owner_trade_fee \in Fraction /\ ValidateFraction(fees.owner_trade_fee)
        /\ fees.owner_withdraw_fee \in Fraction /\ ValidateFraction(fees.owner_withdraw_fee)
        /\ fees.host_fee \in Fraction /\ ValidateFraction(fees.host_fee)
    BY <2>2 DEF CurveFees
  <2> QED BY <1>1, <2>1, <2>3, ValidFeeIsBelow DEF TradingFee, OwnerTradingFee, OwnerWithdrawFee, HostFee
<1>2. TypeOK => ValidFeesLeaveSomething
  BY <1>1 DEF ValidFeesLeaveSomething
<1> QED BY <1>2, TypeCorrect, PTL

(* Provided that a u128 holds the product of two u64, whoever holds every  *)
(* pool token can take out all of both reserves.                           *)
THEOREM LastHolderLeaves ==
    ASSUME MaxU64 * MaxU64 <= MaxU128
    PROVE  Spec => []LastHolderCanLeave
<1>1. ASSUME TypeOK, curve.curve_type \in {"ConstantProduct", "Stable"}, pool_supply > 0
      PROVE  PoolTokensToTradingTokens(curve, pool_supply, pool_supply, token_a, token_b, "Floor")
               = {[token_a |-> token_a, token_b |-> token_b]}
  <2>1. pool_supply \in Nat \ {0} /\ token_a \in Nat /\ token_b \in Nat /\ MaxU64 \in Nat
        /\ pool_supply <= MaxU64 /\ token_a <= MaxU64 /\ token_b <= MaxU64 /\ MaxU128 \in Nat
    BY <1>1, WidthAssumption DEF TypeOK, U64
  <2>2. pool_supply * token_a <= MaxU128 /\ pool_supply * token_b <= MaxU128
    <3>1. MaxU64 * MaxU64 >= pool_supply * token_a /\ MaxU64 * MaxU64 >= pool_supply * token_b
      BY <2>1, ProductMonotone
    <3>2. /\ MaxU64 * MaxU64 \in Int
          /\ pool_supply * token_a \in Int /\ pool_supply * token_b \in Int
      BY <2>1
    <3> QED BY <2>1, <3>1, <3>2
  <2>3. (pool_supply * token_a) \div pool_supply = token_a
        /\ (pool_supply * token_b) \div pool_supply = token_b
    BY <2>1, DivExact
  <2>4. /\ ShareOf(pool_supply, pool_supply, token_a, "Floor") = token_a
        /\ ShareOf(pool_supply, pool_supply, token_b, "Floor") = token_b
    BY <2>3 DEF ShareOf
  <2>5. token_b + TokenBOffset(curve) = token_b
    BY <1>1, <2>1 DEF TokenBOffset
  <2>6. PoolTokensToTradingTokens(curve, pool_supply, pool_supply, token_a, token_b, "Floor")
          = ProductPoolTokensToTradingTokens(pool_supply, pool_supply, token_a, token_b, "Floor")
    BY <1>1, <2>5 DEF PoolTokensToTradingTokens
  <2> QED BY <2>1, <2>2, <2>4, <2>6 DEF ProductPoolTokensToTradingTokens
<1>2. TypeOK => LastHolderCanLeave
  BY <1>1 DEF LastHolderCanLeave
<1> QED BY <1>2, TypeCorrect, PTL
=============================================================================
