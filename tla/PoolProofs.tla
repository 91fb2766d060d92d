----------------------------- MODULE PoolProofs -----------------------------
(***************************************************************************)
(* Theorems about Pool, for every width, curve, fee and input set.         *)
(***************************************************************************)
EXTENDS Pool, CurveProofs

(* Every reachable state is well typed, and the curve and fees are still   *)
(* the validated ones the pool was created with.                           *)
THEOREM TypeCorrect == Spec => []TypeOK
<1>1. Init => TypeOK
  BY PoolAssumption DEF Init, TypeOK, U64
<1>2. TypeOK /\ [Next]_vars => TypeOK'
  <2> SUFFICES ASSUME TypeOK, [Next]_vars PROVE TypeOK'
    OBVIOUS
  <2>1. ASSUME NEW direction \in TradeDirection, NEW x \in SwapAmounts, Swap(direction, x)
        PROVE  TypeOK'
    BY <2>1 DEF Swap, Become, TypeOK, ValidateCurve
  <2>2. ASSUME NEW n \in ShareAmounts, DepositAllTokenTypes(n) PROVE TypeOK'
    BY <2>2 DEF DepositAllTokenTypes, Become, SupplyBecomes, TypeOK, ValidateCurve
  <2>3. ASSUME NEW n \in ShareAmounts, WithdrawAllTokenTypes(n) PROVE TypeOK'
    BY <2>3 DEF WithdrawAllTokenTypes, Become, SupplyBecomes, TypeOK, ValidateCurve
  <2>4. ASSUME NEW direction \in TradeDirection, NEW x \in SingleAmounts, DepositSingle(direction, x)
        PROVE  TypeOK'
    BY <2>4 DEF DepositSingle, Become, SupplyBecomes, TypeOK, ValidateCurve
  <2>5. ASSUME NEW direction \in TradeDirection, NEW x \in SingleAmounts, WithdrawSingle(direction, x)
        PROVE  TypeOK'
    BY <2>5 DEF WithdrawSingle, Become, SupplyBecomes, TypeOK, ValidateCurve
  <2>6. CASE UNCHANGED vars
    BY <2>6 DEF vars, TypeOK, ValidateCurve
  <2> QED
    BY <2>1, <2>2, <2>3, <2>4, <2>5, <2>6
       DEF Next, Trade, Deposit, Withdraw, DepositOneSide, WithdrawOneSide
<1> QED BY <1>1, <1>2, PTL DEF Spec

-----------------------------------------------------------------------------
(* Shares of both sides multiply to a share of the product. *)
LEMMA SharesMultiply ==
    ASSUME NEW u \in Nat, NEW v \in Nat, NEW a \in Nat, NEW b \in Nat,
           NEW s \in Nat, NEW t \in Nat, u * s >= a * t, v * s >= b * t
    PROVE  (u * v) * s * s >= (a * b) * t * t
<1>1. (u * s) * (v * s) >= (a * t) * (b * t)
  <2>1. u * s \in Nat /\ v * s \in Nat /\ a * t \in Nat /\ b * t \in Nat
    OBVIOUS
  <2> QED BY <2>1, ProductMonotone
<1>2. (u * s) * (v * s) = (u * v) * s * s
  OBVIOUS
<1>3. (a * t) * (b * t) = (a * b) * t * t
  OBVIOUS
<1> QED BY <1>1, <1>2, <1>3

(* Halving keeps the order. *)
LEMMA HalvesAreOrdered == ASSUME NEW u \in Nat, NEW v \in Nat, u >= v
                          PROVE  /\ u \div 2 \in Nat /\ v \div 2 \in Nat
                                 /\ u \div 2 >= v \div 2
OBVIOUS

(* What the types say of the numbers that the arguments below calculate with. *)
LEMMA TypeFacts == ASSUME TypeOK
                   PROVE  /\ curve \in Curve /\ fees \in CurveFees
                          /\ curve.param \in Nat /\ TokenBOffset(curve) \in Nat
                          /\ token_a \in Nat /\ token_b \in Nat /\ pool_supply \in Nat
BY PoolAssumption, OffsetIsNat, WidthAssumption DEF TypeOK, U64

(* A swap moves both reserves, and the value never falls, where it is a formula. *)
LEMMA SwapStep ==
    ASSUME TypeOK, HasFormula, NEW direction \in TradeDirection, NEW x \in Nat, Swap(direction, x)
    PROVE  /\ pool_supply' = pool_supply
           /\ token_a' \in Nat /\ token_b' \in Nat
           /\ Value(token_a, token_b) \in Nat
           /\ Value(token_a', token_b') \in Nat
           /\ Value(token_a', token_b') >= Value(token_a, token_b)
<1> DEFINE src == SourceSide(direction, token_a, token_b)
           dst == SourceSide(Opposite(direction), token_a, token_b)
<1>1. PICK r \in SwapWithFees(curve, fees, x, src, dst, direction) :
         Become(SourceSide(direction, r.new_source, r.new_destination),
                SourceSide(Opposite(direction), r.new_source, r.new_destination))
  BY DEF Swap
<1>2. src \in Nat /\ dst \in Nat
  BY TypeFacts DEF SourceSide
<1> HIDE DEF src, dst
<1>3. /\ r.new_source \in Nat /\ r.new_destination \in Nat
      /\ curve.curve_type # "ConstantPrice" =>
           LET os == SourceSide(direction, 0, TokenBOffset(curve))
               od == SourceSide(direction, TokenBOffset(curve), 0)
           IN  (r.new_source + os) * (r.new_destination + od) >= (src + os) * (dst + od)
      /\ curve.curve_type = "ConstantPrice" /\ direction = "AtoB" =>
           r.new_source + r.new_destination * curve.param >= src + dst * curve.param
      /\ curve.curve_type = "ConstantPrice" /\ direction = "BtoA" =>
           r.new_destination + r.new_source * curve.param >= dst + src * curve.param
  BY <1>1, <1>2, TypeFacts, SwapKeepsValue DEF HasFormula
<1>4. ASSUME direction = "AtoB" PROVE Value(token_a', token_b') >= Value(token_a, token_b)
  <2>1. /\ token_a' = r.new_source /\ token_b' = r.new_destination
        /\ src = token_a /\ dst = token_b
    BY <1>1, <1>4 DEF Become, SourceSide, Opposite, src, dst
  <2>2. CASE curve.curve_type # "ConstantPrice"
    BY <1>3, <1>4, <2>1, <2>2, TypeFacts DEF Value, SourceSide, Swap
  <2>3. CASE curve.curve_type = "ConstantPrice"
    BY <1>3, <1>4, <2>1, <2>3, TypeFacts DEF Value, Swap
  <2> QED BY <2>2, <2>3
<1>5. ASSUME direction = "BtoA" PROVE Value(token_a', token_b') >= Value(token_a, token_b)
  <2>1. /\ token_b' = r.new_source /\ token_a' = r.new_destination
        /\ src = token_b /\ dst = token_a
    BY <1>1, <1>5 DEF Become, SourceSide, Opposite, src, dst
  <2>2. CASE curve.curve_type # "ConstantPrice"
    BY <1>3, <1>5, <2>1, <2>2, TypeFacts DEF Value, SourceSide, Swap
  <2>3. CASE curve.curve_type = "ConstantPrice"
    BY <1>3, <1>5, <2>1, <2>3, TypeFacts DEF Value, Swap
  <2> QED BY <2>2, <2>3
<1>6. token_a' \in Nat /\ token_b' \in Nat /\ pool_supply' = pool_supply
  BY WidthAssumption DEF Swap, Become, U64
<1>7. /\ token_a + token_b * curve.param \in Nat
      /\ token_a * (token_b + TokenBOffset(curve)) \in Nat
      /\ token_a' + token_b' * curve.param \in Nat
      /\ token_a' * (token_b' + TokenBOffset(curve)) \in Nat
  BY <1>6, TypeFacts
<1>8. Value(token_a, token_b) \in Nat /\ Value(token_a', token_b') \in Nat
  BY <1>7 DEF Value
<1>9. Value(token_a', token_b') >= Value(token_a, token_b)
  BY <1>4, <1>5 DEF TradeDirection
<1> QED BY <1>6, <1>8, <1>9

(* A two sided deposit or withdrawal, but at a constant price, keeps each  *)
(* side's share.                                                           *)
LEMMA TwoSidedKeepsShares ==
    ASSUME TypeOK, curve.curve_type # "ConstantPrice", NEW n \in Nat,
           DepositAllTokenTypes(n) \/ WithdrawAllTokenTypes(n)
    PROVE  /\ token_a' \in Nat /\ token_b' \in Nat /\ pool_supply' \in Nat
           /\ token_a' * pool_supply >= token_a * pool_supply'
           /\ (token_b' + TokenBOffset(curve)) * pool_supply
                >= (token_b + TokenBOffset(curve)) * pool_supply'
<1> DEFINE b == token_b + TokenBOffset(curve)
<1>1. b \in Nat
  BY TypeFacts
<1> HIDE DEF b
<1>2. token_a' \in Nat /\ token_b' \in Nat /\ pool_supply' \in Nat
  BY WidthAssumption DEF DepositAllTokenTypes, WithdrawAllTokenTypes, Become, SupplyBecomes, U64
<1>3. CASE DepositAllTokenTypes(n)
  <2>1. PICK t \in ProductPoolTokensToTradingTokens(n, pool_supply, token_a, b, "Ceiling") :
           /\ t.token_a > 0 /\ t.token_b > 0
           /\ token_a' = token_a + t.token_a
           /\ token_b' = token_b + t.token_b
           /\ pool_supply' = pool_supply + n
    BY <1>3 DEF DepositAllTokenTypes, PoolTokensToTradingTokens, Become, SupplyBecomes, b
  <2>2. /\ t.token_a \in Nat /\ t.token_b \in Nat
        /\ (token_a + t.token_a) * pool_supply >= token_a * (pool_supply + n)
        /\ (b + t.token_b) * pool_supply >= b * (pool_supply + n)
    BY <1>1, <2>1, TypeFacts, ProductDepositKeepsShares
  <2>3. token_b' + TokenBOffset(curve) = b + t.token_b
    BY <2>1, <2>2, TypeFacts DEF b
  <2> QED BY <1>2, <2>1, <2>2, <2>3 DEF b
<1>4. CASE WithdrawAllTokenTypes(n)
  <2>1. PICK t \in ProductPoolTokensToTradingTokens(n, pool_supply, token_a, b, "Floor") :
           /\ token_a' = token_a - t.token_a
           /\ token_b' = token_b - t.token_b
           /\ pool_supply' = pool_supply - n
    BY <1>4 DEF WithdrawAllTokenTypes, PoolTokensToTradingTokens, Become, SupplyBecomes, b
  <2>2. /\ t.token_a \in Nat /\ t.token_b \in Nat
        /\ (token_a - t.token_a) * pool_supply >= token_a * (pool_supply - n)
        /\ (b - t.token_b) * pool_supply >= b * (pool_supply - n)
    BY <1>1, <2>1, TypeFacts, ProductWithdrawKeepsShares
  <2>3. token_b' + TokenBOffset(curve) = b - t.token_b
    BY <2>1, <2>2, TypeFacts DEF b
  <2> QED BY <1>2, <2>1, <2>2, <2>3 DEF b
<1> QED BY <1>3, <1>4

(* A two sided operation at a constant price keeps the share of the halved *)
(* value: both tokens move by at least, or at most, the same half.         *)
LEMMA TwoSidedKeepsHalf ==
    ASSUME TypeOK, curve.curve_type = "ConstantPrice", NEW n \in Nat,
           DepositAllTokenTypes(n) \/ WithdrawAllTokenTypes(n)
    PROVE  (Value(token_a', token_b') \div 2) * pool_supply
             >= (Value(token_a, token_b) \div 2) * pool_supply'
<1> DEFINE p == curve.param
           value == token_a + token_b * p
           half == value \div 2
           new_half == Value(token_a', token_b') \div 2
<1>1. value \in Nat /\ half \in Nat /\ p \in Nat /\ Value(token_a, token_b) = value
  BY TypeFacts DEF Value
<1>2. /\ token_a' \in Nat /\ token_b' \in Nat /\ pool_supply' \in Nat
      /\ Value(token_a', token_b') = token_a' + token_b' * p
  BY WidthAssumption DEF DepositAllTokenTypes, WithdrawAllTokenTypes, Become, SupplyBecomes, U64, Value
<1>3. CASE DepositAllTokenTypes(n)
  <2>1. PICK t \in PricePoolTokensToTradingTokens(p, n, pool_supply, token_a, token_b, "Ceiling") :
           /\ token_a' = token_a + t.token_a
           /\ token_b' = token_b + t.token_b
           /\ pool_supply' = pool_supply + n
    BY <1>3 DEF DepositAllTokenTypes, PoolTokensToTradingTokens, Become, SupplyBecomes
  <2>2. /\ t.token_a \in Nat /\ t.token_b \in Nat
        /\ t.token_a * pool_supply >= n * half
        /\ (t.token_b * p) * pool_supply >= n * half
    BY <1>1, <2>1, TypeFacts, PriceShareRounds
  <2>3. PICK m \in Nat : /\ m * pool_supply >= n * half
                         /\ t.token_a >= m /\ t.token_b * p >= m
    <3>1. t.token_b * p \in Nat
      BY <1>1, <2>2
    <3>2. CASE t.token_a >= t.token_b * p
      BY <2>2, <3>1, <3>2
    <3>3. CASE ~(t.token_a >= t.token_b * p)
      BY <2>2, <3>1, <3>3
    <3> QED BY <3>2, <3>3
  <2>4. token_a' + token_b' * p >= value + 2 * m
    BY <1>1, <2>1, <2>2, <2>3, TypeFacts
  <2> HIDE DEF value
  <2>5. new_half >= half + m /\ new_half \in Nat
    BY <1>1, <1>2, <2>3, <2>4
  <2> HIDE DEF half, new_half
  <2>6. new_half * pool_supply >= half * pool_supply + m * pool_supply
    BY <1>1, <2>3, <2>5, TypeFacts
  <2>7. half * (pool_supply + n) = half * pool_supply + n * half
    BY <1>1, TypeFacts
  <2>8. m * pool_supply \in Nat /\ half * pool_supply \in Nat /\ n * half \in Nat /\ new_half * pool_supply \in Nat
    BY <1>1, <2>3, <2>5, TypeFacts
  <2> QED BY <1>1, <2>1, <2>3, <2>6, <2>7, <2>8 DEF half, new_half, value
<1>4. CASE WithdrawAllTokenTypes(n)
  <2>1. PICK t \in PricePoolTokensToTradingTokens(p, n, pool_supply, token_a, token_b, "Floor") :
           /\ token_a' = token_a - t.token_a
           /\ token_b' = token_b - t.token_b
           /\ pool_supply' = pool_supply - n
    BY <1>4 DEF WithdrawAllTokenTypes, PoolTokensToTradingTokens, Become, SupplyBecomes
  <2>2. /\ t.token_a \in Nat /\ t.token_b \in Nat
        /\ t.token_a * pool_supply <= n * half
        /\ (t.token_b * p) * pool_supply <= n * half
    BY <1>1, <2>1, TypeFacts, PriceShareRounds
  <2>3. PICK m \in Nat : /\ m * pool_supply <= n * half
                         /\ t.token_a <= m /\ t.token_b * p <= m
    <3>1. t.token_b * p \in Nat
      BY <1>1, <2>2
    <3>2. CASE t.token_a >= t.token_b * p
      BY <2>2, <3>1, <3>2
    <3>3. CASE ~(t.token_a >= t.token_b * p)
      BY <2>2, <3>1, <3>3
    <3> QED BY <3>2, <3>3
  <2>4. token_a' + token_b' * p >= value - 2 * m
    BY <1>1, <2>1, <2>2, <2>3, TypeFacts
  <2> HIDE DEF value
  <2>5. new_half >= half - m /\ new_half \in Nat
    BY <1>1, <1>2, <2>3, <2>4
  <2> HIDE DEF half, new_half
  <2>6. new_half * pool_supply >= half * pool_supply - m * pool_supply
    BY <1>1, <2>3, <2>5, TypeFacts
  <2>7. half * (pool_supply - n) = half * pool_supply - n * half
    BY <1>1, TypeFacts
  <2>8. m * pool_supply \in Nat /\ half * pool_supply \in Nat /\ n * half \in Nat /\ new_half * pool_supply \in Nat
    BY <1>1, <2>3, <2>5, TypeFacts
  <2> QED BY <1>1, <2>1, <2>3, <2>6, <2>7, <2>8 DEF half, new_half, value
<1> QED BY <1>3, <1>4

(* In every pool, whatever its fees, widths and curve, but for the stable  *)
(* one, no swap and no two sided operation lowers the value of a pool      *)
(* token.                                                                  *)
THEOREM ShareValueIsKept == Spec => ShareValueNeverFalls
<1> DEFINE Kept == WorthAtLeast(NormalizedValue(token_a', token_b'), pool_supply',
                                NormalizedValue(token_a, token_b), pool_supply)
<1>1. ASSUME TypeOK, HasFormula, NEW direction \in TradeDirection, NEW x \in SwapAmounts,
             Swap(direction, x)
      PROVE  Kept
  <2> DEFINE old == Value(token_a, token_b)
             new == Value(token_a', token_b')
  <2>1. /\ old \in Nat /\ new \in Nat /\ new >= old /\ pool_supply' = pool_supply /\ pool_supply \in Nat
    <3>1. x \in Nat
      BY PoolAssumption, WidthAssumption DEF U64
    <3> QED BY <1>1, <3>1, TypeFacts, SwapStep
  <2> HIDE DEF old, new
  <2>2. CASE curve.curve_type = "ConstantPrice"
    <3>1. /\ old \div 2 \in Nat /\ new \div 2 \in Nat /\ new \div 2 >= old \div 2
      BY <2>1, HalvesAreOrdered
    <3>2. (new \div 2) * pool_supply >= (old \div 2) * pool_supply
      BY <2>1, <3>1, ProductMonotone
    <3> QED BY <2>1, <2>2, <3>2 DEF WorthAtLeast, NormalizedValue, old, new
  <2>3. CASE curve.curve_type # "ConstantPrice"
    <3>1. new * pool_supply >= old * pool_supply
      BY <2>1, ProductMonotone
    <3>2. new * pool_supply * pool_supply >= old * pool_supply * pool_supply
      BY <2>1, <3>1, ProductMonotone
    <3> QED BY <2>1, <2>3, <3>2 DEF WorthAtLeast, NormalizedValue, old, new
  <2> QED BY <2>2, <2>3
<1>2. ASSUME TypeOK, NEW n \in ShareAmounts, DepositAllTokenTypes(n) \/ WithdrawAllTokenTypes(n)
      PROVE  Kept
  <2>1. n \in Nat
    BY PoolAssumption, WidthAssumption DEF U64
  <2>2. CASE curve.curve_type = "ConstantPrice"
    BY <1>2, <2>1, <2>2, TwoSidedKeepsHalf DEF WorthAtLeast, NormalizedValue
  <2>3. CASE curve.curve_type # "ConstantPrice"
    <3> DEFINE b == token_b + TokenBOffset(curve)
               c == token_b' + TokenBOffset(curve)
    <3>1. /\ token_a' \in Nat /\ c \in Nat /\ pool_supply' \in Nat
          /\ token_a \in Nat /\ b \in Nat /\ pool_supply \in Nat
          /\ token_a' * pool_supply >= token_a * pool_supply'
          /\ c * pool_supply >= b * pool_supply'
      BY <1>2, <2>1, <2>3, TypeFacts, TwoSidedKeepsShares
    <3> HIDE DEF b, c
    <3>2. (token_a' * c) * pool_supply * pool_supply >= (token_a * b) * pool_supply' * pool_supply'
      BY <3>1, SharesMultiply
    <3> QED BY <2>3, <3>2 DEF WorthAtLeast, NormalizedValue, Value, b, c
  <2> QED BY <2>2, <2>3
<1>3. TypeOK /\ [Next]_vars => [HasFormula /\ (Trade \/ Deposit \/ Withdraw) => Kept]_vars
  BY <1>1, <1>2 DEF Trade, Deposit, Withdraw
<1> QED BY <1>3, TypeCorrect, PTL DEF Spec, ShareValueNeverFalls

(* But at a constant price, two sided operations keep each side's          *)
(* share, for all widths and amounts.                                      *)
THEOREM SharesAreKept == Spec => EachSideKeepsItsShare
<1> DEFINE Kept == /\ token_a' * pool_supply >= token_a * pool_supply'
                   /\ (token_b' + TokenBOffset(curve)) * pool_supply
                         >= (token_b + TokenBOffset(curve)) * pool_supply'
<1>1. ASSUME TypeOK, NEW n \in ShareAmounts, DepositAllTokenTypes(n) \/ WithdrawAllTokenTypes(n),
             curve.curve_type # "ConstantPrice"
      PROVE  Kept
  BY <1>1, TwoSidedKeepsShares, PoolAssumption, WidthAssumption DEF U64
<1>2. TypeOK /\ [Next]_vars => [curve.curve_type # "ConstantPrice" /\ (Deposit \/ Withdraw) => Kept]_vars
  BY <1>1 DEF Deposit, Withdraw
<1> QED BY <1>2, TypeCorrect, PTL DEF Spec, EachSideKeepsItsShare

(* In every reachable state, a side that a two sided deposit is to be      *)
(* charged less for than its share is charged nothing.                     *)
THEOREM UnderchargesStayVisible == Spec => []UnderchargesAreZero
<1>1. TypeOK => UnderchargesAreZero
  <2> SUFFICES ASSUME TypeOK, curve.curve_type # "ConstantPrice", NEW n \in ShareAmounts,
                      NEW t \in PoolTokensToTradingTokens(curve, n, pool_supply, token_a, token_b, "Ceiling")
               PROVE  /\ t.token_a * pool_supply < n * token_a => t.token_a = 0
                      /\ t.token_b * pool_supply < n * (token_b + TokenBOffset(curve)) => t.token_b = 0
    BY DEF UnderchargesAreZero
  <2> DEFINE b == token_b + TokenBOffset(curve)
  <2>1. n \in Nat /\ token_a \in Nat /\ b \in Nat /\ pool_supply \in Nat
    BY TypeFacts, PoolAssumption, WidthAssumption DEF U64
  <2>2. /\ pool_supply \in Nat \ {0}
        /\ t.token_a = ShareOf(n, pool_supply, token_a, "Ceiling")
        /\ t.token_b = ShareOf(n, pool_supply, b, "Ceiling")
    BY <2>1 DEF PoolTokensToTradingTokens, ProductPoolTokensToTradingTokens
  <2> HIDE DEF b
  <2>3. /\ t.token_a \in Nat /\ (t.token_a > 0 => t.token_a * pool_supply >= n * token_a)
        /\ t.token_b \in Nat /\ (t.token_b > 0 => t.token_b * pool_supply >= n * b)
    BY <2>1, <2>2, ShareRounds
  <2>4. n * token_a \in Nat /\ n * b \in Nat
        /\ t.token_a * pool_supply \in Nat /\ t.token_b * pool_supply \in Nat
    BY <2>1, <2>3
  <2> QED BY <2>3, <2>4 DEF b
<1> QED BY <1>1, TypeCorrect, PTL

-----------------------------------------------------------------------------
(* In every reachable state the swap quotes of the multiplicative curves,  *)
(* in both directions, are the best the invariant allows.                  *)
THEOREM SwapQuotesStayBest == Spec => []SwapQuotesAreBest
<1>1. TypeOK => SwapQuotesAreBest
  <2> SUFFICES ASSUME TypeOK, Multiplicative(curve),
                      NEW direction \in TradeDirection, NEW x \in SwapAmounts,
                      NEW q \in SwapWithoutFees(curve, x, SourceSide(direction, token_a, token_b),
                                               SourceSide(Opposite(direction), token_a, token_b), direction)
               PROVE  LET e == token_b + TokenBOffset(curve)
                          s == SourceSide(direction, token_a, e)
                          d == SourceSide(Opposite(direction), token_a, e)
                      IN  /\ q.source \in 1..x
                          /\ token_a * e <= (s + q.source) * (d - q.destination)
                          /\ token_a * e > (s + x) * (d - q.destination - 1)
                          /\ token_a * e > (s + q.source - 1) * (d - q.destination)
    BY DEF SwapQuotesAreBest
  <2> DEFINE e == token_b + TokenBOffset(curve)
             a == SourceSide(direction, token_a, e)
             b == SourceSide(Opposite(direction), token_a, e)
             src == q.source
             dst == q.destination
  <2>1. a \in Nat /\ b \in Nat /\ x \in Nat
    BY TypeFacts, PoolAssumption, WidthAssumption DEF U64, SourceSide
  <2>2. q \in ProductSwap(x, a, b) /\ token_a * e = a * b
    <3>1. /\ SourceSide(direction, token_a, token_b) + SourceSide(direction, 0, TokenBOffset(curve)) = a
          /\ SourceSide(Opposite(direction), token_a, token_b)
               + SourceSide(direction, TokenBOffset(curve), 0) = b
      BY TypeFacts DEF SourceSide, Opposite, TradeDirection
    <3>2. token_a * e = a * b
      BY TypeFacts DEF SourceSide, Opposite, TradeDirection
    <3> QED BY <3>1, <3>2 DEF SwapWithoutFees, Multiplicative
  <2> HIDE DEF a, b
  <2>3. /\ src \in 1..x
        /\ dst \in 1..b
        /\ a * b <= (a + src) * (b - dst)
        /\ \A f \in 0..b : a * b <= (a + x) * (b - f) => f <= dst
        /\ \A y \in Nat : a * b <= (a + y) * (b - dst) => src <= y
    BY <2>1, <2>2, ProductSwapIsBest
  <2> HIDE DEF src, dst
  <2>4. a * b > (a + x) * (b - dst - 1)
    <3>1. CASE dst = b
      <4>1. (a + x) * (b - dst - 1) = 0 - (a + x)
        BY <3>1, <2>1
      <4>2. x > 0 /\ a * b >= 0
        BY <2>1, <2>3
      <4> QED BY <2>1, <4>1, <4>2
    <3>2. CASE dst < b
      <4>1. dst + 1 \in 0..b /\ b - (dst + 1) = b - dst - 1 /\ ~(dst + 1 <= dst)
        BY <2>1, <2>3, <3>2
      <4>2. ~(a * b <= (a + x) * (b - dst - 1))
        BY <2>3, <4>1
      <4>3. a * b \in Int /\ (a + x) * (b - dst - 1) \in Int
        BY <2>1, <2>3
      <4> QED BY <4>2, <4>3
    <3> QED BY <2>1, <2>3, <3>1, <3>2
  <2>5. a * b > (a + src - 1) * (b - dst)
    <3> DEFINE y == src - 1
    <3>1. y \in Nat /\ ~(src <= y) /\ a + src - 1 = a + y
      BY <2>1, <2>3
    <3> HIDE DEF y
    <3>2. ~(a * b <= (a + y) * (b - dst))
      BY <2>3, <3>1
    <3>3. a * b \in Int /\ (a + y) * (b - dst) \in Int
      BY <2>1, <2>3, <3>1
    <3> QED BY <3>1, <3>2, <3>3
  <2> QED BY <2>2, <2>3, <2>4, <2>5 DEF a, b, src, dst
<1> QED BY <1>1, TypeCorrect, PTL
=============================================================================
