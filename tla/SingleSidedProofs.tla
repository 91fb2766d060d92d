------------------------- MODULE SingleSidedProofs -------------------------
(***************************************************************************)
(* Single sided operations.  At a constant price the amount moved is all   *)
(* that is converted; on the multiplicative curves the conversion passes   *)
(* through a square root in fixed point, whose rounding decides by how     *)
(* much the other holders can be diluted.                                  *)
(***************************************************************************)
EXTENDS PoolProofs

(* What an amount of the source side is worth in token A. *)
WorthOf(price, amount, direction) == IF direction = "AtoB" THEN amount ELSE amount * price

(* Rounded down, the pool tokens given out are worth no more than what was *)
(* paid in, and rounded up, those taken back no less than what is paid out.*)
LEMMA ConversionRounds ==
    ASSUME NEW price \in Nat, NEW x \in Nat, NEW a \in Nat, NEW b \in Nat, NEW supply \in Nat,
           NEW direction \in TradeDirection
    PROVE  /\ \A n \in TradingTokensToPoolTokens(price, x, a, b, supply, direction, "Floor") :
                 n \in Nat /\ n * (b * price + a) <= supply * WorthOf(price, x, direction)
           /\ \A n \in TradingTokensToPoolTokens(price, x, a, b, supply, direction, "Ceiling") :
                 n \in Nat /\ n * (b * price + a) >= supply * WorthOf(price, x, direction)
<1> DEFINE given == WorthOf(price, x, direction)
           total == b * price + a
           value == supply * given
<1>1. given \in Nat
  BY DEF WorthOf
<1>2. total \in Nat
  OBVIOUS
<1> HIDE DEF given, total
<1>3. value \in Nat
  BY <1>1
<1> HIDE DEF value
<1>4. ASSUME NEW n \in TradingTokensToPoolTokens(price, x, a, b, supply, direction, "Floor")
      PROVE  n \in Nat /\ n * total <= value
  <2>1. total # 0 /\ n = value \div total
    BY <1>4 DEF TradingTokensToPoolTokens, WorthOf, given, total, value
  <2> QED BY <1>2, <1>3, <2>1, DivBelow
<1>5. ASSUME NEW n \in TradingTokensToPoolTokens(price, x, a, b, supply, direction, "Ceiling")
      PROVE  n \in Nat /\ n * total >= value
  <2>1. total # 0 /\ n \in {c.quotient : c \in CheckedCeilDiv(value, total)}
    BY <1>5 DEF TradingTokensToPoolTokens, WorthOf, given, total, value
  <2>2. n = Ceiling(value, total)
    BY <2>1 DEF CheckedCeilDiv
  <2> QED BY <1>2, <1>3, <2>1, <2>2, CeilingCovers
<1> QED BY <1>4, <1>5 DEF given, total, value

(* What remains of an amount after the fee on half of it. *)
LEMMA LessHalfFeeIsLess ==
    ASSUME NEW f \in CurveFees, NEW x \in Nat, NEW less \in LessHalfFee(f, x)
    PROVE  less \in 0..x /\ (f.trade_fee.numerator = 0 => less = x)
<1> DEFINE half == IF x < 2 THEN 1 ELSE x \div 2
<1>1. PICK fee \in TradingFee(f, half) : fee <= x /\ less = x - fee
  BY DEF LessHalfFee
<1>2. half \in Nat
  OBVIOUS
<1>3. fee \in Nat /\ (f.trade_fee.numerator = 0 => fee = 0)
  <2>1. f.trade_fee.numerator \in Nat /\ f.trade_fee.denominator \in Nat
    BY WidthAssumption DEF CurveFees, Fraction, U64
  <2> HIDE DEF half
  <2> DEFINE k == half * f.trade_fee.numerator
             q == k \div f.trade_fee.denominator
  <2>2. k \in Nat
    BY <1>2, <2>1
  <2> HIDE DEF k
  <2>3. fee = 0 \/ (f.trade_fee.numerator # 0 /\ f.trade_fee.denominator # 0 /\ (fee = 1 \/ fee = q))
    BY <1>1 DEF TradingFee, CalculateFee, k
  <2>4. f.trade_fee.denominator # 0 => q \in Nat
    BY <2>1, <2>2, DivBelow
  <2> QED BY <2>3, <2>4
<1> QED BY <1>1, <1>3

(* A larger amount is worth no less. *)
LEMMA WorthGrows ==
    ASSUME NEW price \in Nat, NEW x \in Nat, NEW y \in 0..x, NEW direction \in TradeDirection
    PROVE  /\ WorthOf(price, x, direction) \in Nat /\ WorthOf(price, y, direction) \in Nat
           /\ WorthOf(price, y, direction) <= WorthOf(price, x, direction)
<1>1. y * price <= x * price
  BY ProductMonotone
<1> QED BY <1>1 DEF WorthOf

(* A share price does not fall when pool tokens are given out for no less, *)
(* or taken back for no more, than they are worth.                         *)
LEMMA IssueKeepsWorth ==
    ASSUME NEW value \in Nat, NEW paid \in Nat, NEW given \in Nat, NEW supply \in Nat, NEW n \in Nat,
           given <= paid, n * value <= supply * given
    PROVE  (value + paid) * supply >= value * (supply + n)
<1>1. supply * given <= supply * paid
  BY ProductMonotone
<1>2. (value + paid) * supply = value * supply + supply * paid
  OBVIOUS
<1>3. value * (supply + n) = value * supply + n * value
  OBVIOUS
<1>4. value * supply \in Nat /\ supply * paid \in Nat /\ n * value \in Nat /\ supply * given \in Nat
  OBVIOUS
<1> QED BY <1>1, <1>2, <1>3, <1>4

LEMMA RedeemKeepsWorth ==
    ASSUME NEW value \in Nat, NEW paid \in Nat, NEW supply \in Nat, NEW n \in Nat,
           n * value >= supply * paid
    PROVE  (value - paid) * supply >= value * (supply - n)
<1>1. (value - paid) * supply = value * supply - supply * paid
  OBVIOUS
<1>2. value * (supply - n) = value * supply - n * value
  OBVIOUS
<1>3. value * supply \in Nat /\ supply * paid \in Nat /\ n * value \in Nat
  OBVIOUS
<1> QED BY <1>1, <1>2, <1>3

LEMMA PriceDepositKeepsWorth ==
    ASSUME TypeOK, curve.curve_type = "ConstantPrice", NEW direction \in TradeDirection,
           NEW x \in SingleAmounts, x # 0, DepositSingle(direction, x)
    PROVE  KeepsExactValue
<1> DEFINE p == curve.param
           value == token_b * p + token_a
<1>1. x \in Nat /\ p \in Nat /\ value \in Nat /\ curve' = curve
  BY TypeFacts, PoolAssumption, WidthAssumption DEF U64, DepositSingle
<1>2. PICK n \in DepositSingleTokenType(curve, fees, x, token_a, token_b, pool_supply, direction) :
         pool_supply' = pool_supply + n
  BY DEF DepositSingle, SupplyBecomes
<1>4. PICK less \in LessHalfFee(fees, x) :
         n \in TradingTokensToPoolTokens(p, less, token_a, token_b, pool_supply, direction, "Floor")
  BY <1>2 DEF DepositSingleTokenType, DepositWithoutFees
<1>5. less \in 0..x
  BY <1>1, <1>4, TypeFacts, LessHalfFeeIsLess
<1> DEFINE paid == WorthOf(p, x, direction)
           given == WorthOf(p, less, direction)
<1>6. paid \in Nat /\ given \in Nat /\ given <= paid
  <2> HIDE DEF p
  <2> QED BY <1>1, <1>5, WorthGrows
<1>7. n \in Nat /\ n * value <= pool_supply * given
  <2>1. less \in Nat /\ token_a \in Nat /\ token_b \in Nat /\ pool_supply \in Nat
    BY <1>1, <1>5, TypeFacts
  <2> HIDE DEF p
  <2> QED BY <1>1, <1>4, <2>1, ConversionRounds
<1>8. Value(token_a, token_b) = value /\ Value(token_a', token_b') = value + paid
  <2>1. /\ token_a' = token_a + SourceSide(direction, x, 0)
        /\ token_b' = token_b + SourceSide(direction, 0, x)
    BY DEF DepositSingle, Become
  <2> QED BY <1>1, <2>1, TypeFacts DEF Value, SourceSide, WorthOf
<1> HIDE DEF p, value, paid, given
<1>9. (value + paid) * pool_supply >= value * (pool_supply + n)
  BY <1>1, <1>6, <1>7, TypeFacts, IssueKeepsWorth
<1> QED BY <1>1, <1>2, <1>8, <1>9 DEF KeepsExactValue, WorthAtLeast

LEMMA PriceWithdrawalKeepsWorth ==
    ASSUME TypeOK, curve.curve_type = "ConstantPrice", fees.trade_fee.numerator = 0,
           NEW direction \in TradeDirection, NEW x \in SingleAmounts, x # 0,
           WithdrawSingle(direction, x)
    PROVE  KeepsExactValue
<1> DEFINE p == curve.param
           value == token_b * p + token_a
           paid == WorthOf(p, x, direction)
<1>1. x \in Nat /\ p \in Nat /\ value \in Nat /\ curve' = curve
  BY TypeFacts, PoolAssumption, WidthAssumption DEF U64, WithdrawSingle
<1>2. PICK n \in WithdrawSingleTokenTypeExactOut(curve, fees, x, token_a, token_b, pool_supply, direction) :
         pool_supply' = pool_supply - n
  BY DEF WithdrawSingle, SupplyBecomes
<1>4. PICK less \in LessHalfFee(fees, x) :
         n \in TradingTokensToPoolTokens(p, less, token_a, token_b, pool_supply, direction, "Ceiling")
  BY <1>2 DEF WithdrawSingleTokenTypeExactOut, WithdrawWithoutFees
<1>5. less = x
  BY <1>1, <1>4, TypeFacts, LessHalfFeeIsLess
<1>6. paid \in Nat
  BY <1>1 DEF WorthOf
<1>7. n \in Nat /\ n * value >= pool_supply * paid
  <2> HIDE DEF p
  <2> QED BY <1>1, <1>4, <1>5, TypeFacts, ConversionRounds
<1>8. Value(token_a, token_b) = value /\ Value(token_a', token_b') = value - paid
  <2>1. /\ token_a' = token_a - SourceSide(direction, x, 0)
        /\ token_b' = token_b - SourceSide(direction, 0, x)
    BY DEF WithdrawSingle, Become
  <2> QED BY <1>1, <2>1, TypeFacts DEF Value, SourceSide, WorthOf
<1> HIDE DEF p, value, paid
<1>9. (value - paid) * pool_supply >= value * (pool_supply - n)
  BY <1>1, <1>6, <1>7, TypeFacts, RedeemKeepsWorth
<1> QED BY <1>1, <1>2, <1>8, <1>9 DEF KeepsExactValue, WorthAtLeast

-----------------------------------------------------------------------------
(* The square root of n, rounded down.                                     *)
IsRoot(n, root) == root \in Nat /\ root * root <= n /\ n < (root + 1) * (root + 1)

LEMMA RootExists == ASSUME NEW n \in Nat PROVE \E root : IsRoot(n, root)
<1> DEFINE Above == {s \in Nat : s * s > n}
<1>1. n + 1 \in Above
  <2>1. (n + 1) * (n + 1) >= (n + 1) * 1
    BY ProductMonotone
  <2> QED BY <2>1
<1>2. PICK s \in Above : \A t \in Above : s <= t
  <2>1. Above \subseteq Nat /\ Above # {}
    BY <1>1
  <2> HIDE DEF Above
  <2> QED BY <2>1, LeastNatural
<1>3. s # 0 /\ s - 1 \in Nat /\ (s - 1) + 1 = s
  BY <1>2
<1>4. ~(s - 1 \in Above)
  BY <1>2, <1>3
<1>5. (s - 1) * (s - 1) <= n
  BY <1>3, <1>4
<1> QED BY <1>2, <1>3, <1>5 DEF IsRoot

(* Naturals are ordered as their squares are.                              *)
LEMMA SquaresOrder ==
    ASSUME NEW u \in Nat, NEW v \in Nat, u * u < v * v
    PROVE  u < v
<1>1. u >= v => u * u >= v * v
  BY ProductMonotone
<1>2. u * u \in Nat /\ v * v \in Nat
  OBVIOUS
<1> QED BY <1>1, <1>2

LEMMA RootIsOne ==
    ASSUME NEW n \in Nat, NEW r, NEW s, IsRoot(n, r), IsRoot(n, s)
    PROVE  r = s
<1>1. r < s + 1 /\ s < r + 1
  <2>1. r \in Nat /\ s \in Nat /\ r * r \in Nat /\ s * s \in Nat /\ (r + 1) * (r + 1) \in Nat /\ (s + 1) * (s + 1) \in Nat
    BY DEF IsRoot
  <2>2. r * r < (s + 1) * (s + 1) /\ s * s < (r + 1) * (r + 1)
    BY <2>1 DEF IsRoot
  <2> QED BY <2>1, <2>2, SquaresOrder
<1> QED BY <1>1 DEF IsRoot

(* The mean of a guess and n over it.                                      *)
Mean(n, guess) == (guess + n \div guess) \div 2

(* It is never more than the rounding below the root, and it falls until   *)
(* the guess is no longer above the root.                                  *)
LEMMA MeanFalls ==
    ASSUME NEW n \in Nat \ {0}, NEW guess \in Nat \ {0}
    PROVE  /\ Mean(n, guess) \in Nat \ {0}
           /\ n < (Mean(n, guess) + 1) * (Mean(n, guess) + 1)
           /\ Mean(n, guess) < guess <=> n < guess * guess
<1> DEFINE q == n \div guess
           mean == (guess + q) \div 2
<1>1. q \in Nat /\ n % guess \in 0..(guess - 1) /\ n = guess * q + (n % guess)
  BY DivMod
<1>2. mean = Mean(n, guess)
  BY DEF Mean
<1> HIDE DEF q
<1>3. mean \in Nat /\ 2 * mean <= guess + q /\ guess + q <= 2 * mean + 1
  BY <1>1
<1> HIDE DEF mean
<1>4. n < guess * (q + 1)
  BY <1>1
<1>5. guess * (q + 1) <= (mean + 1) * (mean + 1)
  <2>1. guess + (q + 1) <= 2 * (mean + 1)
    BY <1>1, <1>3
  <2> DEFINE u == guess
             v == q + 1
             w == mean + 1
  <2>2. u \in Nat /\ v \in Nat /\ w \in Nat /\ u + v <= 2 * w
    BY <1>1, <1>3, <2>1
  <2> HIDE DEF u, v, w
  <2>3. (u + v) * (u + v) <= (2 * w) * (2 * w)
    BY <2>2, ProductMonotone
  <2>4. (u - v) * (u - v) >= 0
    <3> DEFINE t == u - v
    <3>1. t \in Int
      BY <2>2
    <3> HIDE DEF t
    <3>2. t * t >= 0
      BY <3>1
    <3> QED BY <3>2 DEF t
  <2>5. (u + v) * (u + v) = (u - v) * (u - v) + 4 * (u * v) /\ (2 * w) * (2 * w) = 4 * (w * w)
    BY <2>2
  <2>6. u * v <= w * w
    <3> DEFINE s == (u - v) * (u - v)
    <3>1. s \in Int /\ u * v \in Int /\ w * w \in Int
      BY <2>2
    <3>2. s + 4 * (u * v) <= 4 * (w * w) /\ s >= 0
      BY <2>3, <2>4, <2>5
    <3> HIDE DEF s
    <3> QED BY <3>1, <3>2
  <2> QED BY <2>6 DEF u, v, w
<1>6. n < (mean + 1) * (mean + 1)
  BY <1>1, <1>3, <1>4, <1>5
<1>7. mean # 0
  BY <1>6
<1>8. mean < guess <=> q < guess
  BY <1>1, <1>3
<1>9. q < guess => n < guess * guess
  <2>1. q < guess => guess * (q + 1) <= guess * guess
    BY <1>1, ProductMonotone
  <2> QED BY <1>1, <1>4, <2>1
<1>10. q >= guess => n >= guess * guess
  <2>1. q >= guess => guess * q >= guess * guess
    BY <1>1, ProductMonotone
  <2> QED BY <1>1, <2>1
<1> QED BY <1>1, <1>2, <1>3, <1>6, <1>7, <1>8, <1>9, <1>10

(* Newton's method from a guess no lower than the root ends on it.         *)
LEMMA NewtonEndsOnRoot ==
    ASSUME NEW n \in Nat \ {0}, NEW newton,
           newton = [guess \in Nat \ {0} |->
                       IF Mean(n, guess) < guess THEN newton[Mean(n, guess)] ELSE guess],
           NEW start \in Nat \ {0}, n < (start + 1) * (start + 1)
    PROVE  IsRoot(n, newton[start])
<1> DEFINE Wrong == {guess \in Nat \ {0} : n < (guess + 1) * (guess + 1) /\ ~IsRoot(n, newton[guess])}
<1> SUFFICES ASSUME Wrong # {} PROVE FALSE
  OBVIOUS
<1>1. PICK guess \in Wrong : \A other \in Wrong : guess <= other
  <2>1. Wrong \subseteq Nat
    OBVIOUS
  <2> HIDE DEF Wrong
  <2> QED BY <2>1, LeastNatural
<1> DEFINE mean == Mean(n, guess)
<1>2. mean \in Nat \ {0} /\ n < (mean + 1) * (mean + 1) /\ (mean < guess <=> n < guess * guess)
  BY <1>1, MeanFalls
<1>3. newton[guess] = IF mean < guess THEN newton[mean] ELSE guess
  BY <1>1
<1> HIDE DEF mean
<1>4. CASE mean < guess
  BY <1>1, <1>2, <1>3, <1>4
<1>5. CASE ~(mean < guess)
  BY <1>1, <1>2, <1>3, <1>5 DEF IsRoot
<1> QED BY <1>4, <1>5

(* There is such a function: what it has above the root is the root.       *)
LEMMA NewtonIsDefined ==
    ASSUME NEW n \in Nat \ {0}
    PROVE  \E newton : newton = [guess \in Nat \ {0} |->
                                   IF Mean(n, guess) < guess THEN newton[Mean(n, guess)] ELSE guess]
<1>1. PICK root : IsRoot(n, root)
  BY RootExists
<1> DEFINE newton == [guess \in Nat \ {0} |-> IF n < guess * guess THEN root ELSE guess]
<1>2. ASSUME NEW guess \in Nat \ {0}
      PROVE  newton[guess] = IF Mean(n, guess) < guess THEN newton[Mean(n, guess)] ELSE guess
  <2> DEFINE mean == Mean(n, guess)
  <2>1. mean \in Nat \ {0} /\ n < (mean + 1) * (mean + 1) /\ (mean < guess <=> n < guess * guess)
    BY MeanFalls
  <2> HIDE DEF mean
  <2>2. newton[mean] = root
    <3>1. CASE n < mean * mean
      BY <2>1, <3>1
    <3>2. CASE ~(n < mean * mean)
      <4>1. IsRoot(n, mean)
        BY <2>1, <3>2 DEF IsRoot
      <4>2. mean = root
        BY <1>1, <4>1, RootIsOne
      <4> QED BY <2>1, <3>2, <4>2
    <3> QED BY <3>1, <3>2
  <2> QED BY <2>1, <2>2 DEF mean
<1>3. newton = [guess \in Nat \ {0} |->
                  IF Mean(n, guess) < guess THEN newton[Mean(n, guess)] ELSE guess]
  <2>1. newton = [guess \in Nat \ {0} |-> newton[guess]]
    OBVIOUS
  <2> QED BY <1>2, <2>1
<1> HIDE DEF newton
<1> QED BY <1>3

(* The square root of a fixed point number is the one of its number of     *)
(* units, rounded down or one unit above that.                             *)
LEMMA PreciseRootIsRoot ==
    ASSUME NEW x \in Nat \ {0}
    PROVE  \E root : /\ IsRoot(x * One + One \div 2, root)
                     /\ PreciseRoots(x) = {root, root + 1}
<1> DEFINE n == x * One + One \div 2
           start == (x + One) \div 2 + 1
           IsNewton(newton) == newton = [guess \in Nat \ {0} |->
                                 IF Mean(n, guess) < guess THEN newton[Mean(n, guess)] ELSE guess]
           newton == CHOOSE newton : IsNewton(newton)
<1>1. One \in Nat \ {0} /\ One \div 2 \in Nat /\ 2 * (One \div 2) <= One
  BY OneAssumption
<1>2. n \in Nat \ {0}
  <2>1. x * One >= 1 * 1
    BY <1>1, ProductMonotone
  <2> QED BY <1>1, <2>1
<1>3. IsNewton(newton)
  <2>1. \E f : IsNewton(f)
    <3> HIDE DEF n
    <3> QED BY <1>2, NewtonIsDefined
  <2> HIDE DEF IsNewton
  <2> QED BY <2>1
<1>4. PreciseRoots(x) = {newton[start], newton[start] + 1}
  BY DEF PreciseRoots, Mean
<1> HIDE DEF newton
<1>5. start \in Nat \ {0} /\ 2 * start >= x + One + 1
  BY <1>1
<1>6. n < (start + 1) * (start + 1)
  <2> DEFINE u == x + One + 1
             half == One \div 2
             s2 == start * start
  <2>1. (2 * start) * (2 * start) >= u * u
    <3> HIDE DEF start
    <3>1. u \in Nat /\ 2 * start \in Nat /\ 2 * start >= u
      BY <1>1, <1>5
    <3> HIDE DEF u
    <3> QED BY <3>1, ProductMonotone
  <2>2. u * u = (x - One) * (x - One) + 4 * (x * One) + 2 * x + 2 * One + 1
    BY <1>1
  <2>3. (x - One) * (x - One) >= 0
    <3> DEFINE t == x - One
    <3>1. t \in Int
      BY <1>1
    <3> HIDE DEF t
    <3>2. t * t >= 0
      BY <3>1
    <3> QED BY <3>2 DEF t
  <2>4. (2 * start) * (2 * start) = 4 * s2 /\ (start + 1) * (start + 1) = s2 + 2 * start + 1 /\ s2 \in Nat
    <3> HIDE DEF start
    <3> QED BY <1>5
  <2> DEFINE sq == (x - One) * (x - One)
             k == x * One
  <2>5. sq \in Int /\ k \in Nat /\ sq >= 0
    BY <1>1, <2>3
  <2>6. 4 * s2 >= sq + 4 * k + 2 * x + 2 * One + 1
    BY <2>1, <2>2, <2>4
  <2>7. n = k + half /\ half \in Nat /\ 2 * half <= One
    BY <1>1
  <2> HIDE DEF sq, k, s2, start, n, half
  <2> QED BY <1>1, <1>5, <2>4, <2>5, <2>6, <2>7
<1>7. IsRoot(n, newton[start])
  <2> HIDE DEF start, n
  <2> QED BY <1>2, <1>3, <1>5, <1>6, NewtonEndsOnRoot
<1> QED BY <1>4, <1>7

(* What is off by less than a unit is not off.                             *)
LEMMA UnitDecides ==
    ASSUME NEW u \in Int, NEW v \in Int, NEW unit \in Nat \ {0}, u * unit < v * unit + unit
    PROVE  u <= v
<1>1. u >= v + 1 => u * unit >= (v + 1) * unit
  OBVIOUS
<1>2. (v + 1) * unit = v * unit + unit /\ u * unit \in Int /\ v * unit \in Int
  OBVIOUS
<1> QED BY <1>1, <1>2

(* The share of the side that an amount is, in fixed point.                *)
LEMMA RatioRounds ==
    ASSUME NEW x \in Nat, NEW held \in Nat, NEW ratio \in PreciseDiv(x * One, held * One)
    PROVE  /\ held # 0 /\ ratio \in Nat
           /\ ratio * held <= x * One
           /\ ratio * held > x * One - held
<1> DEFINE num == (x * One) * One + One \div 2
           den == held * One
           half == One \div 2
<1>1. One \in Nat \ {0} /\ half \in Nat /\ half < One
  BY OneAssumption
<1>2. den # 0 /\ ratio = num \div den
  BY DEF PreciseDiv
<1>3. held # 0
  BY <1>1, <1>2
<1>4. num \in Nat /\ den \in Nat \ {0}
  BY <1>1, <1>2
<1>5. ratio \in Nat /\ ratio * den <= num /\ ratio * den >= num - den + 1
  <2> HIDE DEF num, den
  <2> QED BY <1>2, <1>4, DivBelow, DivAbove
<1> DEFINE u == ratio * held
           v == x * One
<1>6. u \in Nat /\ v \in Nat /\ ratio * den = u * One /\ num = v * One + half
  BY <1>1, <1>5
<1> HIDE DEF half, num, u, v
<1>7. u <= v
  <2>1. u * One < v * One + One
    BY <1>1, <1>4, <1>5, <1>6
  <2> QED BY <1>1, <1>6, <2>1, UnitDecides
<1>8. v <= u + held - 1
  <2> DEFINE w == u + held - 1
  <2>1. w * One = u * One + den - One /\ w \in Int
    BY <1>1, <1>6
  <2> HIDE DEF w
  <2>2. v * One < w * One + One
    BY <1>1, <1>4, <1>5, <1>6, <2>1
  <2>3. v <= w
    BY <1>1, <1>6, <2>1, <2>2, UnitDecides
  <2> QED BY <2>3 DEF w
<1> QED BY <1>3, <1>5, <1>6, <1>7, <1>8 DEF u, v

(* Pool tokens times a fixed point number, which is then whole.            *)
LEMMA SupplyTimes ==
    ASSUME NEW supply \in Nat, NEW t \in Nat
    PROVE  PreciseMul(supply * One, t) = supply * t
<1> DEFINE whole == supply * t
           half == One \div 2
           num == One * whole + half
           q == num \div One
           rest == num % One
<1>1. One \in Nat \ {0} /\ half \in Nat /\ half < One /\ whole \in Nat
  BY OneAssumption
<1>2. (supply * One) * t = One * whole
  BY <1>1
<1> HIDE DEF whole, half
<1>3. num \in Nat
  BY <1>1
<1>4. q \in Nat /\ rest \in 0..(One - 1) /\ num = One * q + rest
  <2> HIDE DEF num
  <2> QED BY <1>1, <1>3, DivMod
<1> HIDE DEF q, rest
<1>5. whole <= q /\ q <= whole
  <2>1. whole * One < q * One + One /\ q * One < whole * One + One
    BY <1>1, <1>4
  <2> QED BY <1>1, <1>4, <2>1, UnitDecides
<1>6. q = whole
  BY <1>1, <1>4, <1>5
<1> QED BY <1>2, <1>6 DEF PreciseMul, q, num, whole, half

(* A root, or one unit above it, is at least the least of its square.      *)
LEMMA RootBounds ==
    ASSUME NEW x \in Nat \ {0}, NEW root \in PreciseRoots(x)
    PROVE  LET n == x * One + One \div 2
           IN  /\ n \in Nat /\ root \in Nat \ {0}
               /\ root * root <= n + 2 * root - 1
               /\ n < (root + 1) * (root + 1)
<1> DEFINE n == x * One + One \div 2
<1>1. PICK r : IsRoot(n, r) /\ PreciseRoots(x) = {r, r + 1}
  BY PreciseRootIsRoot
<1>2. n \in Nat /\ n >= 1
  <2>1. One \in Nat \ {0} /\ One \div 2 \in Nat
    BY OneAssumption
  <2>2. x * One >= 1 * 1
    BY <2>1, ProductMonotone
  <2> QED BY <2>1, <2>2
<1> HIDE DEF n
<1>3. r \in Nat /\ r * r <= n /\ n < (r + 1) * (r + 1) /\ r # 0
  BY <1>1, <1>2 DEF IsRoot
<1>4. CASE root = r
  BY <1>2, <1>3, <1>4 DEF n
<1>5. CASE root = r + 1
  <2>1. root * root = r * r + 2 * r + 1 /\ (root + 1) * (root + 1) = (r + 1) * (r + 1) + 2 * r + 3
    BY <1>3, <1>5
  <2>2. r * r \in Nat /\ (r + 1) * (r + 1) \in Nat
    BY <1>3
  <2> QED BY <1>2, <1>3, <1>5, <2>1, <2>2 DEF n
<1> QED BY <1>1, <1>4, <1>5

(* Pool tokens for a deposit, from the root of how much the side grows.    *)
LEMMA ProductDepositRounds ==
    ASSUME NEW x \in Nat, NEW held \in Nat, NEW supply \in Nat,
           NEW minted \in ProductDepositSingle(x, held, supply)
    PROVE  /\ held # 0 /\ minted \in Nat
           /\ \E root \in Nat \ {0} :
                 /\ (supply + minted) * One <= supply * root
                 /\ supply * root < (supply + minted + 1) * One
                 /\ held * (root * root) <= (held + x) * (One * One) + held * (One \div 2)
                                              + held * (2 * root - 1)
<1> DEFINE half == One \div 2
<1>1. PICK ratio \in PreciseDiv(x * One, held * One) :
         \E root \in PreciseRoots(One + ratio) :
            minted = PreciseFloor(PreciseMul(supply * One, root - One))
  BY DEF ProductDepositSingle
<1> PICK root \in PreciseRoots(One + ratio) :
         minted = PreciseFloor(PreciseMul(supply * One, root - One))
  BY <1>1
<1>2. held # 0 /\ ratio \in Nat /\ ratio * held <= x * One
  BY <1>1, RatioRounds
<1>3. One \in Nat \ {0} /\ half \in Nat
  BY OneAssumption
<1> DEFINE n == (One + ratio) * One + half
           square == One * One
<1>4. /\ n \in Nat /\ root \in Nat \ {0}
      /\ root * root <= n + 2 * root - 1 /\ n < (root + 1) * (root + 1)
  <2>1. One + ratio \in Nat \ {0}
    BY <1>2, <1>3
  <2> QED BY <1>1, <2>1, RootBounds
<1>5. square \in Nat /\ ratio * One \in Nat /\ n = square + ratio * One + half
  BY <1>2, <1>3
<1>6. root >= One
  <2>1. One * One < (root + 1) * (root + 1)
    <3> HIDE DEF half, n
    <3>1. (root + 1) * (root + 1) \in Nat
      BY <1>4
    <3> QED BY <1>3, <1>4, <1>5, <3>1
  <2>2. One < root + 1
    BY <1>3, <1>4, <2>1, SquaresOrder
  <2> QED BY <1>3, <1>4, <2>2
<1> DEFINE grown == supply * (root - One)
<1>7. minted = grown \div One /\ grown \in Nat
  <2>1. root - One \in Nat
    BY <1>3, <1>4, <1>6
  <2>2. PreciseMul(supply * One, root - One) = grown
    BY <2>1, SupplyTimes
  <2>3. grown \in Nat
    <3> DEFINE t == root - One
    <3>1. t \in Nat
      BY <2>1
    <3> HIDE DEF t
    <3>2. supply * t \in Nat
      BY <3>1
    <3> QED BY <3>2 DEF t
  <2> QED BY <2>2, <2>3 DEF PreciseFloor
<1>8. minted \in Nat /\ minted * One <= grown /\ minted * One >= grown - One + 1
  <2> HIDE DEF grown
  <2> QED BY <1>3, <1>7, DivBelow, DivAbove
<1>9. grown = supply * root - supply * One
  BY <1>3, <1>4
<1>10. (supply + minted) * One = supply * One + minted * One
  BY <1>3, <1>8
<1>11. (supply + minted + 1) * One = supply * One + minted * One + One
  <2> DEFINE w == supply + minted
  <2>1. w \in Nat
    BY <1>8
  <2> HIDE DEF w
  <2>2. (w + 1) * One = w * One + One
    BY <1>3, <2>1
  <2> QED BY <1>10, <2>2 DEF w
<1>12. supply * root \in Nat /\ supply * One \in Nat /\ minted * One \in Nat
  BY <1>3, <1>4, <1>8
<1>13. (supply + minted) * One <= supply * root /\ supply * root < (supply + minted + 1) * One
  <2> HIDE DEF grown
  <2> QED BY <1>3, <1>8, <1>9, <1>10, <1>11, <1>12
<1>14. held * (root * root) <= (held + x) * square + held * half + held * (2 * root - 1)
  <2> DEFINE rr == root * root
             k == ratio * One
  <2>1. rr \in Nat /\ rr <= square + k + half + 2 * root - 1 /\ k \in Nat
    BY <1>4, <1>5
  <2>2. held * k <= x * square
    <3>1. (ratio * held) * One <= (x * One) * One
      <4>1. ratio * held \in Nat /\ x * One \in Nat
        BY <1>2, <1>3
      <4> QED BY <1>2, <1>3, <4>1, ProductMonotone
    <3> QED BY <1>2, <1>3, <3>1
  <2> HIDE DEF rr, k, square, half
  <2>3. held * rr <= held * (square + k + half + 2 * root - 1)
    <3>1. square + k + half + 2 * root - 1 \in Nat
      BY <1>3, <1>4, <1>5, <2>1
    <3> QED BY <2>1, <3>1, ProductMonotone
  <2>4. held * (square + k + half + 2 * root - 1)
          = held * square + held * k + held * half + held * (2 * root - 1)
    BY <1>3, <1>4, <1>5, <2>1
  <2>5. (held + x) * square = held * square + x * square
    BY <1>5
  <2>6. /\ held * rr \in Nat /\ held * square \in Nat /\ x * square \in Nat /\ held * k \in Nat
        /\ held * half \in Nat /\ held * (2 * root - 1) \in Int
    BY <1>3, <1>4, <1>5, <2>1
  <2>7. held * rr <= (held + x) * square + held * half + held * (2 * root - 1)
    BY <2>2, <2>3, <2>4, <2>5, <2>6
  <2> QED BY <2>7 DEF rr
<1> QED BY <1>2, <1>4, <1>8, <1>13, <1>14

(* Pool tokens for a withdrawal, from the root of what the side keeps.     *)
LEMMA ProductWithdrawRounds ==
    ASSUME NEW x \in Nat, NEW held \in Nat, NEW supply \in Nat,
           NEW burned \in ProductWithdrawSingle(x, held, supply)
    PROVE  /\ held # 0 /\ burned \in Nat
           /\ \E root \in 0..One :
                 /\ burned * One >= supply * (One - root)
                 /\ root = 0 \/ held * (root * root) <= (held - x) * (One * One) + held * One
                                   + held * (One \div 2) + held * (2 * root - 1)
<1> DEFINE half == One \div 2
<1>1. PICK ratio \in PreciseDiv(x * One, held * One) :
         /\ ratio <= One
         /\ \E root \in PreciseRoots(One - ratio) :
              root <= One /\ burned = PreciseCeiling(PreciseMul(supply * One, One - root))
  BY DEF ProductWithdrawSingle
<1> PICK root \in PreciseRoots(One - ratio) :
         root <= One /\ burned = PreciseCeiling(PreciseMul(supply * One, One - root))
  BY <1>1
<1>2. held # 0 /\ ratio \in Nat /\ ratio * held > x * One - held
  BY <1>1, RatioRounds
<1>3. One \in Nat \ {0} /\ half \in Nat
  BY OneAssumption
<1> DEFINE n == (One - ratio) * One + half
           square == One * One
<1>4. root \in 0..One /\ (root # 0 => root * root <= n + 2 * root - 1 /\ n \in Nat)
  <2>1. CASE One - ratio = 0
    BY <1>3, <2>1 DEF PreciseRoots
  <2>2. CASE One - ratio # 0
    <3>1. One - ratio \in Nat \ {0}
      BY <1>1, <1>2, <1>3, <2>2
    <3>2. n \in Nat /\ root \in Nat \ {0} /\ root * root <= n + 2 * root - 1
      BY <3>1, RootBounds
    <3> QED BY <1>3, <3>2
  <2> QED BY <2>1, <2>2
<1> DEFINE t == One - root
           shrunk == supply * t
<1>5. t \in Nat
  BY <1>3, <1>4
<1>6. PreciseMul(supply * One, t) = shrunk
  <2> HIDE DEF t
  <2> QED BY <1>5, SupplyTimes
<1>7. burned = Ceiling(shrunk, One)
  BY <1>6 DEF PreciseCeiling
<1>8. burned \in Nat /\ burned * One >= shrunk
  <2>1. shrunk \in Nat
    <3> HIDE DEF t
    <3> QED BY <1>5
  <2> HIDE DEF shrunk
  <2> QED BY <1>3, <1>7, <2>1, CeilingCovers
<1>9. ASSUME root # 0
      PROVE  held * (root * root) <= (held - x) * square + held * One + held * half + held * (2 * root - 1)
  <2> DEFINE rr == root * root
             k == ratio * One
             c == 2 * root - 1
  <2>1. rr \in Nat /\ rr <= square - k + half + c /\ k \in Nat /\ square \in Nat /\ c \in Nat
    <3>1. (One - ratio) * One = square - k
      BY <1>2, <1>3
    <3>2. k \in Nat /\ square \in Nat /\ rr \in Nat /\ c \in Nat
      BY <1>2, <1>3, <1>4, <1>9
    <3> QED BY <1>3, <1>4, <1>9, <3>1, <3>2
  <2>2. held * k >= x * square - held * One
    <3> DEFINE rh == ratio * held
               xo == x * One
    <3>1. rh \in Nat /\ xo \in Nat /\ rh + held >= xo
      BY <1>2, <1>3
    <3>2. (rh + held) * One >= xo * One
      <4> HIDE DEF rh, xo
      <4> QED BY <1>3, <3>1, ProductMonotone
    <3>3. (rh + held) * One = held * k + held * One /\ xo * One = x * square
      BY <1>2, <1>3
    <3>4. held * k \in Nat /\ held * One \in Nat /\ x * square \in Nat
      BY <1>3, <2>1
    <3> QED BY <3>2, <3>3, <3>4
  <2> HIDE DEF rr, k, c, square, half
  <2>3. held * rr <= held * (square - k + half + c)
    <3>1. square - k + half + c \in Nat
      BY <1>3, <2>1
    <3> QED BY <2>1, <3>1, ProductMonotone
  <2>4. held * (square - k + half + c) = held * square - held * k + held * half + held * c
    BY <1>3, <2>1
  <2>5. (held - x) * square = held * square - x * square
    BY <2>1
  <2>6. /\ held * rr \in Nat /\ held * square \in Nat /\ x * square \in Nat /\ held * k \in Nat
        /\ held * half \in Nat /\ held * c \in Nat /\ held * One \in Nat
    BY <1>3, <2>1
  <2>7. held * rr <= (held - x) * square + held * One + held * half + held * c
    BY <2>2, <2>3, <2>4, <2>5, <2>6
  <2> QED BY <2>7 DEF rr, c
<1> QED BY <1>2, <1>4, <1>8, <1>9

-----------------------------------------------------------------------------
(* A supply within a token of what the root allows: the remainder of the   *)
(* fixed point is at least seven eighths, which outweighs what its         *)
(* rounding adds.                                                          *)
LEMMA RootWithinOneToken ==
    ASSUME NEW held \in Nat, NEW kept \in Int, NEW supply \in Nat, NEW rest \in Nat,
           NEW root \in Nat \ {0}, NEW unit \in Nat \ {0},
           (rest + 1) * unit <= supply * root,
           held * ((root - 1) * (root - 1)) <= kept * (unit * unit) + 2 * (held * unit),
           8 * supply <= unit, supply <= 2 * (rest + 1)
    PROVE  held * (rest * rest) <= kept * (supply * supply)
<1> DEFINE free == unit - supply
           low == root - 1
           reach == rest * unit + free
           extra == 2 * ((rest * unit) * free) + free * free
<1>1. free \in Nat /\ free >= 7 * supply /\ 8 * free >= 7 * unit /\ low \in Nat
  OBVIOUS
<1>2. reach \in Nat /\ supply * low \in Nat /\ reach <= supply * low
  <2>1. (rest + 1) * unit = rest * unit + unit /\ rest * unit \in Nat
    OBVIOUS
  <2>2. supply * low = supply * root - supply /\ supply * root \in Nat
    OBVIOUS
  <2> QED BY <1>1, <2>1, <2>2
<1>3. reach * reach <= (supply * low) * (supply * low)
  <2> HIDE DEF reach, low
  <2> QED BY <1>2, ProductMonotone
<1>4. reach * reach = (rest * rest) * (unit * unit) + extra
  <2> HIDE DEF free
  <2> QED BY <1>1
<1>5. (supply * low) * (supply * low) = (supply * supply) * (low * low)
  BY <1>1
<1>6. extra \in Nat /\ extra >= 2 * ((supply * supply) * unit)
  <2>1. (rest * unit) * free >= (rest * unit) * (7 * supply)
    <3>1. rest * unit \in Nat
      OBVIOUS
    <3> QED BY <1>1, <3>1, ProductMonotone
  <2>2. (8 * free) * free >= (7 * unit) * (7 * supply)
    <3> HIDE DEF free
    <3>1. 8 * free \in Nat /\ 7 * unit \in Nat /\ 7 * supply \in Nat
      BY <1>1
    <3> QED BY <1>1, <3>1, ProductMonotone
  <2> DEFINE us == unit * supply
             f2 == free * free
  <2>3. (8 * free) * free = 8 * f2 /\ (7 * unit) * (7 * supply) = 49 * us /\ f2 \in Nat /\ us \in Nat
    <3> HIDE DEF free
    <3> QED BY <1>1
  <2>4. f2 >= 6 * us
    <3> HIDE DEF f2, us
    <3> QED BY <2>2, <2>3
  <2>5. (rest * unit) * (7 * supply) = 7 * (rest * us)
    OBVIOUS
  <2>6. us * (14 * rest + 6) >= us * (2 * supply)
    <3>1. 14 * rest + 6 >= 2 * supply
      OBVIOUS
    <3> HIDE DEF us
    <3> QED BY <2>3, <3>1, ProductMonotone
  <2>7. us * (14 * rest + 6) = 14 * (rest * us) + 6 * us /\ us * (2 * supply) = 2 * ((supply * supply) * unit)
    OBVIOUS
  <2>8. rest * us \in Nat /\ (supply * supply) * unit \in Nat /\ (rest * unit) * free \in Nat
    <3> HIDE DEF free
    <3> QED BY <1>1
  <2> HIDE DEF free, us
  <2> QED BY <2>1, <2>3, <2>4, <2>5, <2>6, <2>7, <2>8
<1> DEFINE r2 == rest * rest
           s2 == supply * supply
           u2 == unit * unit
           l2 == low * low
<1>7. r2 \in Nat /\ s2 \in Nat /\ u2 \in Nat \ {0} /\ l2 \in Nat
  BY <1>1
<1>8. r2 * u2 + extra <= s2 * l2
  BY <1>3, <1>4, <1>5
<1>9. extra >= 2 * (s2 * unit) /\ held * l2 <= kept * u2 + 2 * (held * unit)
  BY <1>6
<1> HIDE DEF r2, s2, u2, l2, extra, low, free, reach
<1>10. held * (r2 * u2 + extra) <= held * (s2 * l2)
  <2>1. r2 * u2 + extra \in Nat /\ s2 * l2 \in Nat
    BY <1>6, <1>7
  <2> QED BY <1>8, <2>1, ProductMonotone
<1>11. s2 * (held * l2) <= s2 * (kept * u2 + 2 * (held * unit))
  <2> DEFINE p == held * l2
             q == kept * u2 + 2 * (held * unit)
  <2>1. p \in Nat /\ q \in Int /\ p <= q
    BY <1>7, <1>9
  <2> HIDE DEF p, q
  <2>2. q \in Nat
    BY <2>1
  <2>3. s2 * q >= s2 * p
    BY <1>7, <2>1, <2>2, ProductMonotone
  <2> QED BY <2>3 DEF p, q
<1>12. held * extra >= held * (2 * (s2 * unit))
  <2>1. 2 * (s2 * unit) \in Nat
    BY <1>7
  <2> QED BY <1>6, <1>9, <2>1, ProductMonotone
<1>13. (held * r2) * u2 <= (kept * s2) * u2
  <2>1. held * (r2 * u2 + extra) = (held * r2) * u2 + held * extra
    BY <1>6, <1>7
  <2>2. s2 * (kept * u2 + 2 * (held * unit)) = (kept * s2) * u2 + held * (2 * (s2 * unit))
    BY <1>7
  <2>3. held * (s2 * l2) = s2 * (held * l2)
    BY <1>7
  <2>4. /\ (held * r2) * u2 \in Int /\ held * extra \in Int /\ (kept * s2) * u2 \in Int
        /\ held * (2 * (s2 * unit)) \in Int /\ held * (s2 * l2) \in Int
    BY <1>6, <1>7
  <2> QED BY <1>10, <1>11, <1>12, <2>1, <2>2, <2>3, <2>4
<1>14. held * r2 <= kept * s2
  <2> DEFINE p == held * r2
             q == kept * s2
  <2>1. p \in Int /\ q \in Int
    BY <1>7
  <2>2. p * u2 <= q * u2
    BY <1>13
  <2> HIDE DEF p, q
  <2>3. p * u2 \in Int /\ q * u2 \in Int
    BY <1>7, <2>1
  <2>4. p * u2 < q * u2 + u2
    BY <1>7, <2>2, <2>3
  <2>5. p <= q
    BY <1>7, <2>1, <2>4, UnitDecides
  <2> QED BY <2>5 DEF p, q
<1> QED BY <1>14 DEF r2, s2

(* And exactly within it, where what the rounding adds is less than a unit.*)
LEMMA RootIsExact ==
    ASSUME NEW held \in Nat, NEW kept \in Int, NEW supply \in Nat, NEW rest \in Nat,
           NEW root \in Nat, NEW error \in Nat, NEW unit \in Nat \ {0},
           rest * unit <= supply * root,
           held * (root * root) <= kept * (unit * unit) + held * error,
           (supply * supply) * (held * error) < unit * unit
    PROVE  held * (rest * rest) <= kept * (supply * supply)
<1> DEFINE r2 == rest * rest
           s2 == supply * supply
           u2 == unit * unit
           l2 == root * root
           he == held * error
           p == held * r2
           q == kept * s2
<1>1. r2 \in Nat /\ s2 \in Nat /\ u2 \in Nat \ {0} /\ l2 \in Nat /\ he \in Nat
  OBVIOUS
<1>2. r2 * u2 <= s2 * l2
  <2>1. (supply * root) * (supply * root) >= (rest * unit) * (rest * unit)
    <3>1. rest * unit \in Nat /\ supply * root \in Nat
      OBVIOUS
    <3> QED BY <3>1, ProductMonotone
  <2>2. (rest * unit) * (rest * unit) = r2 * u2 /\ (supply * root) * (supply * root) = s2 * l2
    OBVIOUS
  <2> QED BY <2>1, <2>2
<1>3. held * l2 <= kept * u2 + he /\ s2 * he < u2
  OBVIOUS
<1> HIDE DEF r2, s2, u2, l2, he
<1>4. held * (r2 * u2) <= held * (s2 * l2)
  <2>1. r2 * u2 \in Nat /\ s2 * l2 \in Nat
    BY <1>1
  <2> QED BY <1>2, <2>1, ProductMonotone
<1>5. s2 * (held * l2) <= s2 * (kept * u2 + he)
  <2> DEFINE v == held * l2
             w == kept * u2 + he
  <2>1. v \in Nat /\ w \in Int /\ v <= w
    BY <1>1, <1>3
  <2> HIDE DEF v, w
  <2>2. w \in Nat
    BY <2>1
  <2>3. s2 * w >= s2 * v
    BY <1>1, <2>1, <2>2, ProductMonotone
  <2> QED BY <2>3 DEF v, w
<1>6. p * u2 < q * u2 + u2
  <2>1. held * (r2 * u2) = p * u2 /\ held * (s2 * l2) = s2 * (held * l2)
    BY <1>1
  <2>2. s2 * (kept * u2 + he) = q * u2 + s2 * he
    BY <1>1
  <2>3. p * u2 \in Int /\ q * u2 \in Int /\ s2 * he \in Int /\ s2 * (held * l2) \in Int
    BY <1>1
  <2> QED BY <1>1, <1>3, <1>4, <1>5, <2>1, <2>2, <2>3
<1>7. p \in Int /\ q \in Int
  BY <1>1
<1>8. p <= q
  <2> HIDE DEF p, q
  <2> QED BY <1>1, <1>6, <1>7, UnitDecides
<1> QED BY <1>8 DEF r2, s2

-----------------------------------------------------------------------------
(* A side multiplied by the other one.                                     *)
LEMMA SideDecides ==
    ASSUME NEW held \in Nat, NEW kept \in Int, NEW other \in Nat, NEW supply \in Nat, NEW rest \in Nat,
           held * (rest * rest) <= kept * (supply * supply)
    PROVE  (kept * other) * supply * supply >= (held * other) * rest * rest
<1> DEFINE u == held * (rest * rest)
           v == kept * (supply * supply)
<1>1. u \in Nat /\ v \in Int /\ u <= v
  OBVIOUS
<1>2. (kept * other) * supply * supply = v * other /\ (held * other) * rest * rest = u * other
  OBVIOUS
<1> HIDE DEF u, v
<1>3. v * other >= u * other
  <2>1. v \in Nat
    BY <1>1
  <2> QED BY <1>1, <2>1, ProductMonotone
<1> QED BY <1>2, <1>3

(* What a single sided deposit reads and writes on these curves.           *)
LEMMA RootDeposit ==
    ASSUME TypeOK, Multiplicative(curve), NEW direction \in TradeDirection,
           NEW x \in SingleAmounts, x # 0, DepositSingle(direction, x)
    PROVE  \E held \in {token_a, token_b + TokenBOffset(curve)}, other \in Nat, less \in 0..x, n \in Nat :
             /\ n \in ProductDepositSingle(less, held, pool_supply)
             /\ pool_supply' = pool_supply + n
             /\ x \in Nat
             /\ Value(token_a, token_b) = held * other
             /\ Value(token_a', token_b') = (held + x) * other
<1> DEFINE b == token_b + TokenBOffset(curve)
           held == SourceSide(direction, token_a, b)
           other == SourceSide(direction, b, token_a)
<1>1. /\ x \in Nat /\ b \in Nat /\ held \in Nat /\ other \in Nat
      /\ held \in {token_a, b}
  BY TypeFacts, PoolAssumption, WidthAssumption DEF U64, SourceSide
<1>2. PICK n \in DepositSingleTokenType(curve, fees, x, token_a, token_b, pool_supply, direction) :
         pool_supply' = pool_supply + n
  BY DEF DepositSingle, SupplyBecomes
<1>4. PICK less \in LessHalfFee(fees, x) : n \in ProductDepositSingle(less, held, pool_supply)
  BY <1>2 DEF DepositSingleTokenType, DepositWithoutFees, Multiplicative
<1>5. less \in 0..x
  BY <1>1, <1>4, TypeFacts, LessHalfFeeIsLess
<1>6. n \in Nat
  <2>1. less \in Nat
    BY <1>1, <1>5
  <2> HIDE DEF held
  <2> QED BY <1>1, <1>4, <2>1, TypeFacts, ProductDepositRounds
<1>7. Value(token_a, token_b) = held * other /\ Value(token_a', token_b') = (held + x) * other
  <2>1. /\ token_a' = token_a + SourceSide(direction, x, 0)
        /\ token_b' = token_b + SourceSide(direction, 0, x)
        /\ curve.curve_type # "ConstantPrice"
    BY DEF DepositSingle, Become, Multiplicative
  <2> QED BY <1>1, <2>1, TypeFacts DEF Value, SourceSide
<1> HIDE DEF held, other
<1> QED BY <1>1, <1>2, <1>4, <1>5, <1>6, <1>7

(* And a single sided withdrawal without a trading fee.                    *)
LEMMA RootWithdrawal ==
    ASSUME TypeOK, Multiplicative(curve), fees.trade_fee.numerator = 0,
           NEW direction \in TradeDirection, NEW x \in SingleAmounts, x # 0,
           WithdrawSingle(direction, x)
    PROVE  \E held \in {token_a, token_b + TokenBOffset(curve)}, other \in Nat, n \in Nat :
             /\ n \in ProductWithdrawSingle(x, held, pool_supply)
             /\ pool_supply' = pool_supply - n /\ pool_supply' \in Nat
             /\ x \in Nat /\ held - x \in Nat
             /\ Value(token_a, token_b) = held * other
             /\ Value(token_a', token_b') = (held - x) * other
<1> DEFINE b == token_b + TokenBOffset(curve)
           held == SourceSide(direction, token_a, b)
           other == SourceSide(direction, b, token_a)
<1>1. /\ x \in Nat /\ b \in Nat /\ held \in Nat /\ other \in Nat
      /\ held \in {token_a, b}
  BY TypeFacts, PoolAssumption, WidthAssumption DEF U64, SourceSide
<1>2. PICK n \in WithdrawSingleTokenTypeExactOut(curve, fees, x, token_a, token_b, pool_supply, direction) :
         pool_supply' = pool_supply - n /\ pool_supply' \in U64
  BY DEF WithdrawSingle, SupplyBecomes
<1>4. PICK less \in LessHalfFee(fees, x) : n \in ProductWithdrawSingle(less, held, pool_supply)
  BY <1>2 DEF WithdrawSingleTokenTypeExactOut, WithdrawWithoutFees, Multiplicative
<1>5. less = x
  BY <1>1, <1>4, TypeFacts, LessHalfFeeIsLess
<1>6. n \in Nat
  <2> HIDE DEF held
  <2> QED BY <1>1, <1>4, <1>5, TypeFacts, ProductWithdrawRounds
<1>7. Value(token_a, token_b) = held * other /\ Value(token_a', token_b') = (held - x) * other
  <2>1. /\ token_a' = token_a - SourceSide(direction, x, 0)
        /\ token_b' = token_b - SourceSide(direction, 0, x)
        /\ curve.curve_type # "ConstantPrice"
    BY DEF WithdrawSingle, Become, Multiplicative
  <2> QED BY <1>1, <2>1, TypeFacts DEF Value, SourceSide
<1>8. pool_supply' \in Nat
  BY <1>2, WidthAssumption DEF U64
<1>9. held - x \in Nat
  <2>1. /\ token_a - SourceSide(direction, x, 0) \in Nat
        /\ token_b - SourceSide(direction, 0, x) \in Nat
    BY WidthAssumption DEF WithdrawSingle, Become, U64
  <2> QED BY <1>1, <2>1, TypeFacts DEF SourceSide
<1> HIDE DEF held, other
<1> QED BY <1>1, <1>2, <1>4, <1>5, <1>6, <1>7, <1>8, <1>9

(* The share price of a multiplicative curve after a step that changes one *)
(* side from held to kept, and the supply to rest.                         *)
LEMMA RootKeepsWorth ==
    ASSUME TypeOK, Multiplicative(curve), NEW held \in Nat, NEW kept \in Int, NEW other \in Nat,
           NEW rest \in Nat, held * (rest * rest) <= kept * (pool_supply * pool_supply)
    PROVE  WorthAtLeast(kept * other, rest, held * other, pool_supply)
BY TypeFacts, SideDecides DEF WorthAtLeast, Multiplicative

(* A deposit mints at most one pool token more than the share it moves,    *)
LEMMA RootDepositWithinOneToken ==
    ASSUME TypeOK, Multiplicative(curve), NEW direction \in TradeDirection,
           NEW x \in SingleAmounts, x # 0, DepositSingle(direction, x),
           pool_supply > 0, 8 * pool_supply <= One
    PROVE  WorthAtLeast(Value(token_a', token_b'), pool_supply' - 1, Value(token_a, token_b), pool_supply)
<1>1. PICK held \in {token_a, token_b + TokenBOffset(curve)}, other \in Nat, less \in 0..x, n \in Nat :
             /\ n \in ProductDepositSingle(less, held, pool_supply)
             /\ pool_supply' = pool_supply + n
             /\ x \in Nat
             /\ Value(token_a, token_b) = held * other
             /\ Value(token_a', token_b') = (held + x) * other
  BY RootDeposit
<1>2. held \in Nat /\ less \in Nat /\ x \in Nat /\ pool_supply \in Nat /\ One \in Nat \ {0}
  BY <1>1, TypeFacts, OneAssumption
<1>3. PICK root \in Nat \ {0} :
         /\ (pool_supply + n) * One <= pool_supply * root
         /\ held * (root * root) <= (held + less) * (One * One) + held * (One \div 2)
                                      + held * (2 * root - 1)
  BY <1>1, <1>2, ProductDepositRounds
<1> DEFINE half == One \div 2
           kept == held + x
           rest == pool_supply + n - 1
           low == root - 1
<1>4. /\ half \in Nat /\ half <= 2 * One /\ kept \in Nat /\ kept \in Int /\ kept >= held + less
      /\ rest \in Nat /\ rest + 1 = pool_supply + n /\ low \in Nat
  BY <1>1, <1>2
<1>5. held * (low * low) <= kept * (One * One) + 2 * (held * One)
  <2> DEFINE sq == One * One
             rr == root * root
             c == 2 * root - 1
  <2>1. sq \in Nat /\ rr \in Nat /\ c \in Nat /\ low * low = rr - c
    BY <1>2, <1>4
  <2>2. held * rr <= (held + less) * sq + held * half + held * c
    BY <1>3
  <2> HIDE DEF sq, rr, c, half, kept, low
  <2>3. held * (rr - c) = held * rr - held * c
    BY <1>2, <2>1
  <2>4. kept * sq >= (held + less) * sq
    BY <1>2, <1>4, <2>1, ProductMonotone
  <2>5. held * (2 * One) >= held * half /\ held * (2 * One) = 2 * (held * One)
    BY <1>2, <1>4, ProductMonotone
  <2>6. /\ held * rr \in Nat /\ held * c \in Nat /\ held * half \in Nat /\ kept * sq \in Nat
        /\ (held + less) * sq \in Nat /\ held * One \in Nat
    BY <1>2, <1>4, <2>1
  <2> QED BY <2>1, <2>2, <2>3, <2>4, <2>5, <2>6 DEF sq
<1>6. (rest + 1) * One <= pool_supply * root /\ pool_supply <= 2 * (rest + 1)
  BY <1>2, <1>3, <1>4
<1> HIDE DEF kept, rest, half
<1>7. held * (rest * rest) <= kept * (pool_supply * pool_supply)
  BY <1>2, <1>4, <1>5, <1>6, RootWithinOneToken DEF low
<1>8. WorthAtLeast(kept * other, rest, held * other, pool_supply)
  BY <1>2, <1>4, <1>7, RootKeepsWorth
<1>9. pool_supply' - 1 = rest
  BY <1>1, <1>2 DEF rest
<1> QED BY <1>1, <1>8, <1>9 DEF kept

(* and a withdrawal of at most half of the supply burns at most one fewer. *)
LEMMA RootWithdrawalWithinOneToken ==
    ASSUME TypeOK, Multiplicative(curve), fees.trade_fee.numerator = 0,
           NEW direction \in TradeDirection, NEW x \in SingleAmounts, x # 0,
           WithdrawSingle(direction, x),
           pool_supply > 0, 8 * pool_supply <= One, pool_supply <= 2 * pool_supply'
    PROVE  WorthAtLeast(Value(token_a', token_b'), pool_supply' - 1, Value(token_a, token_b), pool_supply)
<1>1. PICK held \in {token_a, token_b + TokenBOffset(curve)}, other \in Nat, n \in Nat :
             /\ n \in ProductWithdrawSingle(x, held, pool_supply)
             /\ pool_supply' = pool_supply - n /\ pool_supply' \in Nat
             /\ x \in Nat /\ held - x \in Nat
             /\ Value(token_a, token_b) = held * other
             /\ Value(token_a', token_b') = (held - x) * other
  BY RootWithdrawal
<1>2. held \in Nat /\ x \in Nat /\ pool_supply \in Nat /\ One \in Nat \ {0}
  BY <1>1, TypeFacts, OneAssumption
<1>3. PICK root \in 0..One :
         /\ n * One >= pool_supply * (One - root)
         /\ root = 0 \/ held * (root * root) <= (held - x) * (One * One) + held * One
                           + held * (One \div 2) + held * (2 * root - 1)
  BY <1>1, <1>2, ProductWithdrawRounds
<1> DEFINE half == One \div 2
           kept == held - x
           rest == pool_supply - n - 1
           low == root - 1
<1>4. /\ half \in Nat /\ half <= One /\ kept \in Int
      /\ rest \in Nat /\ rest + 1 = pool_supply - n /\ rest = pool_supply' - 1
  <2>1. pool_supply - n # 0
    BY <1>1, <1>2
  <2> QED BY <1>1, <1>2, <2>1
<1> HIDE DEF kept, rest, half
<1>5. (rest + 1) * One <= pool_supply * root
  <2>1. pool_supply * (One - root) = pool_supply * One - pool_supply * root
    BY <1>2
  <2>2. (pool_supply - n) * One = pool_supply * One - n * One
    BY <1>1, <1>2
  <2>3. pool_supply * One \in Nat /\ n * One \in Nat /\ pool_supply * root \in Nat
    BY <1>1, <1>2
  <2> QED BY <1>3, <1>4, <2>1, <2>2, <2>3
<1>6. root \in Nat \ {0}
  <2> DEFINE more == rest + 1
  <2>1. more \in Nat /\ more >= 1
    BY <1>4
  <2> HIDE DEF more
  <2>2. more * One >= 1 * 1
    BY <1>2, <2>1, ProductMonotone
  <2>3. root = 0 => more * One <= 0
    <3>1. root = 0 => pool_supply * root = 0
      BY <1>2
    <3> QED BY <1>5, <3>1 DEF more
  <2>4. more * One \in Nat
    BY <1>2, <2>1
  <2> QED BY <1>2, <2>2, <2>3, <2>4
<1>7. held * (low * low) <= kept * (One * One) + 2 * (held * One)
  <2> DEFINE sq == One * One
             rr == root * root
             c == 2 * root - 1
  <2>1. sq \in Nat /\ rr \in Nat /\ c \in Nat /\ low * low = rr - c
    BY <1>2, <1>6
  <2>2. held * rr <= kept * sq + held * One + held * half + held * c
    BY <1>3, <1>6 DEF kept, half
  <2> HIDE DEF sq, rr, c, low
  <2>3. held * (rr - c) = held * rr - held * c
    BY <1>2, <2>1
  <2>4. held * One >= held * half
    BY <1>2, <1>4, ProductMonotone
  <2>5. /\ held * rr \in Nat /\ held * c \in Nat /\ held * half \in Nat /\ kept * sq \in Int
        /\ held * One \in Nat
    BY <1>2, <1>4, <2>1
  <2> QED BY <2>1, <2>2, <2>3, <2>4, <2>5 DEF sq
<1>8. pool_supply <= 2 * (rest + 1)
  BY <1>1, <1>4
<1>9. held * (rest * rest) <= kept * (pool_supply * pool_supply)
  BY <1>2, <1>4, <1>5, <1>6, <1>7, <1>8, RootWithinOneToken DEF low
<1>10. WorthAtLeast(kept * other, rest, held * other, pool_supply)
  BY <1>2, <1>4, <1>9, RootKeepsWorth
<1> QED BY <1>1, <1>4, <1>10 DEF kept

-----------------------------------------------------------------------------
(* A multiple of a unit that is not above zero is none of it.              *)
LEMMA NoMultipleIsNothing ==
    ASSUME NEW n \in Nat, NEW unit \in Nat \ {0}, n * unit <= 0
    PROVE  n = 0
<1>1. n >= 1 => n * unit >= 1 * 1
  BY ProductMonotone
<1>2. n * unit \in Nat
  OBVIOUS
<1> QED BY <1>1, <1>2

(* What the rounding of a deposit adds is less than a unit, in a fixed     *)
(* point that is fine enough for the supply after it.                      *)
LEMMA DepositErrorIsSmall ==
    ASSUME NEW held \in Nat \ {0}, NEW supply \in Nat \ {0}, NEW rest \in Nat,
           NEW root \in Nat \ {0}, NEW half \in Nat, NEW unit \in Nat \ {0},
           7 * (rest * rest * held) <= 2 * unit, supply < rest, 2 * half <= unit, supply * root < (rest + 1) * unit
    PROVE  (supply * supply) * (held * (half + 2 * root - 1)) < unit * unit
<1> DEFINE m2 == rest * rest
           error == half + 2 * root - 1
           se == supply * error
           sr == supply * root
           su == supply * unit
           wide == supply + 4 * rest + 4
<1>1. m2 \in Nat /\ error \in Nat /\ sr \in Nat /\ su \in Nat /\ wide \in Nat
  OBVIOUS
<1>2. se \in Nat /\ 2 * se < su + 4 * sr
  <2>1. se = supply * half + 2 * sr - supply
    OBVIOUS
  <2>2. supply * unit >= supply * (2 * half)
    BY ProductMonotone
  <2>3. supply * (2 * half) = 2 * (supply * half) /\ supply * half \in Nat
    OBVIOUS
  <2>4. se \in Nat
    BY <1>1
  <2> HIDE DEF se, sr
  <2> QED BY <1>1, <2>1, <2>2, <2>3, <2>4
<1>3. su + 4 * sr <= wide * unit
  <2> DEFINE next == (rest + 1) * unit
  <2>1. wide * unit = su + 4 * next
    OBVIOUS
  <2>2. next \in Nat /\ sr < next
    OBVIOUS
  <2> HIDE DEF next, sr, su, wide
  <2> QED BY <1>1, <2>1, <2>2
<1>4. supply * wide <= 5 * m2
  <2>1. supply <= rest - 1 /\ wide <= 5 * rest + 3 /\ rest - 1 \in Nat /\ 5 * rest + 3 \in Nat
    OBVIOUS
  <2>2. supply * wide <= (rest - 1) * (5 * rest + 3)
    <3> HIDE DEF wide
    <3> QED BY <1>1, <2>1, ProductMonotone
  <2>3. (rest - 1) * (5 * rest + 3) = 5 * m2 - 2 * rest - 3
    OBVIOUS
  <2>4. supply * wide \in Nat
    <3> HIDE DEF wide
    <3> QED BY <1>1
  <2> HIDE DEF wide, m2
  <2> QED BY <1>1, <2>2, <2>3, <2>4
<1> HIDE DEF error, sr, su, wide
<1>5. supply * (2 * se) < 5 * (m2 * unit)
  <2> DEFINE w == 2 * se
             z == wide * unit
  <2>1. w \in Nat /\ z \in Nat /\ w < z
    BY <1>1, <1>2, <1>3
  <2>2. supply * z = (supply * wide) * unit
    BY <1>1
  <2>3. (supply * wide) * unit <= (5 * m2) * unit
    <3>1. supply * wide \in Nat /\ 5 * m2 \in Nat
      BY <1>1
    <3> QED BY <1>4, <3>1, ProductMonotone
  <2>4. (5 * m2) * unit = 5 * (m2 * unit) /\ m2 * unit \in Nat
    BY <1>1
  <2> HIDE DEF w, z, m2
  <2>5. supply * w < supply * z /\ supply * w \in Nat /\ supply * z \in Nat
    BY <2>1
  <2> QED BY <2>2, <2>3, <2>4, <2>5 DEF w
<1>6. supply * (2 * se) = 2 * ((supply * supply) * error)
  BY <1>1 DEF se
<1> DEFINE s2e == (supply * supply) * error
           mu == m2 * unit
<1>7. s2e \in Nat /\ mu \in Nat /\ 2 * s2e < 5 * mu
  <2>1. s2e \in Nat /\ mu \in Nat
    <3>1. supply * supply \in Nat
      OBVIOUS
    <3> HIDE DEF m2
    <3> QED BY <1>1, <3>1
  <2> QED BY <1>5, <1>6, <2>1
<1>8. 5 * (held * mu) <= 2 * (unit * unit)
  <2> DEFINE mh == m2 * held
  <2>1. 7 * mh <= 2 * unit
    OBVIOUS
  <2> HIDE DEF m2
  <2>2. mh \in Nat
    BY <1>1
  <2>3. 5 * mh <= 2 * unit
    <3> HIDE DEF mh
    <3> QED BY <2>1, <2>2
  <2>4. held * mu = mh * unit
    BY <1>1
  <2> HIDE DEF mh
  <2>5. (5 * mh) * unit <= (2 * unit) * unit
    BY <2>2, <2>3, ProductMonotone
  <2>6. (5 * mh) * unit = 5 * (mh * unit) /\ (2 * unit) * unit = 2 * (unit * unit)
    BY <2>2
  <2> QED BY <2>4, <2>5, <2>6
<1>9. (supply * supply) * (held * error) = held * s2e
  BY <1>1
<1> HIDE DEF s2e, mu
<1>10. held * (2 * s2e) < held * (5 * mu)
  BY <1>7
<1>11. held * s2e < unit * unit
  <2>1. held * (2 * s2e) = 2 * (held * s2e) /\ held * (5 * mu) = 5 * (held * mu)
    BY <1>7
  <2>2. held * s2e \in Nat /\ held * mu \in Nat /\ unit * unit \in Nat
    BY <1>7
  <2> QED BY <1>8, <1>10, <2>1, <2>2
<1> QED BY <1>9, <1>11 DEF error

(* Nor is it more in a withdrawal, for the supply before it.               *)
LEMMA WithdrawalErrorIsSmall ==
    ASSUME NEW held \in Nat \ {0}, NEW supply \in Nat \ {0},
           NEW root \in Nat \ {0}, NEW half \in Nat, NEW unit \in Nat \ {0},
           7 * (supply * supply * held) <= 2 * unit, 2 * half <= unit, root <= unit
    PROVE  (supply * supply) * (held * (unit + half + 2 * root - 1)) < unit * unit
<1> DEFINE s2 == supply * supply
           error == unit + half + 2 * root - 1
           k == s2 * held
<1>1. error \in Nat /\ 2 * error < 7 * unit
  OBVIOUS
<1>2. s2 \in Nat /\ s2 >= 1
  <2>1. s2 >= 1 * 1
    BY ProductMonotone
  <2> QED BY <2>1
<1> HIDE DEF error
<1>3. 7 * k <= 2 * unit
  OBVIOUS
<1> HIDE DEF s2
<1>4. k \in Nat /\ k >= 1
  <2>1. k >= 1 * 1
    BY <1>2, ProductMonotone
  <2> QED BY <1>2, <2>1
<1>6. s2 * (held * error) = k * error
  BY <1>1, <1>2
<1> HIDE DEF k
<1>7. k * (2 * error) < k * (7 * unit)
  BY <1>1, <1>4
<1>8. (7 * k) * unit <= (2 * unit) * unit
  BY <1>3, <1>4, ProductMonotone
<1>9. /\ k * (2 * error) = 2 * (k * error) /\ k * (7 * unit) = (7 * k) * unit
      /\ (2 * unit) * unit = 2 * (unit * unit)
  BY <1>1, <1>4
<1>10. k * error \in Nat /\ unit * unit \in Nat /\ (7 * k) * unit \in Nat
  BY <1>1, <1>4
<1>11. k * error < unit * unit
  BY <1>7, <1>8, <1>9, <1>10
<1> QED BY <1>6, <1>11 DEF error, s2

(* Then deposits do not dilute at all,                                     *)
LEMMA RootDepositIsExact ==
    ASSUME TypeOK, Multiplicative(curve), RootIsFine(pool_supply'), NEW direction \in TradeDirection,
           NEW x \in SingleAmounts, x # 0, DepositSingle(direction, x)
    PROVE  KeepsExactValue
<1>1. PICK held \in {token_a, token_b + TokenBOffset(curve)}, other \in Nat, less \in 0..x, n \in Nat :
             /\ n \in ProductDepositSingle(less, held, pool_supply)
             /\ pool_supply' = pool_supply + n
             /\ x \in Nat
             /\ Value(token_a, token_b) = held * other
             /\ Value(token_a', token_b') = (held + x) * other
  BY RootDeposit
<1>2. held \in Nat /\ less \in Nat /\ x \in Nat /\ pool_supply \in Nat /\ One \in Nat \ {0}
  BY <1>1, TypeFacts, OneAssumption
<1> DEFINE half == One \div 2
           kept == held + x
           rest == pool_supply + n
<1>3. PICK root \in Nat \ {0} :
         /\ rest * One <= pool_supply * root
         /\ pool_supply * root < (rest + 1) * One
         /\ held * (root * root) <= (held + less) * (One * One) + held * half
                                      + held * (2 * root - 1)
  BY <1>1, <1>2, ProductDepositRounds
<1> DEFINE error == half + 2 * root - 1
<1>4. /\ half \in Nat /\ 2 * half <= One /\ kept \in Nat /\ kept \in Int /\ kept >= held + less
      /\ rest \in Nat /\ rest = pool_supply' /\ error \in Nat
  BY <1>1, <1>2
<1>5. held # 0
  BY <1>1, <1>2, ProductDepositRounds
<1>6. 7 * (rest * rest * held) <= 2 * One
  BY <1>1 DEF RootIsFine
<1> HIDE DEF half, kept, rest
<1>7. held * (root * root) <= kept * (One * One) + held * error
  <2> DEFINE sq == One * One
             rr == root * root
             c == 2 * root - 1
  <2>1. sq \in Nat /\ rr \in Nat /\ c \in Nat /\ error = half + c
    BY <1>2, <1>4
  <2>2. held * rr <= (held + less) * sq + held * half + held * c
    BY <1>3
  <2> HIDE DEF sq, rr, c, error
  <2>3. held * error = held * half + held * c
    BY <1>2, <1>4, <2>1
  <2>4. kept * sq >= (held + less) * sq
    BY <1>2, <1>4, <2>1, ProductMonotone
  <2>5. /\ held * rr \in Nat /\ held * c \in Nat /\ held * half \in Nat /\ kept * sq \in Nat
        /\ (held + less) * sq \in Nat
    BY <1>2, <1>4, <2>1
  <2> QED BY <2>2, <2>3, <2>4, <2>5 DEF sq, rr
<1>8. held * (rest * rest) <= kept * (pool_supply * pool_supply)
  <2>1. CASE n = 0
    <3>1. kept * (pool_supply * pool_supply) >= held * (pool_supply * pool_supply)
      BY <1>2, <1>4, ProductMonotone
    <3>2. rest = pool_supply
      BY <1>2, <2>1 DEF rest
    <3>3. held * (rest * rest) <= kept * (pool_supply * pool_supply)
      <4>1. held * (pool_supply * pool_supply) \in Int /\ kept * (pool_supply * pool_supply) \in Int
        BY <1>2, <1>4
      <4> QED BY <3>1, <3>2, <4>1
    <3> QED BY <3>3
  <2>2. CASE n # 0
    <3>1. pool_supply < rest /\ rest >= 1
      BY <1>1, <1>2, <2>2 DEF rest
    <3>2. pool_supply # 0
      <4> SUFFICES ASSUME pool_supply = 0 PROVE FALSE
        OBVIOUS
      <4>1. pool_supply * root = 0
        OBVIOUS
      <4>2. rest * One <= 0
        BY <1>3, <4>1
      <4>3. rest \in Nat
        BY <1>4
      <4> QED BY <1>2, <3>1, <4>2, <4>3, NoMultipleIsNothing
    <3>3. (pool_supply * pool_supply) * (held * error) < One * One
      <4>1. held \in Nat \ {0} /\ pool_supply \in Nat \ {0}
        BY <1>2, <1>5, <3>2
      <4> QED BY <1>2, <1>3, <1>4, <1>6, <3>1, <4>1, DepositErrorIsSmall
    <3> HIDE DEF error
    <3> QED BY <1>2, <1>3, <1>4, <1>7, <3>3, RootIsExact
  <2> QED BY <2>1, <2>2
<1>9. WorthAtLeast(kept * other, rest, held * other, pool_supply)
  BY <1>2, <1>4, <1>8, RootKeepsWorth
<1> QED BY <1>1, <1>4, <1>9 DEF KeepsExactValue, kept

(* nor do withdrawals without a trading fee.                               *)
LEMMA RootWithdrawalIsExact ==
    ASSUME TypeOK, Multiplicative(curve), RootIsFine(pool_supply), fees.trade_fee.numerator = 0,
           NEW direction \in TradeDirection, NEW x \in SingleAmounts, x # 0,
           WithdrawSingle(direction, x)
    PROVE  KeepsExactValue
<1>1. PICK held \in {token_a, token_b + TokenBOffset(curve)}, other \in Nat, n \in Nat :
             /\ n \in ProductWithdrawSingle(x, held, pool_supply)
             /\ pool_supply' = pool_supply - n /\ pool_supply' \in Nat
             /\ x \in Nat /\ held - x \in Nat
             /\ Value(token_a, token_b) = held * other
             /\ Value(token_a', token_b') = (held - x) * other
  BY RootWithdrawal
<1>2. held \in Nat /\ x \in Nat /\ pool_supply \in Nat /\ One \in Nat \ {0}
  BY <1>1, TypeFacts, OneAssumption
<1> DEFINE half == One \div 2
           kept == held - x
           rest == pool_supply - n
<1>3. PICK root \in 0..One :
         /\ n * One >= pool_supply * (One - root)
         /\ root = 0 \/ held * (root * root) <= kept * (One * One) + held * One
                           + held * half + held * (2 * root - 1)
  BY <1>1, <1>2, ProductWithdrawRounds
<1>4. /\ half \in Nat /\ 2 * half <= One /\ kept \in Nat /\ kept \in Int
      /\ rest \in Nat /\ rest = pool_supply' /\ root \in Nat
  BY <1>1, <1>2
<1>5. held # 0
  BY <1>1, <1>2, ProductWithdrawRounds
<1>6. 7 * (pool_supply * pool_supply * held) <= 2 * One
  BY <1>1 DEF RootIsFine
<1> HIDE DEF kept, rest, half
<1>7. rest * One <= pool_supply * root
  <2>1. pool_supply * (One - root) = pool_supply * One - pool_supply * root
    BY <1>2
  <2>2. (pool_supply - n) * One = pool_supply * One - n * One
    BY <1>1, <1>2
  <2>3. pool_supply * One \in Nat /\ n * One \in Nat /\ pool_supply * root \in Nat
    BY <1>1, <1>2
  <2> QED BY <1>3, <1>4, <2>1, <2>2, <2>3 DEF rest
<1>8. CASE root # 0 /\ pool_supply # 0
  <2> DEFINE error == One + half + 2 * root - 1
             sq == One * One
             rr == root * root
             c == 2 * root - 1
  <2>1. error \in Nat
    BY <1>2, <1>4, <1>8
  <2>2. held * rr <= kept * sq + held * error
    <3>1. sq \in Nat /\ rr \in Nat /\ c \in Nat /\ error = One + half + c
      BY <1>2, <1>4, <1>8
    <3>2. held * rr <= kept * sq + held * One + held * half + held * c
      BY <1>3, <1>8
    <3> HIDE DEF sq, rr, c, error
    <3>3. held * error = held * One + held * half + held * c
      BY <1>2, <1>4, <3>1
    <3>4. /\ held * rr \in Nat /\ held * c \in Nat /\ held * half \in Nat /\ kept * sq \in Int
          /\ held * One \in Nat
      BY <1>2, <1>4, <3>1
    <3> QED BY <3>2, <3>3, <3>4
  <2>3. (pool_supply * pool_supply) * (held * error) < sq
    <3>1. held \in Nat \ {0} /\ pool_supply \in Nat \ {0} /\ root \in Nat \ {0} /\ root <= One
      BY <1>2, <1>3, <1>4, <1>5, <1>8
    <3> QED BY <1>2, <1>4, <1>6, <3>1, WithdrawalErrorIsSmall
  <2> HIDE DEF error
  <2>4. held * (rest * rest) <= kept * (pool_supply * pool_supply)
    BY <1>2, <1>4, <1>7, <2>1, <2>2, <2>3, RootIsExact
  <2>5. WorthAtLeast(kept * other, rest, held * other, pool_supply)
    BY <1>2, <1>4, <2>4, RootKeepsWorth
  <2> QED BY <1>1, <1>4, <2>5 DEF KeepsExactValue, kept
<1>9. CASE root = 0 \/ pool_supply = 0
  <2>1. rest = 0
    <3>1. rest * One <= 0
      <4>1. pool_supply * root = 0
        BY <1>2, <1>4, <1>9
      <4> QED BY <1>7, <4>1
    <3> QED BY <1>2, <1>4, <3>1, NoMultipleIsNothing
  <2>2. held * (rest * rest) <= kept * (pool_supply * pool_supply)
    <3>1. held * (rest * rest) = 0
      BY <1>2, <2>1
    <3>2. kept * (pool_supply * pool_supply) \in Nat
      BY <1>2, <1>4
    <3> QED BY <3>1, <3>2
  <2>3. WorthAtLeast(kept * other, rest, held * other, pool_supply)
    BY <1>2, <1>4, <2>2, RootKeepsWorth
  <2> QED BY <1>1, <1>4, <2>3 DEF KeepsExactValue, kept
<1> QED BY <1>8, <1>9

-----------------------------------------------------------------------------
(* An operation on an amount of zero does nothing.                         *)
LEMMA ZeroMovesNothing ==
    ASSUME TypeOK, NEW direction \in TradeDirection,
           DepositSingle(direction, 0) \/ WithdrawSingle(direction, 0)
    PROVE  UNCHANGED vars
<1>1. CASE DepositSingle(direction, 0)
  <2>1. pool_supply' = pool_supply + 0
    BY <1>1 DEF DepositSingle, DepositSingleTokenType, SupplyBecomes
  <2> QED BY <1>1, <2>1, TypeFacts DEF DepositSingle, Become, SourceSide, vars
<1>2. CASE WithdrawSingle(direction, 0)
  <2>1. pool_supply' = pool_supply - 0
    BY <1>2 DEF WithdrawSingle, WithdrawSingleTokenTypeExactOut, SupplyBecomes
  <2> QED BY <1>2, <2>1, TypeFacts DEF WithdrawSingle, Become, SourceSide, vars
<1> QED BY <1>1, <1>2

(* So a step that changes something is one of a positive amount.           *)
LEMMA FairSingleSidedMoves ==
    ASSUME TypeOK, FairSingleSided, ~UNCHANGED vars
    PROVE  \E direction \in TradeDirection, x \in SingleAmounts :
              /\ x # 0
              /\ \/ DepositSingle(direction, x)
                 \/ WithdrawSingle(direction, x) /\ fees.trade_fee.numerator = 0
BY ZeroMovesNothing DEF FairSingleSided, DepositOneSide, WithdrawOneSide

(* On every curve with a formula, whatever its widths, no single sided     *)
(* deposit, and without a trading fee no single sided withdrawal, dilutes  *)
(* the other holders, as far as square roots are fine enough.              *)
THEOREM SingleSidedKeepsWorth == Spec => SingleSidedNeverDilutes
<1>1. ASSUME TypeOK, HasFormula, FairSingleSided, ~UNCHANGED vars,
             Multiplicative(curve) => RootIsFine(pool_supply) /\ RootIsFine(pool_supply')
      PROVE  KeepsExactValue
  <2>1. PICK direction \in TradeDirection, x \in SingleAmounts :
           /\ x # 0
           /\ \/ DepositSingle(direction, x)
              \/ WithdrawSingle(direction, x) /\ fees.trade_fee.numerator = 0
    BY <1>1, FairSingleSidedMoves
  <2>2. CASE curve.curve_type = "ConstantPrice"
    BY <1>1, <2>1, <2>2, PriceDepositKeepsWorth, PriceWithdrawalKeepsWorth
  <2>3. CASE curve.curve_type # "ConstantPrice"
    <3>1. Multiplicative(curve)
      BY <1>1, <2>3, TypeFacts DEF HasFormula, Multiplicative, Curve, CurveType
    <3> QED BY <1>1, <2>1, <3>1, RootDepositIsExact, RootWithdrawalIsExact
  <2> QED BY <2>2, <2>3
<1>2. TypeOK /\ [Next]_vars
        => [/\ HasFormula /\ FairSingleSided
            /\ Multiplicative(curve) => RootIsFine(pool_supply) /\ RootIsFine(pool_supply')
            => KeepsExactValue]_vars
  BY <1>1
<1> QED BY <1>2, TypeCorrect, PTL DEF Spec, SingleSidedNeverDilutes

(* However coarse the fixed point, as long as it has eight units to each   *)
(* pool token, what the square root misses is less than one pool token.    *)
THEOREM RootsMissLessThanOneToken == Spec => SingleSidedDilutesLessThanOneToken
<1> DEFINE Kept == WorthAtLeast(Value(token_a', token_b'), pool_supply' - 1,
                                Value(token_a, token_b), pool_supply)
<1>1. ASSUME TypeOK, Multiplicative(curve), FairSingleSided, ~UNCHANGED vars,
             pool_supply > 0, 8 * pool_supply <= One, pool_supply <= 2 * pool_supply'
      PROVE  Kept
  <2>1. PICK direction \in TradeDirection, x \in SingleAmounts :
           /\ x # 0
           /\ \/ DepositSingle(direction, x)
              \/ WithdrawSingle(direction, x) /\ fees.trade_fee.numerator = 0
    BY <1>1, FairSingleSidedMoves
  <2> QED BY <1>1, <2>1, RootDepositWithinOneToken, RootWithdrawalWithinOneToken
<1>2. TypeOK /\ [Next]_vars
        => [/\ Multiplicative(curve) /\ FairSingleSided
            /\ pool_supply > 0 /\ 8 * pool_supply <= One
            /\ pool_supply <= 2 * pool_supply'
            => Kept]_vars
  BY <1>1
<1> QED BY <1>2, TypeCorrect, PTL DEF Spec, SingleSidedDilutesLessThanOneToken
=============================================================================
