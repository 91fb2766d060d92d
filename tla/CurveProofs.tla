---------------------------- MODULE CurveProofs ----------------------------
(***************************************************************************)
(* What the operators of the curve library return, for all inputs: the     *)
(* lemmas PoolProofs rests on.                                             *)
(***************************************************************************)
EXTENDS SwapCurve, TLAPS, WellFoundedInduction

(* Facts of arithmetic that the provers need to be told apart. *)
LEMMA DivMod == ASSUME NEW n \in Nat, NEW m \in Nat \ {0}
                PROVE  /\ n \div m \in Nat
                       /\ n % m \in 0..(m - 1)
                       /\ n = m * (n \div m) + (n % m)
OBVIOUS

(* A multiple divides exactly. *)
LEMMA DivExact == ASSUME NEW n \in Nat \ {0}, NEW h \in Nat PROVE (n * h) \div n = h
<1> DEFINE m == n * h
           q == m \div n
<1>1. m \in Nat
  OBVIOUS
<1>2. q \in Nat /\ m % n \in 0..(n - 1) /\ m = n * q + (m % n)
  BY <1>1, DivMod
<1> HIDE DEF q
<1>3. n * (h - q) \in 0..(n - 1)
  BY <1>2
<1>4. h - q >= 1 => n * (h - q) >= n
  BY <1>2
<1>5. h - q <= -1 => n * (h - q) <= -n
  BY <1>2
<1>6. h = q
  BY <1>2, <1>3, <1>4, <1>5
<1> QED BY <1>6 DEF q

(* A quotient is no larger than what was divided. *)
LEMMA DivBelow == ASSUME NEW n \in Nat, NEW m \in Nat \ {0}
                  PROVE  n \div m \in Nat /\ (n \div m) * m <= n
<1> DEFINE q == n \div m
<1>1. q \in Nat /\ n % m \in 0..(m - 1) /\ n = m * q + (n % m)
  BY DivMod
<1> HIDE DEF q
<1> QED BY <1>1 DEF q

(* A quotient covers its dividend but for less than a divisor.             *)
LEMMA DivAbove == ASSUME NEW n \in Nat, NEW m \in Nat \ {0}
                  PROVE  (n \div m) * m >= n - m + 1
<1> DEFINE q == n \div m
<1>1. q \in Nat /\ n % m \in 0..(m - 1) /\ n = m * q + (n % m)
  BY DivMod
<1> HIDE DEF q
<1> QED BY <1>1 DEF q

(* A product grows with both of its factors. *)
LEMMA ProductMonotone == ASSUME NEW u \in Nat, NEW v \in Nat, NEW w \in Nat, NEW z \in Nat,
                                u >= v, w >= z
                         PROVE  u * w >= v * z
<1>1. u * w >= v * w
  OBVIOUS
<1>2. v * w >= v * z
  OBVIOUS
<1> QED BY <1>1, <1>2

(* A set of naturals that is not empty has a least element.                *)
LEMMA LeastNatural ==
    ASSUME NEW T, T \subseteq Nat, T # {}
    PROVE  \E n \in T : \A m \in T : n <= m
<1> DEFINE R == {pair \in Nat \X Nat : pair[1] < pair[2]}
<1>1. R = OpToRel(<, Nat)
  BY DEF OpToRel
<1> HIDE DEF R
<1>2. IsWellFoundedOn(R, Nat)
  BY <1>1, NatLessThanWellFounded, Zenon
<1>3. PICK n \in T : \A m \in T : ~(<<m, n>> \in R)
  BY <1>2, WFMin, Zenon
<1>4. \A m \in T : ~(m < n)
  BY <1>3 DEF R
<1> QED BY <1>3, <1>4

(* A set that has zero, and the successor of each of its naturals, has all *)
(* of them.                                                                *)
LEMMA InductiveSet ==
    ASSUME NEW S, 0 \in S, \A n \in Nat : n \in S => n + 1 \in S
    PROVE  Nat \subseteq S
<1> SUFFICES ASSUME Nat \ S # {} PROVE FALSE
  OBVIOUS
<1>1. PICK n \in Nat \ S : \A m \in Nat \ S : n <= m
  BY LeastNatural
<1>2. n # 0 /\ n - 1 \in Nat
  BY <1>1
<1>3. n - 1 \in S
  BY <1>1, <1>2
<1> QED BY <1>1, <1>2, <1>3

(* Ceiling(n, m) is the least natural whose m-fold reaches n. *)
LEMMA CeilingCovers == ASSUME NEW n \in Nat, NEW m \in Nat \ {0}
                       PROVE  /\ Ceiling(n, m) \in Nat
                              /\ n <= Ceiling(n, m) * m
                              /\ (Ceiling(n, m) - 1) * m < n
<1> DEFINE q == n \div m
<1>1. q \in Nat /\ n % m \in 0..(m - 1) /\ n = m * q + (n % m)
  BY DivMod
<1> HIDE DEF q
<1> QED BY <1>1 DEF Ceiling, q

(* No smaller natural reaches n. *)
LEMMA CeilingLeast == ASSUME NEW n \in Nat, NEW m \in Nat \ {0}, NEW k \in Nat, n <= k * m
                      PROVE  Ceiling(n, m) <= k
<1> DEFINE c == Ceiling(n, m)
<1>1. c \in Nat /\ (c - 1) * m < n
  BY CeilingCovers
<1> HIDE DEF c
<1>2. SUFFICES ASSUME k < c PROVE FALSE
  BY <1>1 DEF c
<1>3. k * m <= (c - 1) * m
  BY <1>1, <1>2
<1> QED BY <1>1, <1>3

(* The constant product swap (curve/constant_product.rs, swap) charges     *)
(* part of what is offered, never lowers the product of the reserves, pays *)
(* out as much as the whole offer allows, and charges as little as that    *)
(* payout allows.                                                          *)
THEOREM ProductSwapIsBest ==
    ASSUME NEW x \in Nat, NEW s \in Nat, NEW d \in Nat, NEW r \in ProductSwap(x, s, d)
    PROVE  /\ r.source \in 1..x
           /\ r.destination \in 1..d
           /\ s * d <= (s + r.source) * (d - r.destination)
           /\ \A e \in 0..d : s * d <= (s + x) * (d - e) => e <= r.destination
           /\ \A y \in Nat : s * d <= (s + y) * (d - r.destination) => r.source <= y
<1> DEFINE k == s * d
           m == s + x
           q == Ceiling(k, m)
           p == Ceiling(k, q)
<1>0. k \in Nat /\ m \in Nat
  OBVIOUS
<1>1. /\ m > 0 /\ k >= m /\ p >= s /\ q < d
      /\ r = [source |-> p - s, destination |-> d - q]
  BY DEF ProductSwap, CheckedCeilDiv
<1>2. q \in Nat /\ k <= q * m /\ (q - 1) * m < k
  BY <1>0, <1>1, CeilingCovers
<1>3. q # 0
  BY <1>0, <1>1, <1>2
<1>4. p \in Nat /\ k <= p * q /\ (p - 1) * q < k
  BY <1>0, <1>2, <1>3, CeilingCovers
<1>5. p <= m
  BY <1>0, <1>1, <1>2, <1>3, CeilingLeast
<1>6. p > s
  <2>1. s # 0
    BY <1>0, <1>1
  <2>2. s * q < k
    BY <1>1, <1>2, <2>1
  <2>3. s * q < p * q
    BY <1>2, <1>4, <2>2, <1>0
  <2> HIDE DEF p, q
  <2>4. p <= s => p * q <= s * q
    BY <1>2, <1>4
  <2> QED BY <2>3, <2>4, <1>4, <1>2
<1>7. ASSUME NEW e \in 0..d, s * d <= (s + x) * (d - e) PROVE e <= d - q
  <2>1. q <= d - e
    BY <1>0, <1>1, <1>7, CeilingLeast
  <2> QED BY <2>1, <1>2
<1>8. ASSUME NEW y \in Nat, s * d <= (s + y) * q PROVE p - s <= y
  <2>1. p <= s + y
    BY <1>0, <1>2, <1>3, <1>8, CeilingLeast
  <2> QED BY <2>1, <1>4
<1> HIDE DEF k, m, q, p
<1> QED BY <1>0, <1>1, <1>2, <1>3, <1>4, <1>5, <1>6, <1>7, <1>8 DEF k, m

(* A share is at most exact when rounded down, and at least exact when     *)
(* rounded up, unless it rounded down to zero and was left there.          *)
LEMMA ShareRounds ==
    ASSUME NEW n \in Nat, NEW supply \in Nat \ {0}, NEW held \in Nat
    PROVE  /\ ShareOf(n, supply, held, "Floor") \in Nat
           /\ ShareOf(n, supply, held, "Floor") * supply <= n * held
           /\ ShareOf(n, supply, held, "Ceiling") \in Nat
           /\ ShareOf(n, supply, held, "Ceiling") > 0
                => ShareOf(n, supply, held, "Ceiling") * supply >= n * held
<1> DEFINE k == n * held
           f == k \div supply
           r == k % supply
<1>1. k \in Nat
  OBVIOUS
<1>2. f \in Nat /\ r \in 0..(supply - 1) /\ k = supply * f + r
  BY <1>1, DivMod
<1>3. ShareOf(n, supply, held, "Floor") = f
  BY DEF ShareOf
<1>4. ShareOf(n, supply, held, "Ceiling") = IF r > 0 /\ f > 0 THEN f + 1 ELSE f
  BY DEF ShareOf
<1> HIDE DEF f, r
<1>5. f * supply <= k
  BY <1>1, <1>2
<1>6. (f + 1) * supply >= k
  BY <1>1, <1>2
<1>7. r = 0 => f * supply >= k
  BY <1>1, <1>2
<1> QED BY <1>2, <1>3, <1>4, <1>5, <1>6, <1>7

(* A two sided deposit on a multiplicative curve leaves each side with no  *)
(* less per pool token.                                                    *)
LEMMA ProductDepositKeepsShares ==
    ASSUME NEW n \in Nat, NEW supply \in Nat, NEW a \in Nat, NEW b \in Nat,
           NEW t \in ProductPoolTokensToTradingTokens(n, supply, a, b, "Ceiling"),
           t.token_a > 0, t.token_b > 0
    PROVE  /\ t.token_a \in Nat /\ t.token_b \in Nat
           /\ (a + t.token_a) * supply >= a * (supply + n)
           /\ (b + t.token_b) * supply >= b * (supply + n)
<1>1. /\ supply > 0
      /\ t.token_a = ShareOf(n, supply, a, "Ceiling")
      /\ t.token_b = ShareOf(n, supply, b, "Ceiling")
  BY DEF ProductPoolTokensToTradingTokens
<1>2. /\ t.token_a \in Nat /\ t.token_a * supply >= n * a
      /\ t.token_b \in Nat /\ t.token_b * supply >= n * b
  BY <1>1, ShareRounds
<1>3. ASSUME NEW h \in Nat, NEW f \in Nat, f * supply >= n * h
      PROVE  (h + f) * supply >= h * (supply + n)
  BY <1>3
<1> QED BY <1>2, <1>3

(* The same of a two sided withdrawal. *)
LEMMA ProductWithdrawKeepsShares ==
    ASSUME NEW n \in Nat, NEW supply \in Nat, NEW a \in Nat, NEW b \in Nat,
           NEW t \in ProductPoolTokensToTradingTokens(n, supply, a, b, "Floor")
    PROVE  /\ t.token_a \in Nat /\ t.token_b \in Nat
           /\ (a - t.token_a) * supply >= a * (supply - n)
           /\ (b - t.token_b) * supply >= b * (supply - n)
<1>1. /\ supply > 0
      /\ t.token_a = ShareOf(n, supply, a, "Floor")
      /\ t.token_b = ShareOf(n, supply, b, "Floor")
  BY DEF ProductPoolTokensToTradingTokens
<1>2. /\ t.token_a \in Nat /\ t.token_a * supply <= n * a
      /\ t.token_b \in Nat /\ t.token_b * supply <= n * b
  BY <1>1, ShareRounds
<1>3. ASSUME NEW h \in Nat, NEW f \in Nat, f * supply <= n * h
      PROVE  (h - f) * supply >= h * (supply - n)
  BY <1>3
<1> QED BY <1>2, <1>3

(* A swap at a constant price exchanges equal values.                      *)
LEMMA PriceSwapIsFair ==
    ASSUME NEW price \in Nat, NEW x \in Nat, NEW direction \in TradeDirection,
           NEW r \in PriceSwap(price, x, direction)
    PROVE  /\ r.source \in 1..x
           /\ r.destination \in Nat \ {0}
           /\ direction = "AtoB" => r.source = r.destination * price
           /\ direction = "BtoA" => r.destination = r.source * price
<1>1. price # 0 /\ r.source > 0 /\ r.destination \in 1..MaxU128
  BY DEF PriceSwap
<1>2. CASE direction = "AtoB"
  <2>1. r.source = x - (x % price) /\ r.destination = x \div price
    BY <1>2 DEF PriceSwap
  <2>2. x \div price \in Nat /\ x % price \in 0..(price - 1) /\ x = price * (x \div price) + (x % price)
    BY <1>1, DivMod
  <2> QED BY <1>1, <1>2, <2>1, <2>2
<1>3. CASE direction = "BtoA"
  <2>1. r.source = x /\ r.destination = x * price
    BY <1>3 DEF PriceSwap
  <2> QED BY <1>1, <1>3, <2>1
<1> QED BY <1>2, <1>3 DEF TradeDirection

(* At a constant price, the amounts of each token that pool tokens stand   *)
(* for are worth at most their share of the halved value of the pool when  *)
(* rounded down, and at least that when rounded up.                        *)
LEMMA PriceShareRounds ==
    ASSUME NEW price \in Nat, NEW n \in Nat, NEW supply \in Nat, NEW a \in Nat, NEW b \in Nat,
           NEW round \in {"Floor", "Ceiling"},
           NEW t \in PricePoolTokensToTradingTokens(price, n, supply, a, b, round)
    PROVE  LET half == (a + b * price) \div 2
           IN  /\ t.token_a \in Nat /\ t.token_b \in Nat
               /\ round = "Floor" => /\ t.token_a * supply <= n * half
                                     /\ (t.token_b * price) * supply <= n * half
               /\ round = "Ceiling" => /\ t.token_a * supply >= n * half
                                       /\ (t.token_b * price) * supply >= n * half
<1> DEFINE half == (a + b * price) \div 2
           value == n * half
<1>1. half \in Nat
  <2>1. a + b * price \in Nat
    OBVIOUS
  <2> QED BY <2>1, DivMod
<1>2. value \in Nat
  BY <1>1
<1> HIDE DEF half
<1>3. PriceNormalizedValue(price, a, b) \subseteq {half}
  BY DEF PriceNormalizedValue, half
<1>4. price # 0 /\ supply # 0
  BY <1>3 DEF PricePoolTokensToTradingTokens
<1> HIDE DEF value
<1>5. CASE round = "Floor"
  <2>1. t.token_a = value \div supply /\ t.token_b = (value \div price) \div supply
    BY <1>3, <1>5 DEF PricePoolTokensToTradingTokens, value
  <2>2. t.token_a \in Nat /\ t.token_a * supply <= value
    BY <1>2, <1>4, <2>1, DivBelow
  <2> DEFINE v == value \div price
  <2>3. v \in Nat /\ v * price <= value
    BY <1>2, <1>4, DivBelow
  <2> HIDE DEF v
  <2>4. t.token_b \in Nat /\ t.token_b * supply <= v
    BY <1>4, <2>1, <2>3, DivBelow DEF v
  <2>5. (t.token_b * supply) * price <= v * price
    BY <2>3, <2>4, <1>4
  <2>6. (t.token_b * price) * supply = (t.token_b * supply) * price
    BY <2>4
  <2> QED BY <1>5, <2>2, <2>3, <2>4, <2>5, <2>6 DEF value, half
<1>6. CASE round = "Ceiling"
  <2>1. PICK z \in CheckedCeilDiv(value, supply), u \in CheckedCeilDiv(value, price) :
           /\ t.token_a = z.quotient
           /\ \E w \in CheckedCeilDiv(u.quotient, supply) : t.token_b = w.quotient
    BY <1>3, <1>6 DEF PricePoolTokensToTradingTokens, value
  <2> PICK w \in CheckedCeilDiv(u.quotient, supply) : t.token_b = w.quotient
    BY <2>1
  <2>2. z.quotient \in Nat /\ value <= z.quotient * supply
    BY <1>2, <1>4, CeilingCovers DEF CheckedCeilDiv
  <2>3. u.quotient \in Nat /\ value <= u.quotient * price
    BY <1>2, <1>4, CeilingCovers DEF CheckedCeilDiv
  <2>4. w.quotient \in Nat /\ u.quotient <= w.quotient * supply
    BY <2>3, <1>4, CeilingCovers DEF CheckedCeilDiv
  <2>5. u.quotient * price <= (w.quotient * supply) * price
    BY <2>3, <2>4, <1>4
  <2>6. (w.quotient * price) * supply = (w.quotient * supply) * price
    BY <2>4
  <2> QED BY <1>2, <1>6, <2>1, <2>2, <2>3, <2>4, <2>5, <2>6 DEF value, half
<1> QED BY <1>5, <1>6

(* A fee is a natural number. *)
LEMMA FeeIsNat == ASSUME NEW f \in Fraction, NEW x \in Nat, NEW fee \in CalculateFee(x, f)
                  PROVE  fee \in Nat
<1>1. f.numerator \in Nat /\ f.denominator \in Nat
  BY WidthAssumption DEF Fraction, U64
<1>2. CASE f.numerator = 0 \/ x = 0
  BY <1>2 DEF CalculateFee
<1>3. CASE ~(f.numerator = 0 \/ x = 0)
  <2>1. f.denominator # 0 /\ fee \in {1, (x * f.numerator) \div f.denominator}
    BY <1>3 DEF CalculateFee
  <2>2. x * f.numerator \in Nat
    BY <1>1
  <2> QED BY <1>1, <2>1, <2>2, DivBelow
<1> QED BY <1>2, <1>3

(* So are the parameter of a curve and its offset. *)
LEMMA OffsetIsNat == ASSUME NEW c \in Curve PROVE c.param \in Nat /\ TokenBOffset(c) \in Nat
BY WidthAssumption DEF Curve, TokenBOffset, U64

(* A swap with its fees moves both reserves strictly, and does not lower   *)
(* what the curve holds constant, where that is a formula: the fees come   *)
(* on top of a trade that does not.                                        *)
LEMMA SwapKeepsValue ==
    ASSUME NEW c \in Curve, NEW fs \in CurveFees, NEW x \in Nat, NEW s \in Nat, NEW d \in Nat,
           NEW direction \in TradeDirection,
           NEW r \in SwapWithFees(c, fs, x, s, d, direction),
           c.curve_type # "Stable"
    PROVE  /\ r.new_source \in Nat /\ r.new_source > s
           /\ r.new_destination \in Nat /\ r.new_destination < d
           /\ c.curve_type # "ConstantPrice" =>
                LET os == SourceSide(direction, 0, TokenBOffset(c))
                    od == SourceSide(direction, TokenBOffset(c), 0)
                IN  (r.new_source + os) * (r.new_destination + od) >= (s + os) * (d + od)
           /\ c.curve_type = "ConstantPrice" /\ direction = "AtoB" =>
                r.new_source + r.new_destination * c.param >= s + d * c.param
           /\ c.curve_type = "ConstantPrice" /\ direction = "BtoA" =>
                r.new_destination + r.new_source * c.param >= d + s * c.param
<1> DEFINE os == SourceSide(direction, 0, TokenBOffset(c))
           od == SourceSide(direction, TokenBOffset(c), 0)
<1>1. PICK fee \in TradingFee(fs, x) \X OwnerTradingFee(fs, x) :
         r \in SwapAfterFees(c, x, fee[1], fee[2], s, d, direction)
  BY DEF SwapWithFees
<1> DEFINE total == fee[1] + fee[2]
<1>2. total \in Nat
  <2>1. fs.trade_fee \in Fraction /\ fs.owner_trade_fee \in Fraction
    BY DEF CurveFees
  <2> QED BY <1>1, <2>1, FeeIsNat DEF TradingFee, OwnerTradingFee
<1>3. PICK t \in SwapWithoutFees(c, x - total, s, d, direction) :
         /\ total <= x
         /\ r.new_source = s + t.source + total
         /\ r.new_destination = d - t.destination
         /\ r.new_destination >= 0
  <2> DEFINE trades == IF total > x THEN {} ELSE SwapWithoutFees(c, x - total, s, d, direction)
  <2>1. PICK t \in trades :
           /\ r = [new_source      |-> s + t.source + total,
                   new_destination |-> d - t.destination,
                   source          |-> t.source + total,
                   destination     |-> t.destination,
                   trade_fee       |-> fee[1],
                   owner_fee       |-> fee[2]]
           /\ r.new_destination >= 0
    BY <1>1 DEF SwapAfterFees
  <2>2. total <= x
    BY <1>2, <2>1
  <2> QED BY <2>1, <2>2
<1> HIDE DEF total
<1>4. os \in Nat /\ od \in Nat
  BY OffsetIsNat DEF SourceSide
<1>5. CASE c.curve_type = "ConstantPrice"
  <2>1. t \in PriceSwap(c.param, x - total, direction)
    BY <1>3, <1>5 DEF SwapWithoutFees
  <2>2. /\ t.source \in Nat \ {0} /\ t.destination \in Nat \ {0}
        /\ direction = "AtoB" => t.source = t.destination * c.param
        /\ direction = "BtoA" => t.destination = t.source * c.param
    BY <1>2, <1>3, <2>1, OffsetIsNat, PriceSwapIsFair
  <2>3. (d - t.destination) * c.param = d * c.param - t.destination * c.param
    BY <2>2, OffsetIsNat
  <2>4. (s + t.source + total) * c.param >= s * c.param + t.source * c.param
    BY <1>2, <2>2, OffsetIsNat
  <2> QED BY <1>2, <1>3, <1>5, <2>2, <2>3, <2>4, OffsetIsNat
<1>6. CASE c.curve_type # "ConstantPrice"
  <2>1. t \in ProductSwap(x - total, s + os, d + od)
    BY <1>3, <1>6 DEF SwapWithoutFees
  <2> HIDE DEF os, od
  <2>2. /\ t.source \in Nat \ {0} /\ t.destination \in 1..(d + od)
        /\ (s + os) * (d + od) <= (s + os + t.source) * (d + od - t.destination)
    <3> DEFINE y == x - total
               source == s + os
               destination == d + od
    <3>1. y \in Nat /\ source \in Nat /\ destination \in Nat
      BY <1>2, <1>3, <1>4
    <3>2. t \in ProductSwap(y, source, destination)
      BY <2>1
    <3> HIDE DEF y, source, destination
    <3>3. /\ t.source \in 1..y /\ t.destination \in 1..destination
          /\ source * destination <= (source + t.source) * (destination - t.destination)
      BY <3>1, <3>2, ProductSwapIsBest
    <3>4. t.source \in Nat \ {0}
      BY <3>1, <3>3
    <3>5. t.destination \in 1..(d + od)
      BY <3>3 DEF destination
    <3>6. (s + os) * (d + od) <= (s + os + t.source) * (d + od - t.destination)
      BY <1>2, <1>3, <1>4, <3>3, <3>4, <3>5 DEF source, destination
    <3> QED BY <3>4, <3>5, <3>6
  <2>3. (s + os + t.source + total) * (d + od - t.destination)
          >= (s + os + t.source) * (d + od - t.destination)
    <3>1. d + od - t.destination \in Nat /\ s + os + t.source + total \in Nat /\ s + os + t.source \in Nat
      BY <1>2, <1>4, <2>2
    <3>2. s + os + t.source + total >= s + os + t.source
      BY <1>2, <1>4, <2>2
    <3> QED BY <3>1, <3>2, ProductMonotone
  <2>4. /\ r.new_source + os = s + os + t.source + total
        /\ r.new_destination + od = d + od - t.destination
    BY <1>2, <1>3, <1>4, <2>2
  <2>5. (r.new_source + os) * (r.new_destination + od) >= (s + os) * (d + od)
    <3>1. (s + os + t.source) * (d + od - t.destination) \in Int
      BY <1>4, <2>2
    <3> QED BY <2>2, <2>3, <2>4, <3>1, <1>4, <1>2
  <2> QED BY <1>2, <1>3, <1>6, <2>2, <2>5 DEF os, od
<1> QED BY <1>5, <1>6
=============================================================================
