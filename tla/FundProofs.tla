----------------------------- MODULE FundProofs -----------------------------
(***************************************************************************)
(* A pool on a multiplicative curve implements Fund, and what follows for  *)
(* whole sequences of calls.  Single sided operations are left out: they   *)
(* pass through a square root in fixed point, and do not keep the promise  *)
(* for each side.                                                          *)
(***************************************************************************)
EXTENDS PoolHistory, PoolProofs

(* The inductive invariant: a pool on a multiplicative curve is open, both *)
(* sides and the supply positive, or closed for good.                      *)
OpenOrClosed == Multiplicative(curve) => Promise!Open \/ Promise!Closed

FundInv == TypeOK /\ OpenOrClosed

(* What the promise reads of a state, and of the next one.                 *)
LEMMA SidesAreNat ==
    ASSUME TypeOK
    PROVE  token_a \in Nat /\ token_b + TokenBOffset(curve) \in Nat /\ pool_supply \in Nat
BY TypeFacts

(* What is no less than a product of positive factors has positive factors. *)
LEMMA FactorsStayPositive ==
    ASSUME NEW u \in Nat, NEW v \in Nat, NEW w \in Nat \ {0}, NEW z \in Nat \ {0},
           u * v >= w * z
    PROVE  u > 0 /\ v > 0
<1>1. w * z > 0
  OBVIOUS
<1>2. u * v > 0
  BY <1>1
<1>3. u # 0 /\ v # 0
  BY <1>2
<1> QED BY <1>3

(* No action changes the curve. *)
LEMMA CurveStays == Next => UNCHANGED curve
BY DEF Next, Trade, Deposit, Withdraw, DepositOneSide, WithdrawOneSide,
       Swap, DepositAllTokenTypes, WithdrawAllTokenTypes, DepositSingle, WithdrawSingle

(* A swap takes from a side that has something, and is an exchange.        *)
LEMMA SwapIsExchange ==
    ASSUME FundInv, Multiplicative(curve), NEW direction \in TradeDirection, NEW x \in Nat,
           Swap(direction, x)
    PROVE  Promise!Exchange /\ Promise!Open'
<1> DEFINE off == TokenBOffset(curve)
           b == token_b + off
           c == token_b' + off
<1>1. curve' = curve /\ HasFormula /\ TypeOK
  BY DEF Swap, Multiplicative, HasFormula, FundInv
<1>2. token_a' \in Nat /\ token_b' \in Nat /\ pool_supply' = pool_supply
      /\ token_a' * c >= token_a * b
  <2>1. curve.curve_type # "ConstantPrice"
    BY DEF Multiplicative
  <2> QED BY <1>1, <2>1, SwapStep DEF Value
<1>3. token_a \in Nat /\ b \in Nat /\ c \in Nat /\ pool_supply \in Nat /\ off \in Nat
  BY <1>1, <1>2, TypeFacts
<1>4. Promise!Open
  <2>1. ASSUME Promise!Closed PROVE FALSE
    <3> DEFINE src == SourceSide(direction, token_a, token_b)
               dst == SourceSide(Opposite(direction), token_a, token_b)
    <3>1. src = 0 /\ dst = 0
      BY <2>1, <1>1, TypeFacts DEF Promise!Closed, SourceSide
    <3>2. PICK r \in SwapWithFees(curve, fees, x, src, dst, direction) : TRUE
      BY DEF Swap
    <3>3. r.new_destination \in Nat /\ r.new_destination < dst
      BY <1>1, <3>1, <3>2, TypeFacts, SwapKeepsValue DEF HasFormula
    <3> QED BY <3>1, <3>3
  <2> QED BY <2>1 DEF FundInv, OpenOrClosed
<1>5. token_a > 0 /\ b > 0 /\ pool_supply > 0
  BY <1>4 DEF Promise!Open
<1> HIDE DEF b, c, off
<1>6. token_a' > 0 /\ c > 0
  <2>1. token_a' \in Nat /\ c \in Nat /\ token_a \in Nat \ {0} /\ b \in Nat \ {0}
    BY <1>2, <1>3, <1>5
  <2> QED BY <1>2, <2>1, FactorsStayPositive, Zenon
<1> QED BY <1>1, <1>2, <1>3, <1>4, <1>5, <1>6 DEF Promise!Exchange, Promise!Open, b, c, off

(* A two sided operation keeps both sides' shares, and the pool open unless *)
(* everything is withdrawn, which an offset pool never does.               *)
LEMMA TwoSidedIsIssueOrRedeem ==
    ASSUME FundInv, Multiplicative(curve), NEW n \in Nat,
           DepositAllTokenTypes(n) \/ WithdrawAllTokenTypes(n)
    PROVE  Promise!IssueOrRedeem /\ (Promise!Open' \/ Promise!Closed')
<1> DEFINE off == TokenBOffset(curve)
           b == token_b + off
           c == token_b' + off
<1>1. curve' = curve /\ curve.curve_type # "ConstantPrice" /\ TypeOK
  BY DEF DepositAllTokenTypes, WithdrawAllTokenTypes, Multiplicative, FundInv
<1>2. /\ token_a' \in Nat /\ token_b' \in Nat /\ pool_supply' \in Nat
      /\ token_a' * pool_supply >= token_a * pool_supply'
      /\ c * pool_supply >= b * pool_supply'
  BY <1>1, TwoSidedKeepsShares
<1>3. token_a \in Nat /\ b \in Nat /\ c \in Nat /\ pool_supply \in Nat /\ off \in Nat /\ token_b \in Nat
  BY <1>1, <1>2, TypeFacts
<1>4. pool_supply > 0
  <2>1. \E round \in {"Floor", "Ceiling"} :
           PoolTokensToTradingTokens(curve, n, pool_supply, token_a, token_b, round) # {}
    BY DEF DepositAllTokenTypes, WithdrawAllTokenTypes
  <2> QED BY <1>1, <2>1 DEF PoolTokensToTradingTokens, ProductPoolTokensToTradingTokens
<1>5. Promise!Open /\ token_a > 0 /\ b > 0
  BY <1>4 DEF FundInv, OpenOrClosed, Promise!Open, Promise!Closed
<1>6. (token_a' > 0 /\ c > 0 /\ pool_supply' > 0) \/ (token_a' = 0 /\ c = 0 /\ pool_supply' = 0)
  <2>1. CASE pool_supply' > 0
    <3> HIDE DEF b, c
    <3>1. /\ token_a' \in Nat /\ c \in Nat /\ pool_supply \in Nat
          /\ token_a \in Nat \ {0} /\ b \in Nat \ {0} /\ pool_supply' \in Nat \ {0}
      BY <1>2, <1>3, <1>5, <2>1
    <3>2. token_a' > 0 /\ c > 0
      BY <1>2, <3>1, FactorsStayPositive, Zenon
    <3> QED BY <2>1, <3>2
  <2>2. CASE pool_supply' = 0
    <3>1. n = pool_supply /\ WithdrawAllTokenTypes(n)
      BY <1>3, <1>4, <2>2 DEF DepositAllTokenTypes, WithdrawAllTokenTypes, SupplyBecomes
    <3>2. PICK t \in ProductPoolTokensToTradingTokens(n, pool_supply, token_a, b, "Floor") :
             token_a' = token_a - t.token_a /\ token_b' = token_b - t.token_b
      BY <1>1, <3>1 DEF WithdrawAllTokenTypes, PoolTokensToTradingTokens, Become
    <3>3. t.token_a = (n * token_a) \div n /\ t.token_b = (n * b) \div n
      BY <3>1, <3>2 DEF ProductPoolTokensToTradingTokens, ShareOf
    <3> HIDE DEF b, c
    <3>4. t.token_a = token_a /\ t.token_b = b
      BY <1>3, <1>4, <3>1, <3>3, DivExact
    <3> QED BY <1>2, <1>3, <2>2, <3>2, <3>4 DEF b, c
  <2> QED BY <1>2, <2>1, <2>2
<1> QED BY <1>1, <1>2, <1>3, <1>5, <1>6 DEF Promise!IssueOrRedeem, Promise!Open, Promise!Closed

(* Every step of the pool is a step of the fund, or none. *)
LEMMA StepIsFundStep ==
    ASSUME SingleAmounts = {}, FundInv, Multiplicative(curve), [Next]_vars
    PROVE  [Promise!Next]_(Promise!fundVars) /\ (Promise!Open' \/ Promise!Closed')
<1>1. CASE UNCHANGED vars
  BY <1>1 DEF vars, FundInv, OpenOrClosed, Promise!fundVars, Promise!Open, Promise!Closed
<1>2. CASE Trade
  <2> PICK direction \in TradeDirection, x \in SwapAmounts : Swap(direction, x)
    BY <1>2 DEF Trade
  <2>1. x \in Nat
    BY PoolAssumption, WidthAssumption DEF U64
  <2> QED BY <2>1, SwapIsExchange DEF Promise!Next
<1>3. CASE Deposit \/ Withdraw
  <2> PICK n \in ShareAmounts : DepositAllTokenTypes(n) \/ WithdrawAllTokenTypes(n)
    BY <1>3 DEF Deposit, Withdraw
  <2>1. n \in Nat
    BY PoolAssumption, WidthAssumption DEF U64
  <2> QED BY <2>1, TwoSidedIsIssueOrRedeem DEF Promise!Next
<1>4. CASE DepositOneSide \/ WithdrawOneSide
  BY <1>4 DEF DepositOneSide, WithdrawOneSide
<1> QED BY <1>1, <1>2, <1>3, <1>4 DEF Next

(* A new pool is open: its offset, or token B, makes up the second side.   *)
LEMMA NewPoolIsOpen == Init => FundInv /\ (Multiplicative(curve) => Promise!Init)
<1> SUFFICES ASSUME Init PROVE FundInv /\ (Multiplicative(curve) => Promise!Init)
  OBVIOUS
<1>1. TypeOK
  BY PoolAssumption DEF Init, TypeOK, U64
<1>2. ASSUME Multiplicative(curve) PROVE Promise!Open
  <2>1. token_a > 0 /\ pool_supply > 0
    BY <1>1, TypeFacts, PoolAssumption, WidthAssumption DEF Init, ValidateSupply, U64
  <2>2. token_b + TokenBOffset(curve) > 0
    BY <1>1, <1>2, TypeFacts DEF Init, ValidateSupply, ValidateCurve, TokenBOffset, Multiplicative
  <2> QED BY <2>1, <2>2 DEF Promise!Open
<1> QED BY <1>1, <1>2, SidesAreNat DEF FundInv, OpenOrClosed, Promise!Init

(* Without single sided operations, no pool on a multiplicative curve is   *)
(* ever left with one side, or with pool tokens for nothing.               *)
LEMMA FundInvariance == ASSUME SingleAmounts = {} PROVE Spec => []FundInv
<1>1. Init => FundInv
  BY NewPoolIsOpen
<1>2. FundInv /\ TypeOK' /\ [Next]_vars => FundInv'
  <2> SUFFICES ASSUME FundInv, TypeOK', [Next]_vars PROVE OpenOrClosed'
    BY DEF FundInv
  <2>1. curve' = curve
    BY CurveStays DEF vars
  <2>2. CASE Multiplicative(curve)
    BY <2>2, StepIsFundStep DEF OpenOrClosed
  <2>3. CASE ~Multiplicative(curve)
    BY <2>1, <2>3 DEF OpenOrClosed, Multiplicative
  <2> QED BY <2>2, <2>3
<1> QED BY <1>1, <1>2, TypeCorrect, PTL DEF Spec

-----------------------------------------------------------------------------
(* A pool on a multiplicative curve that offers no single sided operation  *)
(* implements the fund, for every width, fee, and amount.                  *)
THEOREM PoolImplementsFund ==
    ASSUME SingleAmounts = {}, \A c \in Curves : Multiplicative(c)
    PROVE  Spec => ImplementsFund
<1>1. TypeOK => Multiplicative(curve)
  BY DEF TypeOK
<1>2. Init => Promise!Init
  BY <1>1, NewPoolIsOpen DEF FundInv
<1>3. FundInv /\ [Next]_vars => [Promise!Next]_(Promise!fundVars)
  BY <1>1, StepIsFundStep DEF FundInv
<1> QED BY <1>2, <1>3, FundInvariance, PTL DEF Spec, ImplementsFund, Promise!Spec

(* Such a pool empties as a whole: one side, or the supply, never without  *)
(* the other.                                                              *)
THEOREM PoolEmptiesAsOne == ASSUME SingleAmounts = {} PROVE Spec => []EmptiesAsOne
<1>1. FundInv => EmptiesAsOne
  <2> SUFFICES ASSUME FundInv, Multiplicative(curve)
               PROVE  (token_a = 0 <=> pool_supply = 0) /\ (pool_supply = 0 => token_b = 0)
    BY DEF EmptiesAsOne
  <2>1. TypeOK
    BY DEF FundInv
  <2> QED BY <2>1, TypeFacts DEF FundInv, OpenOrClosed, Promise!Open, Promise!Closed
<1> QED BY <1>1, FundInvariance, PTL

-----------------------------------------------------------------------------
(* A positive factor on both sides cancels. *)
LEMMA CancelFactor ==
    ASSUME NEW u \in Nat, NEW v \in Nat, NEW m \in Nat \ {0}, m * u >= m * v
    PROVE  u >= v
<1> SUFFICES ASSUME v >= u + 1 PROVE FALSE
  OBVIOUS
<1>1. m * v >= m * (u + 1)
  OBVIOUS
<1> QED BY <1>1

(* Worth per share compares transitively: of three states with values u,   *)
(* v, w and squared supplies p, q, r, the second of them positive.         *)
LEMMA WorthIsTransitive ==
    ASSUME NEW u \in Nat, NEW v \in Nat, NEW w \in Nat,
           NEW p \in Nat, NEW q \in Nat \ {0}, NEW r \in Nat,
           u * q >= v * p, v * r >= w * q
    PROVE  u * r >= w * p
<1>1. (u * q) * r >= (v * p) * r
  <2>1. u * q \in Nat /\ v * p \in Nat
    OBVIOUS
  <2> QED BY <2>1, ProductMonotone
<1>2. (v * r) * p >= (w * q) * p
  <2>1. v * r \in Nat /\ w * q \in Nat
    OBVIOUS
  <2> QED BY <2>1, ProductMonotone
<1>3. (v * p) * r = (v * r) * p /\ (u * q) * r = q * (u * r) /\ (w * q) * p = q * (w * p)
  OBVIOUS
<1>4. u * r \in Nat /\ w * p \in Nat
  OBVIOUS
<1>5. q * (u * r) >= q * (w * p)
  BY <1>1, <1>2, <1>3
<1> QED BY <1>4, <1>5, CancelFactor

(* With sides a and b and supply s, a share has no less than with a0, b0   *)
(* and s0.                                                                 *)
NoLessPerShare(a, b, s, a0, b0, s0) == (a * b) * (s0 * s0) >= (a0 * b0) * (s * s)

(* No less value per share, no more of either side and no fewer shares:    *)
(* then nothing has changed.                                               *)
LEMMA NothingIsLeftOwed ==
    ASSUME NEW a \in Nat, NEW b \in Nat, NEW s \in Nat,
           NEW a0 \in Nat \ {0}, NEW b0 \in Nat \ {0}, NEW s0 \in Nat \ {0},
           NoLessPerShare(a, b, s, a0, b0, s0),
           a <= a0, b <= b0, s >= s0
    PROVE  a = a0 /\ b = b0 /\ s = s0
<1> DEFINE v == a * b
           v0 == a0 * b0
           q == s * s
           q0 == s0 * s0
<1>1. /\ v \in Nat /\ v0 \in Nat \ {0} /\ q \in Nat /\ q0 \in Nat \ {0}
      /\ v0 >= v /\ q >= q0
  BY ProductMonotone
<1>2. v * q0 >= v0 * q
  BY DEF NoLessPerShare
<1> HIDE DEF v, v0, q, q0
<1>3. v0 * q0 >= v * q0 /\ v0 * q >= v0 * q0
  BY <1>1
<1>4. v >= v0
  <2>1. q0 * v >= q0 * v0
    BY <1>1, <1>2, <1>3
  <2> QED BY <1>1, <2>1, CancelFactor
<1>5. q0 >= q
  <2>1. v0 * q0 >= v0 * q
    BY <1>1, <1>2, <1>3
  <2> QED BY <1>1, <2>1, CancelFactor
<1>6. s = s0
  <2>1. s >= s0 + 1 => s * s >= (s0 + 1) * (s0 + 1)
    BY ProductMonotone
  <2> QED BY <1>5, <2>1 DEF q, q0
<1>7. a = a0 /\ b = b0
  <2>1. a <= a0 - 1 => v0 >= v + b0
    <3>1. a * b <= a * b0
      OBVIOUS
    <3>2. a <= a0 - 1 => a * b0 <= (a0 - 1) * b0
      OBVIOUS
    <3> QED BY <3>1, <3>2 DEF v, v0
  <2>2. b <= b0 - 1 => v0 >= v + a0
    <3>1. a * b <= a0 * b
      OBVIOUS
    <3>2. b <= b0 - 1 => a0 * b <= a0 * (b0 - 1)
      OBVIOUS
    <3> QED BY <3>1, <3>2 DEF v, v0
  <2> QED BY <1>1, <1>4, <2>1, <2>2
<1> QED BY <1>6, <1>7

(* The inductive invariant of whole sequences: value per pool token is at  *)
(* least what it was at the opening, by cross multiplication.              *)
Opening == [token_a : Nat \ {0}, token_b : Nat, supply : Nat \ {0}]

KeptSinceOpening ==
    LET b  == token_b + TokenBOffset(curve)
        b0 == opening.token_b + TokenBOffset(curve)
    IN  b0 > 0 /\ NoLessPerShare(token_a, b, pool_supply, opening.token_a, b0, opening.supply)

HistoryInv == /\ FundInv
              /\ opening \in Opening
              /\ Multiplicative(curve) => KeptSinceOpening

(* A step of the fund keeps the value per share since the opening.         *)
LEMMA FundStepKeeps ==
    ASSUME NEW a \in Nat, NEW b \in Nat, NEW s \in Nat \ {0},
           NEW u \in Nat, NEW v \in Nat, NEW t \in Nat,
           NEW a0 \in Nat, NEW b0 \in Nat, NEW s0 \in Nat,
           NoLessPerShare(a, b, s, a0, b0, s0),
           \/ u * v >= a * b /\ t = s
           \/ u * s >= a * t /\ v * s >= b * t
    PROVE  NoLessPerShare(u, v, t, a0, b0, s0)
<1> DEFINE q0 == s0 * s0
           v0 == a0 * b0
<1>1. /\ a * b \in Nat /\ u * v \in Nat /\ s * s \in Nat \ {0} /\ t * t \in Nat
      /\ q0 \in Nat /\ v0 \in Nat
  OBVIOUS
<1>2. (a * b) * q0 >= v0 * (s * s)
  BY DEF NoLessPerShare
<1> SUFFICES (u * v) * q0 >= v0 * (t * t)
  BY DEF NoLessPerShare
<1> HIDE DEF q0, v0
<1>3. CASE u * v >= a * b /\ t = s
  <2>1. (u * v) * q0 >= (a * b) * q0
    BY <1>1, <1>3, ProductMonotone
  <2> QED BY <1>1, <1>2, <1>3, <2>1
<1>4. CASE u * s >= a * t /\ v * s >= b * t
  <2>1. (u * v) * s * s >= (a * b) * t * t
    BY <1>4, SharesMultiply
  <2>2. (u * v) * (s * s) >= (a * b) * (t * t)
    BY <2>1
  <2> QED BY <1>1, <1>2, <2>2, WorthIsTransitive
<1> QED BY <1>3, <1>4

(* The record of the opening is made of positive amounts. *)
LEMMA HistoryStarts == HistoryInit => HistoryInv
<1> SUFFICES ASSUME HistoryInit PROVE HistoryInv
  OBVIOUS
<1>1. FundInv /\ (Multiplicative(curve) => Promise!Open)
  BY NewPoolIsOpen DEF HistoryInit, Promise!Init
<1>2. token_a \in Nat \ {0} /\ token_b \in Nat /\ pool_supply \in Nat \ {0}
  BY <1>1, TypeFacts, PoolAssumption, WidthAssumption
     DEF FundInv, HistoryInit, Init, ValidateSupply, U64
<1>3. opening = [token_a |-> token_a, token_b |-> token_b, supply |-> pool_supply]
  BY DEF HistoryInit
<1>4. Multiplicative(curve) => KeptSinceOpening
  <2> DEFINE b == token_b + TokenBOffset(curve)
  <2>1. b \in Nat
    BY <1>1, TypeFacts DEF FundInv
  <2> HIDE DEF b
  <2>2. NoLessPerShare(token_a, b, pool_supply, token_a, b, pool_supply)
    BY <1>2, <2>1 DEF NoLessPerShare
  <2> QED BY <1>1, <1>3, <2>2 DEF KeptSinceOpening, Promise!Open, b
<1> QED BY <1>1, <1>2, <1>3, <1>4 DEF HistoryInv, Opening

(* Every step keeps it, in an open pool by the fund, in a closed one as    *)
(* nothing can follow.                                                     *)
LEMMA HistoryStep ==
    ASSUME SingleAmounts = {}, HistoryInv, FundInv', [HistoryNext]_<<vars, opening>>
    PROVE  HistoryInv'
<1>1. [Next]_vars /\ opening' = opening /\ FundInv
  BY DEF HistoryNext, HistoryInv, vars
<1>2. curve' = curve
  BY <1>1, CurveStays DEF vars
<1>3. ASSUME Multiplicative(curve) PROVE KeptSinceOpening'
  <2> DEFINE off == TokenBOffset(curve)
             b   == token_b + off
             c   == token_b' + off
             b0  == opening.token_b + off
             a0  == opening.token_a
             s0  == opening.supply
  <2>1. b0 > 0 /\ NoLessPerShare(token_a, b, pool_supply, a0, b0, s0)
    BY <1>3 DEF HistoryInv, KeptSinceOpening
  <2>2. TypeOK /\ TypeOK'
    BY <1>1 DEF FundInv
  <2>3. /\ token_a \in Nat /\ b \in Nat /\ pool_supply \in Nat /\ off \in Nat
        /\ token_a' \in Nat /\ token_b' \in Nat /\ pool_supply' \in Nat /\ c \in Nat
    BY <2>2, TypeFacts, WidthAssumption DEF TypeOK, U64
  <2>4. a0 \in Nat /\ b0 \in Nat /\ s0 \in Nat
    BY <2>3 DEF HistoryInv, Opening
  <2>5. [Promise!Next]_(Promise!fundVars)
    BY <1>1, <1>3, StepIsFundStep
  <2>6. KeptSinceOpening' <=> b0 > 0 /\ NoLessPerShare(token_a', c, pool_supply', a0, b0, s0)
    BY <1>1, <1>2 DEF KeptSinceOpening
  <2>7. CASE UNCHANGED Promise!fundVars
    <3>1. token_a' = token_a /\ c = b /\ pool_supply' = pool_supply
      BY <1>2, <2>7 DEF Promise!fundVars
    <3> HIDE DEF b, c, b0, a0, s0
    <3> QED BY <2>1, <2>6, <3>1
  <2>8. CASE Promise!Next
    <3>1. /\ pool_supply > 0
          /\ \/ token_a' * c >= token_a * b /\ pool_supply' = pool_supply
             \/ token_a' * pool_supply >= token_a * pool_supply'
                /\ c * pool_supply >= b * pool_supply'
      BY <1>2, <2>8 DEF Promise!Next, Promise!Exchange, Promise!IssueOrRedeem, Promise!Open
    <3> HIDE DEF b, c, b0, a0, s0, off
    <3>2. NoLessPerShare(token_a', c, pool_supply', a0, b0, s0)
      <4>1. pool_supply \in Nat \ {0}
        BY <2>3, <3>1
      <4> QED BY <2>1, <2>3, <2>4, <3>1, <4>1, FundStepKeeps, Zenon
    <3> QED BY <2>1, <2>6, <3>2
  <2> QED BY <2>5, <2>7, <2>8
<1> QED BY <1>1, <1>2, <1>3 DEF HistoryInv, Multiplicative

(* No sequence of swaps and two sided operations, of any length and at any *)
(* amounts, leaves a pool on a multiplicative curve with less of one token *)
(* than it opened with, no more of the other, and no fewer pool tokens.    *)
THEOREM RoundTripsAreSafe ==
    ASSUME SingleAmounts = {} PROVE HistorySpec => []RoundTripsLeaveNothingOwed
<1>1. HistoryInv => RoundTripsLeaveNothingOwed
  <2> SUFFICES ASSUME HistoryInv, Multiplicative(curve),
                      token_a <= opening.token_a, token_b <= opening.token_b,
                      pool_supply >= opening.supply
               PROVE  /\ token_a = opening.token_a
                      /\ token_b = opening.token_b
                      /\ pool_supply = opening.supply
    BY DEF RoundTripsLeaveNothingOwed
  <2> DEFINE off == TokenBOffset(curve)
             b   == token_b + off
             a0  == opening.token_a
             b0  == opening.token_b + off
             s0  == opening.supply
  <2>1. TypeOK
    BY DEF HistoryInv, FundInv
  <2>2. /\ token_a \in Nat /\ token_b \in Nat /\ off \in Nat /\ b \in Nat /\ pool_supply \in Nat
        /\ a0 \in Nat \ {0} /\ opening.token_b \in Nat /\ s0 \in Nat \ {0}
    BY <2>1, TypeFacts DEF HistoryInv, Opening
  <2>3. b0 \in Nat \ {0} /\ NoLessPerShare(token_a, b, pool_supply, a0, b0, s0)
    BY <2>2 DEF HistoryInv, KeptSinceOpening
  <2>4. token_a <= a0 /\ b <= b0 /\ pool_supply >= s0
    BY <2>2
  <2>5. token_a = a0 /\ b = b0 /\ pool_supply = s0
    <3> HIDE DEF b, a0, b0, s0, off
    <3> QED BY <2>2, <2>3, <2>4, NothingIsLeftOwed
  <2> QED BY <2>2, <2>5
<1>2. HistorySpec => Spec
  <2>1. HistoryInit => Init
    BY DEF HistoryInit
  <2>2. [HistoryNext]_<<vars, opening>> => [Next]_vars
    BY DEF HistoryNext, vars
  <2> QED BY <2>1, <2>2, PTL DEF HistorySpec, Spec
<1>3. HistoryInv /\ FundInv' /\ [HistoryNext]_<<vars, opening>> => HistoryInv'
  BY HistoryStep
<1> QED BY <1>1, <1>2, <1>3, HistoryStarts, FundInvariance, PTL DEF HistorySpec
=============================================================================
