-------------------------------- MODULE Pool --------------------------------
(***************************************************************************)
(* A pool traded against through the curve library: its two reserves and   *)
(* its supply of pool tokens, from the state its curve accepts on, under   *)
(* any sequence of library calls whose results are applied.                *)
(*                                                                         *)
(* The library computes; its caller, which this repository does not have   *)
(* yet, moves the tokens.  It is taken to do with a result what the checks *)
(* in curve/calculator.rs do with it: add what was charged, subtract what  *)
(* was paid out, and change the supply by the pool tokens.  Token balances *)
(* are u64.  A call that returns None, or a result the balances cannot     *)
(* honour, fails and leaves no trace.  The caller refuses one result, the  *)
(* one the library leaves it "to be rejected later in processing": a two   *)
(* sided deposit of no tokens on one side (constant_product.rs:72-76).     *)
(***************************************************************************)
EXTENDS SwapCurve

CONSTANTS Curves,         \* the curves a pool may be created with
          FeeChoices,     \* the fees a pool may be created with
          InitialSupply,  \* INITIAL_SWAP_POOL_AMOUNT
          SwapAmounts,    \* amounts offered in a swap
          ShareAmounts,   \* pool tokens of a two sided deposit or withdrawal
          SingleAmounts   \* amounts of a single sided deposit or withdrawal

ASSUME PoolAssumption ==
    /\ Curves \subseteq Curve
    /\ FeeChoices \subseteq CurveFees
    /\ InitialSupply \in U64 \ {0}
    /\ SwapAmounts \subseteq U64
    /\ ShareAmounts \subseteq U64
    /\ SingleAmounts \subseteq U64

VARIABLES curve,        \* the packed SwapCurve of the pool
          fees,         \* its CurveFees
          token_a,      \* balance of the token A account
          token_b,      \* balance of the token B account
          pool_supply   \* pool tokens in existence

vars == <<curve, fees, token_a, token_b, pool_supply>>

Init ==
    /\ curve \in {c \in Curves : ValidateCurve(c)}
    /\ fees \in {f \in FeeChoices : ValidateFees(f)}
    /\ token_a \in U64
    /\ token_b \in U64
    /\ ValidateSupply(curve, token_a, token_b)
    /\ pool_supply = InitialSupply

(* A faulty transfer that lets a balance outgrow its type. *)
BecomeUnchecked(new_a, new_b) ==
    /\ token_a' = new_a
    /\ token_b' = new_b

(* The reserves become these, if u64 balances can hold them. *)
Become(new_a, new_b) ==
    /\ new_a \in U64
    /\ new_b \in U64
    /\ token_a' = new_a
    /\ token_b' = new_b

(* Pool tokens are minted up to the largest u64, and burned down to none. *)
SupplyBecomes(new_supply) ==
    /\ new_supply \in U64
    /\ pool_supply' = new_supply

Swap(direction, source_amount) ==
    /\ \E r \in SwapWithFees(curve, fees, source_amount,
                             SourceSide(direction, token_a, token_b),
                             SourceSide(Opposite(direction), token_a, token_b), direction) :
          Become(SourceSide(direction, r.new_source, r.new_destination),
                 SourceSide(Opposite(direction), r.new_source, r.new_destination))
    /\ UNCHANGED <<curve, fees, pool_supply>>

DepositAllTokenTypes(pool_tokens) ==
    /\ AllowsDeposits(curve)
    /\ \E t \in PoolTokensToTradingTokens(curve, pool_tokens, pool_supply,
                                          token_a, token_b, "Ceiling") :
          /\ t.token_a > 0 /\ t.token_b > 0
          /\ Become(token_a + t.token_a, token_b + t.token_b)
    /\ SupplyBecomes(pool_supply + pool_tokens)
    /\ UNCHANGED <<curve, fees>>

WithdrawAllTokenTypes(pool_tokens) ==
    /\ \E t \in PoolTokensToTradingTokens(curve, pool_tokens, pool_supply,
                                          token_a, token_b, "Floor") :
          Become(token_a - t.token_a, token_b - t.token_b)
    /\ SupplyBecomes(pool_supply - pool_tokens)
    /\ UNCHANGED <<curve, fees>>

DepositSingle(direction, source_amount) ==
    /\ AllowsDeposits(curve)
    /\ \E pool_tokens \in DepositSingleTokenType(curve, fees, source_amount, token_a, token_b,
                                                 pool_supply, direction) :
          SupplyBecomes(pool_supply + pool_tokens)
    /\ Become(token_a + SourceSide(direction, source_amount, 0),
              token_b + SourceSide(direction, 0, source_amount))
    /\ UNCHANGED <<curve, fees>>

WithdrawSingle(direction, source_amount) ==
    /\ \E pool_tokens \in WithdrawSingleTokenTypeExactOut(curve, fees, source_amount, token_a, token_b,
                                                          pool_supply, direction) :
          SupplyBecomes(pool_supply - pool_tokens)
    /\ Become(token_a - SourceSide(direction, source_amount, 0),
              token_b - SourceSide(direction, 0, source_amount))
    /\ UNCHANGED <<curve, fees>>

Trade    == \E direction \in TradeDirection, x \in SwapAmounts : Swap(direction, x)
Deposit  == \E n \in ShareAmounts : DepositAllTokenTypes(n)
Withdraw == \E n \in ShareAmounts : WithdrawAllTokenTypes(n)
DepositOneSide  == \E direction \in TradeDirection, x \in SingleAmounts : DepositSingle(direction, x)
WithdrawOneSide == \E direction \in TradeDirection, x \in SingleAmounts : WithdrawSingle(direction, x)

Next == Trade \/ Deposit \/ Withdraw \/ DepositOneSide \/ WithdrawOneSide

Spec == Init /\ [][Next]_vars

-----------------------------------------------------------------------------
(* Balances, supply, curve and fees are what their Rust types and the      *)
(* validation at creation allow, and creation's parameters never change.   *)
TypeOK ==
    /\ curve \in Curves /\ ValidateCurve(curve)
    /\ fees \in FeeChoices /\ ValidateFees(fees)
    /\ token_a \in U64
    /\ token_b \in U64
    /\ pool_supply \in U64

(* What the curve holds constant in a swap, before rounding and fees: a    *)
(* formula on all curves but the stable one, whose value is d.             *)
HasFormula == curve.curve_type # "Stable"

Value(a, b) ==
    IF curve.curve_type = "ConstantPrice"
    THEN a + b * curve.param
    ELSE a * (b + TokenBOffset(curve))

(* The value the curve's own checks compare: the constant price curve      *)
(* halves it and drops the remainder.                                      *)
NormalizedValue(a, b) ==
    IF curve.curve_type = "ConstantPrice" THEN Value(a, b) \div 2 ELSE Value(a, b)

(* A pool token is worth no less in a pool of this value and supply than   *)
(* in the other: by cross multiplication, with the supply squared where    *)
(* the value is a product of two amounts.                                  *)
WorthAtLeast(value1, supply1, value2, supply2) ==
    IF curve.curve_type = "ConstantPrice"
    THEN value1 * supply2 >= value2 * supply1
    ELSE value1 * supply2 * supply2 >= value2 * supply1 * supply1

(* No swap and no two sided deposit or withdrawal, at any reserves and in  *)
(* any order, lowers what a pool token stands for: all rounding is in      *)
(* favour of the pool (check_curve_value_from_swap,                        *)
(* check_pool_value_from_deposit and check_pool_value_from_withdraw).      *)
ShareValueNeverFalls ==
    [][HasFormula /\ (Trade \/ Deposit \/ Withdraw) =>
           WorthAtLeast(NormalizedValue(token_a', token_b'), pool_supply',
                        NormalizedValue(token_a, token_b), pool_supply)]_vars

(* But on the constant price curve, a two sided deposit or withdrawal moves *)
(* each reserve separately by no less, or no more, than its share: neither *)
(* side subsidises the other (check_pool_value_from_deposit).              *)
EachSideKeepsItsShare ==
    [][curve.curve_type # "ConstantPrice" /\ (Deposit \/ Withdraw) =>
          /\ token_a' * pool_supply >= token_a * pool_supply'
          /\ (token_b' + TokenBOffset(curve)) * pool_supply
                >= (token_b + TokenBOffset(curve)) * pool_supply']_vars

(* A two sided deposit charges a side less than its share only by charging *)
(* it nothing: all that a caller has to look for, to reject it, is a zero. *)
UnderchargesAreZero ==
    curve.curve_type # "ConstantPrice" =>
    \A n \in ShareAmounts :
      \A t \in PoolTokensToTradingTokens(curve, n, pool_supply, token_a, token_b, "Ceiling") :
         /\ t.token_a * pool_supply < n * token_a => t.token_a = 0
         /\ t.token_b * pool_supply < n * (token_b + TokenBOffset(curve)) => t.token_b = 0

(* A swap quote of the multiplicative curves, in either direction, is the  *)
(* best the invariant allows on both ends: paying out one more would break *)
(* it, and so would charging one less for the same payout; the offer is    *)
(* never overcharged.                                                      *)
SwapQuotesAreBest ==
    Multiplicative(curve) =>
    \A direction \in TradeDirection, x \in SwapAmounts :
      LET b           == token_b + TokenBOffset(curve)
          source      == SourceSide(direction, token_a, b)
          destination == SourceSide(Opposite(direction), token_a, b)
          k           == token_a * b
      IN  \A q \in SwapWithoutFees(curve, x, SourceSide(direction, token_a, token_b),
                                   SourceSide(Opposite(direction), token_a, token_b), direction) :
            /\ q.source \in 1..x
            /\ k <= (source + q.source) * (destination - q.destination)
            /\ k > (source + x) * (destination - q.destination - 1)
            /\ k > (source + q.source - 1) * (destination - q.destination)

(* Splitting a trade in two never pays out more than trading at once: the  *)
(* second part is quoted against reserves the first has moved, and against *)
(* an invariant that rounding can only have raised.                        *)
SplittingNeverPays ==
    HasFormula =>
    \A direction \in TradeDirection, x \in SwapAmounts, y \in SwapAmounts :
      LET source      == SourceSide(direction, token_a, token_b)
          destination == SourceSide(Opposite(direction), token_a, token_b)
      IN  \A first \in SwapWithoutFees(curve, x, source, destination, direction) :
          \A second \in SwapWithoutFees(curve, y, source + first.source,
                                        destination - first.destination, direction) :
          \A whole \in SwapWithoutFees(curve, x + y, source, destination, direction) :
             first.destination + second.destination <= whole.destination

(* The value of a pool token before any normalization does not fall.       *)
KeepsExactValue ==
    WorthAtLeast(Value(token_a', token_b'), pool_supply', Value(token_a, token_b), pool_supply)

(* The fixed point numbers are fine enough for this supply: what they lose *)
(* in a square root is less than the least amount by which a share of      *)
(* either side can be too large.                                           *)
RootIsFine(supply) ==
    \A held \in {token_a, token_b + TokenBOffset(curve)} : 7 * (supply * supply * held) <= 2 * One

(* The single sided operations that are to be fair: not a withdrawal with  *)
(* a trading fee, which the run single_withdrawal_fee is about.            *)
FairSingleSided == DepositOneSide \/ (WithdrawOneSide /\ fees.trade_fee.numerator = 0)

(* A single sided deposit mints at most, and without a trading fee such a  *)
(* withdrawal burns at least, the share that the tokens moved are worth:   *)
(* the other holders are not diluted.  On the multiplicative curves that   *)
(* takes a fixed point that is fine enough for the pool.                   *)
SingleSidedNeverDilutes ==
    [][/\ HasFormula /\ FairSingleSided
       /\ Multiplicative(curve) => RootIsFine(pool_supply) /\ RootIsFine(pool_supply')
       => KeepsExactValue]_vars

(* In a larger pool the square root misses the share by less than one pool *)
(* token.  With the supply at most an eighth of the units of One, and      *)
(* unless more than half of it is burned, one pool token fewer would make  *)
(* up for it.                                                              *)
SingleSidedDilutesLessThanOneToken ==
    [][/\ Multiplicative(curve) /\ FairSingleSided
       /\ pool_supply > 0 /\ 8 * pool_supply <= One
       /\ pool_supply <= 2 * pool_supply'
       => WorthAtLeast(Value(token_a', token_b'), pool_supply' - 1,
                       Value(token_a, token_b), pool_supply)]_vars

(* A pool on a multiplicative curve runs dry only as a whole: trading and  *)
(* two sided withdrawals never empty token A while pool tokens remain, and *)
(* never burn the last pool token while reserves remain, which would       *)
(* strand them, since nothing can be deposited or withdrawn any more.      *)
EmptiesAsOne ==
    Multiplicative(curve) => /\ token_a = 0 <=> pool_supply = 0
                             /\ pool_supply = 0 => token_b = 0

(* Whoever holds every pool token of a constant product or stable pool can *)
(* have all of both reserves for them, however far the reserves have       *)
(* drifted apart: no intermediate result is too wide, and nothing is left. *)
LastHolderCanLeave ==
    curve.curve_type \in {"ConstantProduct", "Stable"} /\ pool_supply > 0 =>
       PoolTokensToTradingTokens(curve, pool_supply, pool_supply, token_a, token_b, "Floor")
         = {[token_a |-> token_a, token_b |-> token_b]}

(* Each fee that passed validation leaves something of every amount above  *)
(* one, and takes no more than there is of an amount of one, the least fee *)
(* being one token: of a swap, of pool tokens withdrawn, of the owner fee. *)
ValidFeesLeaveSomething ==
    \A x \in SwapAmounts :
      \A fee \in TradingFee(fees, x) \cup OwnerTradingFee(fees, x)
                  \cup OwnerWithdrawFee(fees, x) \cup HostFee(fees, x) :
         fee <= x /\ (fee = x => x <= 1)

(* A pool on a multiplicative curve implements the promise of Fund, with   *)
(* the offset counted to token B: in particular nothing brings a pool back *)
(* that has paid out everything.                                           *)
Promise == INSTANCE Fund WITH side_a <- token_a,
                              side_b <- token_b + TokenBOffset(curve),
                              shares <- pool_supply

ImplementsFund == Promise!Spec

(* A larger offer never yields less than a smaller one does, on any curve: *)
(* for the stable one, whatever the rounds of its method end on.           *)
OfferingMoreNeverYieldsLess ==
    \A direction \in TradeDirection, x \in SwapAmounts, y \in SwapAmounts :
      LET Quotes(offer) == SwapWithoutFees(curve, offer, SourceSide(direction, token_a, token_b),
                                           SourceSide(Opposite(direction), token_a, token_b), direction)
      IN  x <= y => \A less \in Quotes(x), more \in Quotes(y) : less.destination <= more.destination

(* Without a trading fee, taking an amount of one token out right after it *)
(* was put in costs at least the pool tokens it was given.  The stable     *)
(* curve promises it for token A only: with token B it computes d once     *)
(* with the sides in their order and once in the other, which differ.      *)
SingleRoundTripNeverPays ==
    fees.trade_fee.numerator = 0 =>
    \A direction \in {way \in TradeDirection : HasFormula \/ way = "AtoB"}, x \in SingleAmounts :
      \A minted \in DepositSingleTokenType(curve, fees, x, token_a, token_b, pool_supply, direction) :
      \A burned \in WithdrawSingleTokenTypeExactOut(curve, fees, x,
                       token_a + SourceSide(direction, x, 0), token_b + SourceSide(direction, 0, x),
                       pool_supply + minted, direction) :
         burned >= minted

(* The invariant d of the stable curve is at most the sum of the reserves, *)
(* from which its method starts: a round can go far above it, and rounds   *)
(* can alternate for ever, but the last one does not leave d up there.     *)
StableValueWithinReserves ==
    curve.curve_type = "Stable" =>
    \A d \in StableD(curve.param, token_a, token_b) : d <= token_a + token_b

(* With an amplifier that fits when doubled, the method for d has a result *)
(* at all reserves that trading leads to, empty ones included: no round    *)
(* divides by zero, as the doubled amplifier less one is never zero.       *)
StableValueExists ==
    curve.curve_type = "Stable" /\ curve.param \in 1..(MaxU64 \div 2) =>
       StableD(curve.param, token_a, token_b) # {}

(* As the comment on the trading fee has it (curve/fees.rs:15-16), fees    *)
(* are held in the token accounts and make the value of pool tokens rise:  *)
(* then no single sided operation lowers it, a withdrawal no more than a   *)
(* deposit.                                                                *)
TradingFeeRaisesValue ==
    [][HasFormula /\ (DepositOneSide \/ WithdrawOneSide) => KeepsExactValue]_vars

(* As the comment on RoundDirection has it (curve/calculator.rs:39-40),    *)
(* the rounding of a conversion avoids losing value on any deposit.        *)
DepositNeverLosesValue == [][HasFormula /\ Deposit => KeepsExactValue]_vars

(* As the comment on normalized_value has it (curve/calculator.rs:184-185), *)
(* value is not lost on any trade: a swap on the stable curve does not     *)
(* lower d.                                                                *)
StableSwapKeepsValue ==
    [][curve.curve_type = "Stable" /\ Trade =>
          \A before \in StableD(curve.param, token_a, token_b),
             after \in StableD(curve.param, token_a', token_b') : after >= before]_vars

(* As the comment on CurveFees::validate has it (curve/fees.rs:113), fees  *)
(* that pass are reasonable: the two fees of a swap, of one token each at  *)
(* least, leave something to trade of an amount above two.                 *)
ReasonableFeesLeaveATrade ==
    \A x \in SwapAmounts \ 0..2 :
      \A trade_fee \in TradingFee(fees, x), owner_fee \in OwnerTradingFee(fees, x) :
         trade_fee + owner_fee < x

(* As the comment on validate has it (curve/calculator.rs:152), a curve    *)
(* that passes has no invalid parameters: the value of a new pool exists.  *)
ValidatedCurveHasValue ==
    curve.curve_type = "Stable" /\ pool_supply = InitialSupply =>
       StableD(curve.param, token_a, token_b) # {}
=============================================================================
