# anchor_swap in TLA+

A verification development for `src/`, a Solana token swap program written
with Anchor. The program is a port in progress of the SPL token swap: the curve
library is complete, and of the instructions only `initialize` exists. So the
development has two halves that meet at the pool. One is the on-chain
instruction among the token program's; the other is the curve library, driven
by a caller that applies its results.

## The system

All source paths are under `src/programs/anchor_swap/src/`.

| part | state | operations | module |
| --- | --- | --- | --- |
| `lib.rs`, `initialize` | the `Amm` account (its discriminator; every field stays zero) | validate the accounts, mint one pool token | `Initialize`, `Custody` |
| SPL token program (external) | mints and token accounts | create, change authorities, mint, burn, close | `SplToken` |
| `curve/base.rs`, `SwapCurve` | curve type and calculator | `swap`, single sided deposit and withdrawal, with fees; packing | `SwapCurve`, `Packing` |
| `curve/fees.rs` | four fractions | fee calculation, validation; packing | `Fees`, `Packing` |
| `curve/constant_product.rs` | none | swap, conversion, single sided conversions | `ConstantProduct` |
| `curve/constant_price.rs` | `token_b_price` | the same | `ConstantPrice` |
| `curve/offset.rs` | `token_b_offset` | the same, through the constant product functions | `SwapCurve` |
| `curve/stable.rs` | `amp` | the same, by Newton's method | `Stable` |
| `curve/calculator.rs` | none | the trait, its defaults, the checks of the tests (commented out) | `SwapCurve`, and as properties of `Pool` |
| spl-math (external) | none | `checked_ceil_div`, `PreciseNumber` | `CheckedMath`, `PreciseNumber` |
| reserves and supply of a pool | balances of three SPL objects | what the library's results do to them | `Pool`, `PoolHistory`, `Fund` |
| packed curve and fees | 33 and 64 bytes | pack over what was there, unpack, compare | `Packing` |

Interaction: `SwapCurve` takes the fees out and calls its calculator; the offset
calculator calls the constant product one with the offset added to token B.
`initialize` reads accounts that users own or owned, and calls the token
program. On chain nothing runs concurrently inside an instruction, but
instructions of any users interleave, and the token program's may come at any
point before and after `initialize`.

What is hard here, and what makes each part correct:

* **Rounding.** Every calculation is in integers, in several steps, each
  rounded. It must round for the pool, at every balance, in every order of
  calls, and not so much that a caller is overcharged.
* **Iteration.** The stable curve's invariant d has no formula. Newton's method
  stops after 32 rounds or when two rounds agree, and in integers it often does
  neither settle nor diverge but alternates between two values, so what it
  returns depends on the number of rounds.
* **Limits.** u64 balances, u128 and U256 intermediates, and `None` at every
  overflow; a pool drained to its last token.
* **Stale checks.** `initialize` checks authorities and owners once. Those who
  created the accounts keep their keys. Correctness is that nothing they can do
  undoes what was checked.
* **Layout.** Curves and fees are kept as bytes by position. What is written
  and what is read are two lists that must agree, over buffers that still hold
  what an earlier curve left.
* **Once only.** Nothing writes `is_initialized`; opening a pool a second time
  is refused by Anchor's `zero` constraint on the discriminator alone.

## Modules

An operation that returns `Option<T>` is an operator whose value is the *set*
of results: `{}` is `None`, `{r}` is `Some(r)`. `?` becomes `\E r \in ...`, so
an action is disabled where the call fails. A Solana transaction that fails
leaves no trace, which is what a disabled action says. Arithmetic is exact; an
operator is empty where a value the code stores leaves its type.

* `CheckedMath`: the widths `MaxU64`, `MaxU128`, `MaxU256` (constants), and the
  ceiling division of spl-math, which is `None` for a quotient below one and
  reports the least divisor for the rounded quotient.
* `PreciseNumber`: the fixed-point numbers, in units of `1/One`. The crate's
  `One` is 10^12. Square roots by Newton's method stop on the rounded root or
  one unit above; the model returns both.
* `Fees`, `ConstantProduct`, `ConstantPrice`, `SwapCurve`: one operator per
  function. A curve is `[curve_type, param]`; `param` is the calculator's only
  field. The two single sided functions differ from each other in the direction
  of rounding, as in the code.
* `Stable`: the same of the stable calculator. `Newton` is the loop that both
  iterations share: given what one round makes of each number
  (`CalculateStep`, `DestinationStep`), a function recursive in the rounds left.
* `Pool`: variables `curve`, `fees`, `token_a`, `token_b`, `pool_supply`. `Init`
  is every pool that `validate`, `CurveFees::validate` and `validate_supply`
  accept, with the reserves at any u64 and `INITIAL_SWAP_POOL_AMOUNT` pool tokens.
  One action per library call: `Swap`, `DepositAllTokenTypes`,
  `WithdrawAllTokenTypes`, `DepositSingle`, `WithdrawSingle`.
* `PoolHistory`: `Pool` with the opening state recorded.
* `Fund`: the abstract specification of a pool, without curve, fees or rounding.
  Trading does not lower the product of the two sides; issuing and redeeming
  shares does not lower what a share has of either side; the fund ends, for
  good, by paying the last of both sides for the last share. `Pool` maps to it
  with the offset counted to token B (`ImplementsFund`).
* `Custody`: the abstract specification of initialization, without keys or
  checks. A pool is opened once, with two vaults and a mint no other open pool
  has, and one pool token; then tokens can only be burned. `Initialize` maps to
  it by counting to a pool only those of its accounts that its derived address
  alone controls (`ImplementsCustody`), so that losing control of a vault would
  be a step that the abstract specification does not have.
* `Packing`: variables `curve_bytes`, `fee_bytes` and what was saved last. `PackCurve` and
  `PackFees` write byte by byte over the buffer they are given. The byte order of
  a u64 is a pair of constants, assumed to invert each other.
* `SplToken`, `Initialize`: the instruction as one action (`InitializePool`:
  deserialization, `validate_input_accounts` check by check, the mint, the
  discriminator), and one action per token instruction that can touch what it
  reads. `opened` records the accounts given; the code has fields for them in
  `Amm` and writes none, so `opened` is a history variable.
* `MCPool`, `MCPoolHistory`, `MCInitialize`, `MCPacking`: the instances TLC
  checks.
* `CurveProofs`, `PoolProofs`, `QuoteProofs`, `SingleSidedProofs`, `StableProofs`,
  `FundProofs`, `InitializeProofs`, `PackingProofs`: the theorems.

Definitions called faulty (`ProductSwapTruncated`, `ShareRoundedForTheCaller`,
`ValidateOwnersOnly`, ...) are not used by any specification. Each is a plausible
bug in the definition that follows it; putting it in that definition's place
makes TLC report a violation of the properties that `PROJECT.json` names, which
shows that they depend on the code.

### What the caller of the library does

The repository has no instruction that swaps, deposits or withdraws: the caller
of the library is missing, and `Pool` has to say what it does. For swaps and two
sided operations that is what the checks in `curve/calculator.rs` (390-537) do
with a result: add what was charged, subtract what was paid out, change the
supply by the pool tokens. Single sided operations are taken to be applied in
the same way. `PROJECT.json` maps those two actions, and the limits of the token
program (`Become`, `SupplyBecomes`: u64 balances, no overdraft), as external. A
curve that does not allow deposits gets none. The owner's fees stay in the
reserves; the pool tokens minted for them (`fees.rs:22-24`) are not modelled, as
no code mints them.

The caller is taken to refuse one result only, the one that the library
announces "to be rejected later in processing" (`constant_product.rs:72-76`): a
two sided deposit of no tokens on one side. Without that rejection the library
does not keep its promise, since it skips the ceiling exactly there. What the
library owes its caller is that such a result can be recognised, and
`UnderchargesAreZero` says so of the quotes themselves, rejected ones
included: a quote below the share of a side is zero on that side.

Everything else is applied. A withdrawal may pay nothing on a side, as from a
pool whose one side a swap has emptied. A single sided deposit may mint no pool
tokens. And a single sided withdrawal may burn none: where the ratio rounds to
zero, where the least fee takes the whole amount that pool tokens are charged
for (`base.rs:153`), and where there are no pool tokens left to burn.

## Runs

| run | shows | instance |
| --- | --- | --- |
| `pool_ratio` | value per pool token, and each side's share of it, never fall; quotes are optimal in both directions; splitting a trade never pays; a deposit quote that undercharges a side is zero on it; no sequence of calls leaves a pool with less for nothing; it empties as a whole, and its last holder can leave with everything; fees leave something; the pool implements `Fund` | product and offset (3, 7, and 0, which is refused), reserves 0..11, supply from 3, amounts {1,2,3,5,7,11}, without fees, with all four fees, with invalid fees; 190420 states |
| `pool_single_sided` | single sided operations among the others never dilute where the fixed point of the square root is fine enough for the pool, and by less than one pool token where it is not; they do not disturb what the others keep | the same curves and prices 0 (refused) to 3, reserves 0..15, amounts up to 15, `One` = 500; 35591 states |
| `pool_stable` | a larger offer never yields less; a single sided round trip of token A never pays; d exists, and stays within the reserves; two sided operations keep each side's share; the last holder can leave, also where a side is empty | amplifiers 0 to 4, reserves 0..9, `One` = 100; 9178 states |
| `initialize` | what was validated stays true; a pool opens once; its mint never mints again; the pool implements `Custody` | one user, one pool, 2 mints, 3 accounts, `MaxMinted` = 1; 223615 states up to symmetry |
| `packing` | buffers read as what was saved last; loading and saving changes no byte; packed bytes are equal exactly for equal curves | bytes of five values (one no curve type), two to a u64, a spare byte, all 76 curves, three sets of fees; 300 states |

Bounds. `Init` of `Pool` has every pair of reserves, so that each operation is
checked at all of them, not only at those a few calls reach. The widths are
scaled down together, so that a u128 still holds a product of two u64s, as in
the code; sums with fees and offsets still cross them. The amounts include one,
the largest u64, and values prime to the reserves and the supply, so that every
rounding case occurs. `pool_ratio` has no single sided operations, whose square
roots would not keep each side's share, and records the opening state for
round trips. The relation of `One` to the amounts
decides what a square root can promise, and `One` = 500 has both cases among its
states. `RootIsFine` is the condition, of a pool's sides and supply, under which
nobody is diluted; with the crate's 10^12 it admits supplies and balances of up to
6500, and of a pool that opens with `INITIAL_SWAP_POOL_AMOUNT` = 10^9 pool tokens it
never holds. Beyond it the rounding of the root can outweigh a token, and without the
condition TLC finds `SingleSidedNeverDilutes` violated. What is claimed there,
less than one pool token, holds at the crate's precision with up to 10^12 / 8 pool
tokens, and is the one bound that speaks of pools opened with 10^9. A
withdrawal that burns more than half of the supply is left out, since the root of
what little stays is less precise. For `pool_stable`, the amplifiers include 1
to 4 because the alternation of Newton's method is strongest at the small ones;
all alternations above the reserves are in pools that small
(`RoundStaysWithinReserves`). The widths of that run are `WideEnough` for
`StableValueAlwaysExists`, as 64, 128 and 256 bits are. For `initialize`, one user suffices because every guard of the token
program only asks whether a key is a user's; two mints give the pair that must
differ and three accounts the two vaults and one output (which may be fee
account and destination at once, or also a vault). Account and mint addresses
are interchangeable, so the symmetry is sound: no formula names one. For
`packing`, two bytes show an order and a carry between them, and the spare byte that
no calculator may touch what is beyond its parameter.

`CHECK_DEADLOCK FALSE`: a pool may be drained or dead, with every call refused,
and users may give up every authority.

### Where code and text disagree

Seven runs check a statement of the repository's own text, and TLC shows the code
not to satisfy it.

| run | text | code |
| --- | --- | --- |
| `single_withdrawal_fee` | trade fees make the value of pool tokens rise (`fees.rs:15-16`) | `base.rs:153` subtracts the fee from the amount pool tokens are charged for: a withdrawal with a fee burns fewer, and one of a single token none |
| `price_deposit_rounding` | rounding avoids losing value on any deposit (`calculator.rs:39-40`) | `constant_price.rs:228` halves the value and drops the remainder before any rounding up |
| `stable_swap_value` | value is not lost on any trade (`calculator.rs:184-185`, `389`) | `stable.rs:153` pays out all but what Newton's method ends on, which can be less than d needs |
| `zero_amplifier` | validate excludes invalid parameters (`calculator.rs:152`) | `stable.rs:314` accepts zero, and every calculation of d is then `None` |
| `fee_sum` | fees that pass are reasonable (`fees.rs:113`) | `fees.rs:115` checks each fraction alone; two of three quarters take more than any amount above two, and every swap is `None` |
| `initialized_field` | "Is the swap initialized, with data written to it" (`lib.rs:149`) | never written |
| `output_owner` | "Output pool account owner cannot be the program address" (`error.rs:16`) | refused only if both output accounts are its |

Three more have no run. The comment on `SwapCurve::LEN` (`base.rs:203-206`) counts 1
byte for the type and 72 for the calculator, where the constant is 33. `lib.rs:84` wants the destination owned by the
authority, the opposite of what `error.rs:16` says of it, and any owner is
accepted as long as the fee account's is not the authority. And
`constant_product.rs:24-26` says that a swap is "guaranteed to work" for all
amounts from one, while `constant_product.rs:40` is `None` when they buy nothing.

The value that `stable_swap_value` compares is the one of the deployed build,
`compute_d`. That is not what makes it fall: of the pool with 14 and 7 tokens
and an amplifier of one, an offer of 15 leaves a single token, which lowers the
exact solution of the invariant's equation by more than three, and pools with
larger reserves lose more.

A pool whose only token B is sold for one A is one such swap, and
leaves a reserve empty, which no swap on the other curves can.

The stable curve has two more oddities that no text speaks of and that shape
its properties. `compute_d` divides by the doubled first side before the doubled
second, and the single sided operations (`stable.rs:224-233`) put the side that
changes first: for token B they compare a d of one order with a d of the other,
and `SingleRoundTripNeverPays` is stated for token A only: of token B, TLC finds
small pools in which a deposit and a withdrawal of the same amount leave the
caller with pool tokens for nothing. And 32 is an even
number of rounds: with 31 (`OneRoundLess`) an alternation is left on its other
value, which can be above the sum of the reserves, where
`StableValueWithinReserves` no longer holds.

Liveness: no scheduler, retry or timeout exists, and nobody must ever call the
program. There is no fairness to assume, and no liveness property is stated.

## Proofs

Assumptions: the ordering of the widths (`WidthAssumption`), `One` positive,
constants of the right types (`PoolAssumption`, `NoOneAssumption`), users' keys
distinct from derived addresses (`KeysAssumption`), an injective address
derivation into those (`SwapAuthorityAssumption`), and a byte order that can be
inverted (`PackingAssumption`). Nothing bounds the amounts. Where a theorem
assumes more, its statement says so: `SingleAmounts = {}` is a pool without
single sided operations, `MaxU64 * MaxU64 <= MaxU128` that a u128 holds the product of
two u64s, and `WideEnough` that a u128 holds four u64s and a U256 208 times the
product of three. Types of 64, 128 and 256 bits satisfy both.

`CurveProofs` holds the arithmetic: what a division leaves, that the ceiling is
the least natural that covers (`CeilingCovers`, `CeilingLeast`), and from them
`ProductSwapIsBest`: never below the invariant, and optimal in both results.
The other lemmas bound a share from the side it is rounded to.

`PoolProofs`: `TypeCorrect` by the guards of `Become` and `SupplyBecomes`.
`ShareValueIsKept` (every curve but the stable one, whose value is not a
formula) needs only the types: each action lemma shows cross
multiplied value per share kept, on the multiplicative curves from the two
sides' shares (`SharesMultiply`), at a constant price from the halved value.
`SharesAreKept` (the stable curve included: its two sided operations are those
of the constant product) and `SwapQuotesStayBest` follow the same lemmas, and
`UnderchargesStayVisible` that a share is only left below the exact one where its
floor is zero.

`QuoteProofs`: `SplittingPaysNothing` and `FormulaOffersAreOrdered` use that a swap is
optimal. What two parts pay together leaves a product no lower than the
invariant, and the whole pays the most that does. At a constant price they are
about quotients. `FeesLeaveSomething` needs that `ValidateFees` is part of the
type invariant, `LastHolderLeaves` that a multiple divides exactly.

`SingleSidedProofs`: a single sided operation either moves no tokens, and then no
pool tokens (`ZeroMovesNothing`), or one reserve by a positive amount
(`FairSingleSidedMoves`), for which the lemmas allow that it mints or burns
nothing. At a constant price a deposit's pool tokens are rounded
down and a withdrawal's up, of the exact value. On the multiplicative curves the
square root stands between. Newton's method is defined (`NewtonIsDefined`) and
ends on the root rounded down (`NewtonEndsOnRoot`, by the least guess for which
it would not: a round falls until the guess is at or below the root, and never
ends more than the rounding below it, `MeanFalls`). With the roundings of the
ratio and of the product (`RatioRounds`, `SupplyTimes`) this bounds the pool tokens
(`ProductDepositRounds`, `ProductWithdrawRounds`). From there two theorems part:

* `SingleSidedKeepsWorth`: where `RootIsFine` (seven times the square of the supply
  times the side is at most 2 `One`, before and after the step), what the roundings
  add is less than the unit in which exact shares differ (`DepositErrorIsSmall`,
  `WithdrawalErrorIsSmall`, `RootIsExact`).
* `RootsMissLessThanOneToken`: from a supply of at most `One` / 8, and burning at most
  half of it, the one pool token given away outweighs what the roundings add
  (`RootWithinOneToken`).

Neither assumes anything of the constants: the conditions are of the pool at hand.

`StableProofs`: the results of 32 rounds of Newton's method, for every input. The
library's induction theorems take an operator, which the provers cannot
instantiate; `InductiveSet` is the induction principle for a *set* of numbers,
from the least element that every set of naturals has (`LeastNatural`, from
`WFMin`; both in `CurveProofs`). With it an iteration is shown to exist (`IterationExists`), so that
`Newton` is equal to its recursion (`NewtonRounds`), and what each round keeps
the last one keeps: about one method (`NewtonKeeps`), about two side by side
(`NewtonRelates`), and about every other round (`NewtonAlternates`, for an even
number of rounds). Then

* `SingleRoundTripsDoNotPay`: the method has one result (`StableValueIsOne`), so
  that the withdrawal's d after the deposit is the deposit's new d, and the
  change of d is charged rounded up for what was minted rounded down
  (`StableRoundTrip`). The theorem covers the constant price curve too.
* `OffersAreOrdered`, with `FormulaOffersAreOrdered` for the other curves: of two
  destination iterations side by side, the one with more on the source side
  stays at or below the other one. That a round is ordered needs that both have
  not passed the root of their equation, which a round never does
  (`RoundReachesRoot`, `RoundsStayOrdered`).
* `StableValueAlwaysExists`: from 1 to twice the reserves, no round divides by zero
  or overflows, and it ends there again (`RoundStaysWithin`, `RoundFits`).
* `StableValueStaysWithinReserves`: a round never ends more than the rounding
  below the root (`ResultReaches`: the cube is above its tangents). So a d within
  the reserves that was reached has a cube that the product of the sides cannot
  exceed much, and from such a d the next round stays within the reserves too
  (`ReachedStaysBelow`): by a polynomial inequality where d is 12 or more or 22
  or more (`CubeOutweighs`), at the reserves by a bound on what two divisions lose
  (`ReservesStayBelow`), and below that by computation. The exceptions are
  pools with at most three tokens, or five and three with an amplifier of one:
  there the second round is back at the reserves (`AlternatesFromReserves`), and
  the bound holds because the number of rounds is even.

`FundProofs`: the refinement `PoolImplementsFund` needs an invariant that the
promise itself names: a pool is open (both sides and the supply positive) or closed (all zero).
A swap leaves positive sides because their product does not fall
(`FactorsStayPositive`); a withdrawal that leaves pool tokens leaves a share of both sides, and one
that burns all of them pays out both exactly (`DivExact`). `PoolEmptiesAsOne` is
that invariant. `RoundTripsAreSafe` carries from the opening state on that the
value per share has not fallen (`NoLessPerShare`, transitive by
`WorthIsTransitive`), and then less of one token with no fewer pool tokens must
be paid for with more of the other (`NothingIsLeftOwed`).

`InitializeProofs`: the safety properties are not inductive alone, since
that a vault is locked depends on the pool not being opened again and on its
mint being sealed. `Inv` says of every opened pool that it has its
discriminator, that both vaults' owner is the derived address with no delegate
or close authority, and that the mint's authority is it too. No token
instruction passes its guard against such an object because the derived address
is nobody's key. From `Inv` follow `TypeCorrect`, `VaultsAreLocked`,
`PoolMintIsSealed`, `SupplyNeverGrows`, `PoolsOpenOnce` and `PoolsStayDisjoint`.
`PoolsKeepCustody` is the refinement: by `Inv` every pool has all of its
custody (`CustodyIsWhole`), `initialize` opens one whose accounts no other has,
since each is under the address of its own pool (`ProgramOpens`), and a token
instruction burns of one pool's mint or changes nothing (`TokensBurn`). It holds
of any number of pools, where the run has one: two pools with their own accounts
have too many states.

`PackingProofs`: for any buffer, unpacking what was packed gives the curve
(`CurvesReadBack`) or the fees (`FeesUnpackToThemselves`), and packing what was
unpacked gives the buffer (`CurveBytesAreKept`, `FeeBytesAreKept`). The fees need that
the j-th u64 starts at the j-fold of its width (`PlaceOf`, `PlaceFrom`). The
inductive invariant is that both buffers are bytes and read as what was saved.

Every property of the passing runs is stated by a theorem. Where its hypotheses
are narrower than the run, the rest is only model-checked: `ImplementsFund`,
`EmptiesAsOne` and `RoundTripsLeaveNothingOwed` are proved of pools without single sided
operations, which is how their run has them. `SingleRoundTripNeverPays` is proved of
the stable and the constant price curve, and is not claimed on the others,
whose two square roots need not round alike. It is about a deposit that is followed by a
withdrawal. The opposite order, a withdrawal and then a deposit, is not claimed:
the stable curve's shares are fixed-point quotients rounded to the nearest,
which where d is large beside `One` can come out on either side.

## Not modelled

* Error codes: a refusal is a disabled action, and so is a panic
  (`constant_price.rs:46`, `53`: a U256 that does not fit a u128), which aborts the
  transaction. No property tells them apart.
* The signature of the `amm` account (`lib.rs:72`): calls without it are
  admitted, which only adds behaviours.
* The stable curve's `normalized_value` of the test build, a floating point root.
* Square roots in `normalized_value`: squares are compared in their place.
* Freezing, balances and transfers in the token program: `initialize` does not
  read them. A destination frozen before its mint's freeze authority was given
  up makes the code's mint fail where the model lets it succeed, and a vault
  that is not empty cannot be closed by its owner where the model lets it be.
  Both only add behaviours.
* A `SwapCurve` whose `curve_type` is not that of its calculator. Both fields are
  public and nothing compares them; packed, such a curve would be read as
  another one. No code builds one.
* The owner's pool tokens for trading fees: no code mints them.
  `calculator.rs:135-136` says that `withdraw_single_token_type_exact_out` is
  for them too, which rounds up, in favour of the owner.
* Bytes that were never packed, except zeroed ones: nothing unpacks untrusted
  data.
* The TypeScript test (commented out, and about another program), the
  migration and the build files.

## What is left

* A run of `Initialize` with two pools; the theorem covers it.
* A bound for what one single sided withdrawal of more than half of the supply
  can dilute: the error of a small root depends on the balances.
* Swaps, deposits and withdrawals as instructions, when the program gets them:
  `Pool` then becomes the specification they implement.
