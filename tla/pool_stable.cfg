SPECIFICATION Spec
CONSTANTS
    MaxU64 = 9
    MaxU128 = 99
    MaxU256 = 199999
    One = 100
    Curves <- StableCurves
    FeeChoices <- MCFeeChoices
    InitialSupply = 3
    SwapAmounts = {0, 1, 2, 3, 5, 9}
    ShareAmounts = {1, 2, 3, 5, 9}
    SingleAmounts = {0, 1, 2, 3, 5, 9}
INVARIANTS OfferingMoreNeverYieldsLess SingleRoundTripNeverPays StableValueWithinReserves StableValueExists LastHolderCanLeave
PROPERTY EachSideKeepsItsShare
CHECK_DEADLOCK FALSE
