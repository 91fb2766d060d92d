SPECIFICATION HistorySpec
CONSTANTS
    MaxU64 = 11
    MaxU128 = 143
    MaxU256 = 20735
    One = 4
    Curves <- RatioCurves
    FeeChoices <- MCFeeChoices
    InitialSupply = 3
    SwapAmounts = {1, 2, 3, 5, 7, 11}
    ShareAmounts = {1, 2, 3, 5, 7, 11}
    SingleAmounts = {}
INVARIANTS TypeOK UnderchargesAreZero SwapQuotesAreBest SplittingNeverPays EmptiesAsOne RoundTripsLeaveNothingOwed LastHolderCanLeave ValidFeesLeaveSomething
PROPERTIES ShareValueNeverFalls EachSideKeepsItsShare ImplementsFund
CHECK_DEADLOCK FALSE
