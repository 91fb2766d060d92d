SPECIFICATION Spec
CONSTANTS
    MaxU64 = 24
    MaxU128 = 24
    MaxU256 = 24
    One = 1
    Byte = {0, 1, 2, 3, 4}
    ParamWidth = 2
    CalculatorWidth = 3
    ToLe <- MCToLe
    FromLe <- MCFromLe
    Curves <- MCCurves
    FeeChoices <- MCFeeChoices
INVARIANTS CurveReadsBack FeesReadBack SavingAgainChangesNothing EqualCurvesAreTheSame
