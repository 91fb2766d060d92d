SPECIFICATION Spec
CONSTANTS
    MaxU64 = 15
    MaxU128 = 255
    MaxU256 = 65535
    One = 500
    Curves <- FormulaCurves
    FeeChoices <- MCFeeChoices
    InitialSupply = 3
    SwapAmounts = {1, 2, 3, 5, 7, 11, 15}
    ShareAmounts = {1, 2, 3, 5, 7, 11}
    SingleAmounts = {0, 1, 2, 3, 4, 5, 7, 11, 15}
PROPERTIES ShareValueNeverFalls SingleSidedNeverDilutes SingleSidedDilutesLessThanOneToken
CHECK_DEADLOCK FALSE
