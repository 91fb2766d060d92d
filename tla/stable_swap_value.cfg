SPECIFICATION Spec
CONSTANTS
    MaxU64 = 15
    MaxU128 = 255
    MaxU256 = 65535
    One = 4
    Curves <- StableCurves
    FeeChoices <- OnlyNoFees
    InitialSupply = 4
    SwapAmounts = {1, 2, 3, 5, 9, 15}
    ShareAmounts = {1, 2, 3, 5, 9, 15}
    SingleAmounts = {0, 1, 2, 3, 5, 9, 15}

PROPERTY StableSwapKeepsValue
CHECK_DEADLOCK FALSE
