--------------------------- MODULE PreciseNumber ---------------------------
(***************************************************************************)
(* External: the fixed-point numbers of the spl-math crate, as the single  *)
(* sided deposits and withdrawals use them.  A number is a natural in      *)
(* units of 1/One (One is 10^12 in the crate, and a small constant here).  *)
(* The crate adds half a unit before every division, and finds a square    *)
(* root with Newton's method, which stops on the root rounded down or one  *)
(* unit above it: the model leaves open which of the two.                  *)
(***************************************************************************)
EXTENDS CheckedMath

CONSTANT One
ASSUME OneAssumption == One \in Nat \ {0}

PreciseDiv(x, y) == IF y = 0 THEN {} ELSE {(x * One + One \div 2) \div y}
PreciseMul(x, y) == (x * y + One \div 2) \div One

(* Newton's method from above: the mean of the guess and n / guess falls   *)
(* until it is the root of n, the number in units of 1/One^2.              *)
PreciseRoots(x) ==
    LET n == x * One + One \div 2
        newton[guess \in Nat \ {0}] ==
            LET mean == (guess + n \div guess) \div 2
            IN  IF mean < guess THEN newton[mean] ELSE guess
        root == newton[(x + One) \div 2 + 1]
    IN  IF x = 0 THEN {0} ELSE {root, root + 1}

PreciseFloor(x)   == x \div One
PreciseCeiling(x) == Ceiling(x, One)
=============================================================================
