---------------------------- MODULE CheckedMath ----------------------------
(***************************************************************************)
(* The unsigned machine integers of the curve code and the checked         *)
(* division of the spl-math crate.                                         *)
(*                                                                         *)
(* A Rust function that returns Option<T> is an operator whose value is    *)
(* the SET of the results it can return: {} stands for None and {r} for    *)
(* Some(r).  `?` is then membership: \E r \in F(x) : ... goes on with the  *)
(* value and is false when there is none.                                  *)
(*                                                                         *)
(* Arithmetic is done in the integers and an operator is {} as soon as a   *)
(* value the code stores leaves its type: below 0, above MaxU128 for u128, *)
(* above MaxU256 for U256.  The widths are constants, so that TLC can put  *)
(* the boundary where the small instances reach it.                        *)
(***************************************************************************)
EXTENDS Integers

CONSTANTS MaxU64,   \* largest u64:  token balances, curve and fee parameters
          MaxU128,  \* largest u128: every amount inside the calculations
          MaxU256   \* largest U256: the wide intermediates

ASSUME WidthAssumption ==
    /\ MaxU64 \in Nat \ {0}
    /\ MaxU128 \in Nat
    /\ MaxU256 \in Nat
    /\ MaxU64 <= MaxU128
    /\ MaxU128 <= MaxU256

U64  == 0..MaxU64
U128 == 0..MaxU128

(* n / m rounded up, for m > 0. *)
Ceiling(n, m) == n \div m + (IF n % m = 0 THEN 0 ELSE 1)

(* The smaller multiple of the divisor: how checked_ceil_div reports both  *)
(* the rounded-up quotient and the least divisor that still gives it.  A   *)
(* quotient below 1 is None, never a 1 obtained by rounding up.            *)
CheckedCeilDiv(n, m) ==
    IF m > 0 /\ n >= m
    THEN {[quotient |-> Ceiling(n, m), divisor |-> Ceiling(n, Ceiling(n, m))]}
    ELSE {}
=============================================================================
