------------------------------ MODULE Packing ------------------------------
(***************************************************************************)
(* The Pack implementations of curve/base.rs, curve/fees.rs and the four   *)
(* calculators: how a curve and its fees are kept as bytes, in buffers     *)
(* that are written over whatever was saved in them before.                *)
(*                                                                         *)
(* Buffers are functions from indices, counted from 0 as in the code.      *)
(* Their sizes are constants: a u64 takes 8 bytes, a calculator has 32.    *)
(***************************************************************************)
EXTENDS SwapCurve

CONSTANTS Byte,
          ParamWidth,       \* bytes of a u64
          CalculatorWidth,  \* bytes set aside for the calculator
          ToLe(_),          \* u64::to_le_bytes
          FromLe(_),        \* u64::from_le_bytes
          Curves,           \* the curves that are saved
          FeeChoices        \* the fees that are saved

LeBytes == [0..(ParamWidth - 1) -> Byte]

ASSUME PackingAssumption ==
    /\ 0..3 \subseteq Byte
    /\ ParamWidth \in Nat \ {0}
    /\ CalculatorWidth \in Nat
    /\ ParamWidth <= CalculatorWidth
    /\ \A n \in U64 : ToLe(n) \in LeBytes /\ FromLe(ToLe(n)) = n
    /\ \A s \in LeBytes : FromLe(s) \in U64 /\ ToLe(FromLe(s)) = s
    /\ FromLe([i \in 0..(ParamWidth - 1) |-> 0]) = 0
    /\ Curves \subseteq Curve
    /\ FeeChoices \subseteq CurveFees

CurveBytes == [0..CalculatorWidth -> Byte]
FeeBytes   == [0..(8 * ParamWidth - 1) -> Byte]

ReadU64(buffer, at) == FromLe([i \in 0..(ParamWidth - 1) |-> buffer[at + i]])

WriteU64(buffer, at, n) ==
    [k \in DOMAIN buffer |->
        IF k \in at..(at + ParamWidth - 1) THEN ToLe(n)[k - at] ELSE buffer[k]]

(* `as u8` of the variants as they are numbered. *)
TypeByte == [ConstantProduct |-> 0, ConstantPrice |-> 1, Stable |-> 2, Offset |-> 3]

(* A faulty reading with two arms exchanged. *)
TypeFromByteSwapped(byte) ==
    IF byte \in 0..3 THEN {<<"ConstantProduct", "ConstantPrice", "Offset", "Stable">>[byte + 1]} ELSE {}

(* TryFrom<u8>: any other byte is InvalidAccountData. *)
TypeFromByte(byte) ==
    IF byte \in 0..3 THEN {<<"ConstantProduct", "ConstantPrice", "Stable", "Offset">>[byte + 1]} ELSE {}

(* A faulty calculator: the offset is not written either. *)
PackNoOffset(curve, buffer) ==
    IF curve.curve_type \in {"ConstantProduct", "Offset"} THEN buffer
    ELSE WriteU64(buffer, 1, curve.param)

(* The constant product calculator has nothing to keep and leaves the      *)
(* bytes of the calculator before it; the others leave all after the first *)
(* u64.                                                                    *)
PackCalculator(curve, buffer) ==
    IF curve.curve_type = "ConstantProduct" THEN buffer ELSE WriteU64(buffer, 1, curve.param)

PackCurve(curve, buffer) ==
    PackCalculator(curve, [buffer EXCEPT ![0] = TypeByte[curve.curve_type]])

UnpackCurve(buffer) ==
    {[curve_type |-> type,
      param |-> IF type = "ConstantProduct" THEN 0 ELSE ReadU64(buffer, 1)] :
        type \in TypeFromByte(buffer[0])}

Zeroed == [k \in 0..CalculatorWidth |-> 0]

(* Two curves are equal when they pack to the same bytes, from zeroed      *)
(* buffers; a clone is what the packed bytes unpack to.                    *)
CurveEq(c1, c2) == PackCurve(c1, Zeroed) = PackCurve(c2, Zeroed)
Clone(curve)    == UnpackCurve(PackCurve(curve, Zeroed))

(* A faulty order: the host fee before the fee on withdrawals. *)
FeeParamsHostFirst(fees) ==
    <<fees.trade_fee.numerator, fees.trade_fee.denominator,
      fees.owner_trade_fee.numerator, fees.owner_trade_fee.denominator,
      fees.host_fee.numerator, fees.host_fee.denominator,
      fees.owner_withdraw_fee.numerator, fees.owner_withdraw_fee.denominator>>

FeeParams(fees) ==
    <<fees.trade_fee.numerator, fees.trade_fee.denominator,
      fees.owner_trade_fee.numerator, fees.owner_trade_fee.denominator,
      fees.owner_withdraw_fee.numerator, fees.owner_withdraw_fee.denominator,
      fees.host_fee.numerator, fees.host_fee.denominator>>

(* The eight u64 one after the other, over all of the buffer. *)
PackFees(fees, buffer) ==
    [k \in DOMAIN buffer |-> ToLe(FeeParams(fees)[k \div ParamWidth + 1])[k % ParamWidth]]

(* The fraction kept in the two u64 from the i-th on. *)
ReadFraction(buffer, i) == [numerator   |-> ReadU64(buffer, i * ParamWidth),
                            denominator |-> ReadU64(buffer, (i + 1) * ParamWidth)]

UnpackFees(buffer) == [trade_fee          |-> ReadFraction(buffer, 0),
                       owner_trade_fee    |-> ReadFraction(buffer, 2),
                       owner_withdraw_fee |-> ReadFraction(buffer, 4),
                       host_fee           |-> ReadFraction(buffer, 6)]

DefaultCurve == [curve_type |-> "ConstantProduct", param |-> 0]
DefaultFees  == LET none == [numerator |-> 0, denominator |-> 0]
                IN  [trade_fee |-> none, owner_trade_fee |-> none,
                     owner_withdraw_fee |-> none, host_fee |-> none]

-----------------------------------------------------------------------------
VARIABLES curve, curve_bytes,  \* the curve last saved, and the buffer it is in
          fees, fee_bytes      \* the fees last saved, and the buffer they are in

vars == <<curve, curve_bytes, fees, fee_bytes>>

(* New account data is zeroed, which is to read as the defaults. *)
Init ==
    /\ curve = DefaultCurve /\ curve_bytes = Zeroed
    /\ fees = DefaultFees   /\ fee_bytes = [k \in 0..(8 * ParamWidth - 1) |-> 0]

SaveCurve(c) ==
    /\ curve' = c
    /\ curve_bytes' = PackCurve(c, curve_bytes)
    /\ UNCHANGED <<fees, fee_bytes>>

SaveFees(f) ==
    /\ fees' = f
    /\ fee_bytes' = PackFees(f, fee_bytes)
    /\ UNCHANGED <<curve, curve_bytes>>

Next == (\E c \in Curves : SaveCurve(c)) \/ (\E f \in FeeChoices : SaveFees(f))

Spec == Init /\ [][Next]_vars

-----------------------------------------------------------------------------
(* Whatever curves were saved in the buffer before, and whatever they left *)
(* in it, the buffer reads as the last one; a new buffer as the default.   *)
CurveReadsBack == UnpackCurve(curve_bytes) = {curve}

(* The same of the fees, each fraction in its place. *)
FeesReadBack == UnpackFees(fee_bytes) = fees

(* Loading and saving what was loaded changes no byte, of either buffer,   *)
(* not even those that earlier curves have left behind.                    *)
SavingAgainChangesNothing ==
    /\ \A c \in UnpackCurve(curve_bytes) : PackCurve(c, curve_bytes) = curve_bytes
    /\ PackFees(UnpackFees(fee_bytes), fee_bytes) = fee_bytes

(* PartialEq, though it only compares bytes, tells exactly the curves that *)
(* differ: no two types share a byte, and no parameter is left out.  And a *)
(* clone is the curve it was made of, so that its unwrap never panics.     *)
EqualCurvesAreTheSame ==
    /\ \A c \in Curves : CurveEq(c, curve) <=> c = curve
    /\ Clone(curve) = {curve}
=============================================================================
