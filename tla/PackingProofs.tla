--------------------------- MODULE PackingProofs ---------------------------
(***************************************************************************)
(* Theorems about Packing, for every width, set of curves and of fees, and *)
(* every way of writing a u64 as bytes that can be read back.              *)
(***************************************************************************)
EXTENDS Packing, TLAPS

TypeOK ==
    /\ curve \in Curve
    /\ curve_bytes \in CurveBytes
    /\ fees \in CurveFees
    /\ fee_bytes \in FeeBytes

(* What is read where a u64 was written is that u64. *)
LEMMA ReadsWhatWasWritten ==
    ASSUME NEW N \in Nat, NEW buffer \in [0..N -> Byte], NEW at \in Nat, NEW n \in U64,
           at + ParamWidth - 1 <= N
    PROVE  /\ ReadU64(WriteU64(buffer, at, n), at) = n
           /\ WriteU64(buffer, at, n) \in [0..N -> Byte]
<1> DEFINE written == WriteU64(buffer, at, n)
<1>1. ToLe(n) \in LeBytes /\ FromLe(ToLe(n)) = n /\ ParamWidth \in Nat
  BY PackingAssumption
<1>2. written = [k \in 0..N |-> IF k \in at..(at + ParamWidth - 1)
                                THEN ToLe(n)[k - at] ELSE buffer[k]]
  BY DEF WriteU64
<1>3. ASSUME NEW i \in 0..(ParamWidth - 1) PROVE written[at + i] = ToLe(n)[i]
  BY <1>1, <1>2
<1>4. [i \in 0..(ParamWidth - 1) |-> written[at + i]] = ToLe(n)
  BY <1>1, <1>3 DEF LeBytes
<1>5. ASSUME NEW k \in 0..N PROVE written[k] \in Byte
  BY <1>1, <1>2 DEF LeBytes
<1> HIDE DEF written
<1>6. written \in [0..N -> Byte]
  BY <1>2, <1>5
<1> QED BY <1>1, <1>4, <1>6 DEF ReadU64, written

(* Writing the u64 that was read changes nothing. *)
LEMMA WritesWhatWasRead ==
    ASSUME NEW N \in Nat, NEW buffer \in [0..N -> Byte], NEW at \in Nat, at + ParamWidth - 1 <= N
    PROVE  /\ ReadU64(buffer, at) \in U64
           /\ WriteU64(buffer, at, ReadU64(buffer, at)) = buffer
<1> DEFINE s == [i \in 0..(ParamWidth - 1) |-> buffer[at + i]]
<1>1. ParamWidth \in Nat
  BY PackingAssumption
<1>2. s \in LeBytes
  BY <1>1 DEF LeBytes
<1>3. FromLe(s) \in U64 /\ ToLe(FromLe(s)) = s
  <2> HIDE DEF s
  <2> QED BY <1>2, PackingAssumption
<1>4. ASSUME NEW k \in 0..N
      PROVE  (IF k \in at..(at + ParamWidth - 1) THEN s[k - at] ELSE buffer[k]) = buffer[k]
  BY <1>1
<1>5. WriteU64(buffer, at, FromLe(s))
        = [k \in 0..N |-> IF k \in at..(at + ParamWidth - 1) THEN s[k - at] ELSE buffer[k]]
  BY <1>3 DEF WriteU64
<1>6. ReadU64(buffer, at) = FromLe(s)
  BY DEF ReadU64
<1> HIDE DEF s
<1> QED BY <1>3, <1>4, <1>5, <1>6

(* The type byte reads as the type. *)
LEMMA TypeReadsBack ==
    ASSUME NEW type \in CurveType
    PROVE  TypeByte[type] \in 0..3 /\ TypeFromByte(TypeByte[type]) = {type}
BY DEF CurveType, TypeByte, TypeFromByte

LEMMA ByteOfReadType ==
    ASSUME NEW byte \in Byte, NEW type \in TypeFromByte(byte)
    PROVE  type \in CurveType /\ TypeByte[type] = byte
<1>1. byte = 0 \/ byte = 1 \/ byte = 2 \/ byte = 3
  BY DEF TypeFromByte
<1> QED BY <1>1 DEF CurveType, TypeByte, TypeFromByte

(* Over whatever a buffer held, a packed curve unpacks to itself.          *)
THEOREM CurvesReadBack ==
    ASSUME NEW c \in Curve, NEW buffer \in CurveBytes
    PROVE  PackCurve(c, buffer) \in CurveBytes /\ UnpackCurve(PackCurve(c, buffer)) = {c}
<1> DEFINE typed == [buffer EXCEPT ![0] = TypeByte[c.curve_type]]
           packed == PackCalculator(c, typed)
<1>1. /\ c \in [curve_type : CurveType, param : U64]
      /\ c.curve_type = "ConstantProduct" => c.param = 0
      /\ TypeByte[c.curve_type] \in 0..3
      /\ TypeFromByte(TypeByte[c.curve_type]) = {c.curve_type}
  BY TypeReadsBack DEF Curve
<1>2. typed \in CurveBytes /\ typed[0] = TypeByte[c.curve_type]
  BY <1>1, PackingAssumption DEF CurveBytes
<1> HIDE DEF typed
<1>3. /\ packed \in CurveBytes
      /\ packed[0] = TypeByte[c.curve_type]
      /\ c.curve_type # "ConstantProduct" => ReadU64(packed, 1) = c.param
  <2>1. CASE c.curve_type = "ConstantProduct"
    BY <1>2, <2>1 DEF PackCalculator
  <2>2. CASE c.curve_type # "ConstantProduct"
    <3>1. packed = WriteU64(typed, 1, c.param)
      BY <2>2 DEF PackCalculator
    <3>2. packed \in CurveBytes /\ ReadU64(packed, 1) = c.param
      BY <1>1, <1>2, <3>1, ReadsWhatWasWritten, PackingAssumption DEF CurveBytes
    <3>3. packed[0] = typed[0]
      BY <1>2, <3>1, PackingAssumption DEF WriteU64, CurveBytes
    <3> QED BY <1>2, <3>2, <3>3
  <2> QED BY <2>1, <2>2
<1>4. PackCurve(c, buffer) = packed
  BY DEF PackCurve, typed
<1> HIDE DEF packed
<1>5. UnpackCurve(packed) = {[curve_type |-> c.curve_type,
          param |-> IF c.curve_type = "ConstantProduct" THEN 0 ELSE ReadU64(packed, 1)]}
  BY <1>1, <1>3 DEF UnpackCurve
<1>6. [curve_type |-> c.curve_type,
       param |-> IF c.curve_type = "ConstantProduct" THEN 0 ELSE ReadU64(packed, 1)] = c
  BY <1>1, <1>3
<1> QED BY <1>3, <1>4, <1>5, <1>6

(* And packing what a buffer unpacks to changes no byte of it.             *)
THEOREM CurveBytesAreKept ==
    ASSUME NEW buffer \in CurveBytes, NEW c \in UnpackCurve(buffer)
    PROVE  PackCurve(c, buffer) = buffer
<1>1. PICK type \in TypeFromByte(buffer[0]) :
        c = [curve_type |-> type,
             param |-> IF type = "ConstantProduct" THEN 0 ELSE ReadU64(buffer, 1)]
  BY DEF UnpackCurve
<1>2. TypeByte[type] = buffer[0]
  BY ByteOfReadType, PackingAssumption DEF CurveBytes
<1>3. [buffer EXCEPT ![0] = TypeByte[c.curve_type]] = buffer
  BY <1>1, <1>2 DEF CurveBytes
<1>4. PackCurve(c, buffer) = PackCalculator(c, buffer)
  BY <1>3 DEF PackCurve
<1>5. WriteU64(buffer, 1, ReadU64(buffer, 1)) = buffer
  BY WritesWhatWasRead, PackingAssumption DEF CurveBytes
<1> QED BY <1>1, <1>4, <1>5 DEF PackCalculator

-----------------------------------------------------------------------------
(* The i-th byte of the j-th u64, and back. *)
LEMMA PlaceOf ==
    ASSUME NEW j \in 0..7, NEW i \in 0..(ParamWidth - 1)
    PROVE  /\ j * ParamWidth + i \in 0..(8 * ParamWidth - 1)
           /\ (j * ParamWidth + i) \div ParamWidth = j
           /\ (j * ParamWidth + i) % ParamWidth = i
<1> DEFINE w == ParamWidth
           k == j * w + i
           q == k \div w
           r == k % w
<1>1. w \in Nat \ {0}
  BY PackingAssumption
<1> HIDE DEF w
<1>2. i \in 0..(w - 1)
  BY DEF w
<1>3. k \in Nat
  BY <1>1, <1>2
<1>4. q \in Nat /\ r \in 0..(w - 1) /\ k = w * q + r
  <2> HIDE DEF k
  <2> QED BY <1>1, <1>3
<1>5. w * (q - j) = i - r
  BY <1>1, <1>2, <1>4
<1> HIDE DEF q, r
<1>6. q = j
  <2>1. q - j >= 1 => w * (q - j) >= w
    BY <1>1, <1>4
  <2>2. q - j <= -1 => w * (q - j) <= -w
    BY <1>1, <1>4
  <2> QED BY <1>1, <1>2, <1>4, <1>5, <2>1, <2>2
<1>7. r = i
  BY <1>1, <1>2, <1>4, <1>5, <1>6
<1>8. k <= 8 * w - 1
  <2>1. j * w <= 7 * w
    BY <1>1
  <2> QED BY <1>1, <1>2, <2>1
<1> QED BY <1>3, <1>6, <1>7, <1>8 DEF q, r, w

LEMMA PlaceFrom ==
    ASSUME NEW k \in 0..(8 * ParamWidth - 1)
    PROVE  /\ k \div ParamWidth \in 0..7 /\ k % ParamWidth \in 0..(ParamWidth - 1)
           /\ k = (k \div ParamWidth) * ParamWidth + (k % ParamWidth)
<1> DEFINE w == ParamWidth
           q == k \div w
           r == k % w
<1>1. w \in Nat \ {0} /\ k \in Nat /\ k < 8 * w
  BY PackingAssumption
<1> HIDE DEF w
<1>2. q \in Nat /\ r \in 0..(w - 1) /\ k = q * w + r
  BY <1>1
<1> HIDE DEF q, r
<1>3. q >= 8 => q * w >= 8 * w
  BY <1>1, <1>2
<1>4. q \in 0..7
  BY <1>1, <1>2, <1>3
<1> QED BY <1>2, <1>4 DEF q, r, w

LEMMA FeeParamsTyped ==
    ASSUME NEW f \in CurveFees, NEW j \in 0..7
    PROVE  FeeParams(f)[j + 1] \in U64
BY DEF FeeParams, CurveFees, Fraction

(* Each parameter is read where it was packed. *)
LEMMA FeeParamReadsBack ==
    ASSUME NEW f \in CurveFees, NEW buffer \in FeeBytes, NEW j \in 0..7
    PROVE  ReadU64(PackFees(f, buffer), j * ParamWidth) = FeeParams(f)[j + 1]
<1> DEFINE n == FeeParams(f)[j + 1]
           packed == PackFees(f, buffer)
           at == j * ParamWidth
<1>1. n \in U64 /\ ToLe(n) \in LeBytes /\ FromLe(ToLe(n)) = n
  BY FeeParamsTyped, PackingAssumption
<1>2. ASSUME NEW i \in 0..(ParamWidth - 1) PROVE packed[at + i] = ToLe(n)[i]
  BY PlaceOf DEF PackFees, FeeBytes
<1> HIDE DEF n, packed, at
<1>3. [i \in 0..(ParamWidth - 1) |-> packed[at + i]] = ToLe(n)
  BY <1>1, <1>2 DEF LeBytes
<1>4. ReadU64(packed, at) = n
  BY <1>1, <1>3 DEF ReadU64
<1> QED BY <1>4 DEF n, packed, at

(* The parameters of what a buffer unpacks to, by their place. *)
LEMMA UnpackedParams ==
    ASSUME NEW buffer, NEW j \in 0..7
    PROVE  FeeParams(UnpackFees(buffer))[j + 1] = ReadU64(buffer, j * ParamWidth)
<1>1. j \in {0, 1, 2, 3, 4, 5, 6, 7}
  OBVIOUS
<1> QED BY <1>1 DEF FeeParams, UnpackFees, ReadFraction

(* Packed fees unpack to themselves, each in its place.                    *)
THEOREM FeesUnpackToThemselves ==
    ASSUME NEW f \in CurveFees, NEW buffer \in FeeBytes
    PROVE  PackFees(f, buffer) \in FeeBytes /\ UnpackFees(PackFees(f, buffer)) = f
<1> DEFINE packed == PackFees(f, buffer)
<1>1. packed \in FeeBytes
  <2>1. ASSUME NEW k \in 0..(8 * ParamWidth - 1)
        PROVE  ToLe(FeeParams(f)[k \div ParamWidth + 1])[k % ParamWidth] \in Byte
    <3> DEFINE n == FeeParams(f)[k \div ParamWidth + 1]
               i == k % ParamWidth
    <3>1. n \in U64 /\ i \in 0..(ParamWidth - 1)
      BY PlaceFrom, FeeParamsTyped
    <3> HIDE DEF n, i
    <3>2. ToLe(n) \in LeBytes
      BY <3>1, PackingAssumption
    <3> QED BY <3>1, <3>2 DEF LeBytes, n, i
  <2> QED BY <2>1 DEF PackFees, FeeBytes
<1>2. /\ ReadU64(packed, 0 * ParamWidth) = f.trade_fee.numerator
      /\ ReadU64(packed, 1 * ParamWidth) = f.trade_fee.denominator
      /\ ReadU64(packed, 2 * ParamWidth) = f.owner_trade_fee.numerator
      /\ ReadU64(packed, 3 * ParamWidth) = f.owner_trade_fee.denominator
      /\ ReadU64(packed, 4 * ParamWidth) = f.owner_withdraw_fee.numerator
      /\ ReadU64(packed, 5 * ParamWidth) = f.owner_withdraw_fee.denominator
      /\ ReadU64(packed, 6 * ParamWidth) = f.host_fee.numerator
      /\ ReadU64(packed, 7 * ParamWidth) = f.host_fee.denominator
  <2>1. \A j \in 0..7 : ReadU64(packed, j * ParamWidth) = FeeParams(f)[j + 1]
    BY FeeParamReadsBack
  <2> HIDE DEF packed
  <2> QED BY <2>1 DEF FeeParams
<1> HIDE DEF packed
<1>3. UnpackFees(packed) = [trade_fee |-> f.trade_fee, owner_trade_fee |-> f.owner_trade_fee,
                            owner_withdraw_fee |-> f.owner_withdraw_fee, host_fee |-> f.host_fee]
  BY <1>2 DEF UnpackFees, ReadFraction, CurveFees, Fraction
<1>4. UnpackFees(packed) = f
  BY <1>3 DEF CurveFees
<1> QED BY <1>1, <1>4 DEF packed

(* And packing what a buffer unpacks to changes no byte of it.             *)
THEOREM FeeBytesAreKept ==
    ASSUME NEW buffer \in FeeBytes
    PROVE  PackFees(UnpackFees(buffer), buffer) = buffer
<1>1. ASSUME NEW k \in 0..(8 * ParamWidth - 1)
      PROVE  ToLe(FeeParams(UnpackFees(buffer))[k \div ParamWidth + 1])[k % ParamWidth] = buffer[k]
  <2> DEFINE j == k \div ParamWidth
             i == k % ParamWidth
             at == j * ParamWidth
             s == [l \in 0..(ParamWidth - 1) |-> buffer[at + l]]
  <2>1. j \in 0..7 /\ i \in 0..(ParamWidth - 1) /\ k = at + i
    BY PlaceFrom
  <2>2. FeeParams(UnpackFees(buffer))[j + 1] = FromLe(s)
    <3> HIDE DEF j
    <3> QED BY <2>1, UnpackedParams DEF ReadU64
  <2>3. s \in LeBytes
    <3>1. ASSUME NEW l \in 0..(ParamWidth - 1) PROVE buffer[at + l] \in Byte
      <4> HIDE DEF j
      <4> QED BY <2>1, PlaceOf DEF FeeBytes
    <3> QED BY <3>1 DEF LeBytes
  <2>4. ToLe(FromLe(s)) = s
    <3> HIDE DEF s
    <3> QED BY <2>3, PackingAssumption
  <2>5. s[i] = buffer[k]
    BY <2>1
  <2> HIDE DEF s, j, i, at
  <2> QED BY <2>2, <2>4, <2>5 DEF j, i
<1> QED BY <1>1 DEF PackFees, FeeBytes

-----------------------------------------------------------------------------
(* The inductive invariant: both buffers are typed and read back. *)
PackingInv == TypeOK /\ CurveReadsBack /\ FeesReadBack

LEMMA ZeroedReadsAsDefault ==
    /\ Zeroed \in CurveBytes
    /\ UnpackCurve(Zeroed) = {DefaultCurve}
<1>1. Zeroed \in CurveBytes /\ Zeroed[0] = 0
  BY PackingAssumption DEF Zeroed, CurveBytes
<1>2. TypeFromByte(0) = {"ConstantProduct"}
  BY DEF TypeFromByte
<1> QED BY <1>1, <1>2 DEF UnpackCurve, DefaultCurve

THEOREM PackingInvariance == Spec => []PackingInv
<1>1. Init => PackingInv
  <2> SUFFICES ASSUME Init PROVE PackingInv
    OBVIOUS
  <2>1. 0 \in U64
    BY WidthAssumption DEF U64
  <2>2. curve \in Curve /\ curve_bytes \in CurveBytes /\ CurveReadsBack
    BY <2>1, ZeroedReadsAsDefault DEF Init, Curve, CurveType, DefaultCurve, CurveReadsBack
  <2>3. fees \in CurveFees /\ fee_bytes \in FeeBytes
    BY <2>1, PackingAssumption DEF Init, DefaultFees, CurveFees, Fraction, FeeBytes
  <2>4. ASSUME NEW j \in 0..7 PROVE ReadU64(fee_bytes, j * ParamWidth) = 0
    <3>1. ASSUME NEW i \in 0..(ParamWidth - 1) PROVE fee_bytes[j * ParamWidth + i] = 0
      BY PlaceOf DEF Init
    <3>2. [i \in 0..(ParamWidth - 1) |-> fee_bytes[j * ParamWidth + i]] = [i \in 0..(ParamWidth - 1) |-> 0]
      BY <3>1
    <3> QED BY <3>2, PackingAssumption DEF ReadU64
  <2>5. UnpackFees(fee_bytes) = DefaultFees
    BY <2>4 DEF UnpackFees, ReadFraction, DefaultFees
  <2> QED BY <2>2, <2>3, <2>5 DEF PackingInv, TypeOK, FeesReadBack, Init
<1>2. PackingInv /\ [Next]_vars => PackingInv'
  <2> SUFFICES ASSUME PackingInv, [Next]_vars PROVE PackingInv'
    OBVIOUS
  <2>1. ASSUME NEW c \in Curves, SaveCurve(c) PROVE PackingInv'
    <3>1. c \in Curve
      BY PackingAssumption
    <3> QED BY <2>1, <3>1, CurvesReadBack DEF SaveCurve, PackingInv, TypeOK, CurveReadsBack, FeesReadBack
  <2>2. ASSUME NEW f \in FeeChoices, SaveFees(f) PROVE PackingInv'
    <3>1. f \in CurveFees
      BY PackingAssumption
    <3> QED BY <2>2, <3>1, FeesUnpackToThemselves DEF SaveFees, PackingInv, TypeOK, CurveReadsBack, FeesReadBack
  <2>3. CASE UNCHANGED vars
    BY <2>3 DEF vars, PackingInv, TypeOK, CurveReadsBack, FeesReadBack
  <2> QED BY <2>1, <2>2, <2>3 DEF Next
<1> QED BY <1>1, <1>2, PTL DEF Spec

(* Whatever was saved before, the buffers read as what was saved last.     *)
THEOREM CurvesStayReadable == Spec => []CurveReadsBack
BY PackingInvariance, PTL DEF PackingInv

THEOREM FeesStayReadable == Spec => []FeesReadBack
BY PackingInvariance, PTL DEF PackingInv

(* No byte drifts when what was loaded is saved again.                     *)
THEOREM NothingDrifts == Spec => []SavingAgainChangesNothing
<1>1. PackingInv => SavingAgainChangesNothing
  BY CurveBytesAreKept, FeeBytesAreKept DEF PackingInv, TypeOK, SavingAgainChangesNothing
<1> QED BY <1>1, PackingInvariance, PTL

(* Comparing packed bytes is comparing curves.                             *)
THEOREM EqualityIsFaithful == Spec => []EqualCurvesAreTheSame
<1>1. ASSUME PackingInv, NEW c \in Curves PROVE CurveEq(c, curve) <=> c = curve
  <2>1. UnpackCurve(PackCurve(c, Zeroed)) = {c} /\ UnpackCurve(PackCurve(curve, Zeroed)) = {curve}
    BY <1>1, CurvesReadBack, ZeroedReadsAsDefault, PackingAssumption DEF PackingInv, TypeOK
  <2> QED BY <2>1 DEF CurveEq
<1>2. PackingInv => Clone(curve) = {curve}
  BY CurvesReadBack, ZeroedReadsAsDefault DEF PackingInv, TypeOK, Clone
<1>3. PackingInv => EqualCurvesAreTheSame
  BY <1>1, <1>2 DEF EqualCurvesAreTheSame
<1> QED BY <1>3, PackingInvariance, PTL
=============================================================================
