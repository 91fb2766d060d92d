---------------------------- MODULE StableProofs ----------------------------
(***************************************************************************)
(* What Newton's method of the stable curve ends on, for every width,      *)
(* amplifier and amount: the rounds are a function recursive in the number *)
(* left, about which facts are proved by induction over that number.       *)
(***************************************************************************)
EXTENDS SingleSidedProofs, QuoteProofs

-----------------------------------------------------------------------------
(* Functions defined by recursion.                                        *)

(* A sequence in S in which each element is the image of the one before.   *)
IsIteration(f, S, G, s0) ==
    f \in [Nat -> S] /\ f[0] = s0 /\ \A n \in Nat : f[n + 1] = G[f[n]]

(* There is one for any function of a set into itself and any element to   *)
(* start from.                                                             *)
LEMMA IterationExists ==
    ASSUME NEW S, NEW G \in [S -> S], NEW s0 \in S
    PROVE  \E f : IsIteration(f, S, G, s0)
<1> DEFINE Starts(n, f) == f[0] = s0 /\ \A i \in 1..n : f[i] = G[f[i - 1]]
           Good == {n \in Nat : \E f \in [0..n -> S] : Starts(n, f)}
<1>1. Nat \subseteq Good
  <2>1. 0 \in Good
    <3>1. [i \in 0..0 |-> s0] \in [0..0 -> S] /\ Starts(0, [i \in 0..0 |-> s0])
      OBVIOUS
    <3> QED BY <3>1
  <2>2. ASSUME NEW n \in Nat, n \in Good PROVE n + 1 \in Good
    <3>1. PICK f \in [0..n -> S] : Starts(n, f)
      BY <2>2
    <3> DEFINE g == [i \in 0..(n + 1) |-> IF i = n + 1 THEN G[f[n]] ELSE f[i]]
    <3>2. g \in [0..(n + 1) -> S]
      OBVIOUS
    <3>3. g[0] = s0
      BY <3>1
    <3>4. ASSUME NEW i \in 1..(n + 1) PROVE g[i] = G[g[i - 1]]
      <4>1. CASE i = n + 1
        BY <4>1
      <4>2. CASE i # n + 1
        <5>1. i \in 1..n /\ i \in 0..(n + 1) /\ i - 1 \in 0..(n + 1) /\ i - 1 # n + 1
          BY <4>2
        <5> QED BY <3>1, <4>2, <5>1
      <4> QED BY <4>1, <4>2
    <3> HIDE DEF g
    <3> QED BY <3>2, <3>3, <3>4
  <2> HIDE DEF Good
  <2> QED BY <2>1, <2>2, InductiveSet
<1>2. ASSUME NEW n \in Nat, NEW m \in Nat, NEW f, NEW g, n <= m, Starts(n, f), Starts(m, g)
      PROVE  f[n] = g[n]
  <2> DEFINE Same == {i \in Nat : i <= n => f[i] = g[i]}
  <2>1. 0 \in Same
    BY <1>2
  <2>2. ASSUME NEW i \in Nat, i \in Same PROVE i + 1 \in Same
    <3>1. CASE i + 1 <= n
      <4>1. i + 1 \in 1..n /\ i + 1 \in 1..m /\ (i + 1) - 1 = i /\ i <= n
        BY <1>2, <3>1
      <4>2. f[i] = g[i]
        BY <2>2, <4>1
      <4> QED BY <1>2, <4>1, <4>2
    <3>2. CASE ~(i + 1 <= n)
      BY <3>2
    <3> QED BY <3>1, <3>2
  <2> HIDE DEF Same
  <2>3. n \in Same
    BY <2>1, <2>2, InductiveSet
  <2> QED BY <2>3 DEF Same
<1> DEFINE part == [n \in Nat |-> CHOOSE f \in [0..n -> S] : Starts(n, f)]
           whole == [n \in Nat |-> part[n][n]]
<1>3. ASSUME NEW n \in Nat PROVE part[n] \in [0..n -> S] /\ Starts(n, part[n])
  <2>1. \E f \in [0..n -> S] : Starts(n, f)
    BY <1>1
  <2> HIDE DEF Starts
  <2> QED BY <2>1
<1> HIDE DEF part
<1>4. whole \in [Nat -> S]
  BY <1>3
<1>5. whole[0] = s0
  BY <1>3
<1>6. ASSUME NEW n \in Nat PROVE whole[n + 1] = G[whole[n]]
  <2>1. n + 1 \in Nat /\ n <= n + 1 /\ n + 1 \in 1..(n + 1) /\ (n + 1) - 1 = n
    OBVIOUS
  <2>2. Starts(n, part[n]) /\ Starts(n + 1, part[n + 1])
    BY <1>3, <2>1
  <2>3. part[n][n] = part[n + 1][n]
    BY <1>2, <2>1, <2>2
  <2>4. part[n + 1][n + 1] = G[part[n + 1][n]]
    BY <2>1, <2>2
  <2> QED BY <2>1, <2>3, <2>4
<1> HIDE DEF whole
<1> QED BY <1>4, <1>5, <1>6 DEF IsIteration

-----------------------------------------------------------------------------
(* Newton's method.                                                        *)

(* What one more round in front makes of the results of the rounds after:  *)
(* the method goes on from each result that differs from its start.        *)
RoundBefore(step, rest) ==
    [x \in Nat |-> UNION {IF next = x THEN {x} ELSE rest[next] : next \in step[x]}]

(* after[n] has the results of n rounds, from each number.                 *)
AreRounds(after, step) ==
    /\ after \in [Nat -> [Nat -> SUBSET Nat]]
    /\ after[0] = [x \in Nat |-> {x}]
    /\ \A n \in Nat : after[n + 1] = RoundBefore(step, after[n])

(* The method is 32 rounds, each put in front of the ones after it.        *)
LEMMA NewtonRounds ==
    ASSUME NEW step \in [Nat -> SUBSET Nat], NEW start
    PROVE  \E after : AreRounds(after, step) /\ Newton(step, start) = after[ITERATIONS][start]
<1> DEFINE S == [Nat -> SUBSET Nat]
           G == [rest \in S |-> RoundBefore(step, rest)]
           none == [x \in Nat |-> {x}]
           IsAfter(after) ==
              after = [rounds \in Nat |->
                         [x \in Nat |->
                            IF rounds = 0 THEN {x}
                            ELSE UNION {IF next = x THEN {x} ELSE after[rounds - 1][next] :
                                          next \in step[x]}]]
<1>1. G \in [S -> S]
  <2>1. ASSUME NEW rest \in S, NEW x \in Nat, NEW next \in step[x]
        PROVE  (IF next = x THEN {x} ELSE rest[next]) \in SUBSET Nat
    OBVIOUS
  <2>2. ASSUME NEW rest \in S PROVE RoundBefore(step, rest) \in S
    BY <2>1 DEF RoundBefore
  <2> QED BY <2>2
<1>2. none \in S
  OBVIOUS
<1>3. PICK f : IsIteration(f, S, G, none)
  <2> HIDE DEF S, G, none
  <2> QED BY <1>1, <1>2, IterationExists
<1>4. \A n \in Nat : f[n + 1] = RoundBefore(step, f[n])
  BY <1>3 DEF IsIteration
<1>5. IsAfter(f)
  <2>1. ASSUME NEW rounds \in Nat
        PROVE  f[rounds] = [x \in Nat |->
                              IF rounds = 0 THEN {x}
                              ELSE UNION {IF next = x THEN {x} ELSE f[rounds - 1][next] :
                                            next \in step[x]}]
    <3>1. CASE rounds = 0
      BY <1>3, <3>1 DEF IsIteration
    <3>2. CASE rounds # 0
      <4>1. rounds - 1 \in Nat /\ (rounds - 1) + 1 = rounds
        BY <3>2
      <4>2. f[rounds] = RoundBefore(step, f[rounds - 1])
        BY <1>4, <4>1
      <4> QED BY <3>2, <4>2 DEF RoundBefore
    <3> QED BY <3>1, <3>2
  <2> QED BY <2>1, <1>3 DEF IsIteration
<1> DEFINE after == CHOOSE after : IsAfter(after)
<1>6. IsAfter(after)
  <2> HIDE DEF IsAfter
  <2> QED BY <1>5
<1>7. Newton(step, start) = after[ITERATIONS][start]
  BY DEF Newton
<1> HIDE DEF after
<1>8. after[0] = none
  BY <1>6
<1>9. ASSUME NEW n \in Nat PROVE after[n + 1] = RoundBefore(step, after[n])
  <2> DEFINE m == n + 1
  <2>1. m \in Nat /\ m # 0 /\ m - 1 = n
    OBVIOUS
  <2> HIDE DEF m
  <2>2. after[m] = [x \in Nat |->
                      IF m = 0 THEN {x}
                      ELSE UNION {IF next = x THEN {x} ELSE after[m - 1][next] : next \in step[x]}]
    BY <1>6, <2>1
  <2>3. after[m] = RoundBefore(step, after[n])
    BY <2>1, <2>2 DEF RoundBefore
  <2> QED BY <2>3 DEF m
<1>10. after \in [Nat -> S]
  <2> DEFINE Typed == {n \in Nat : after[n] \in S}
  <2>1. 0 \in Typed
    BY <1>2, <1>8
  <2>2. ASSUME NEW n \in Nat, n \in Typed PROVE n + 1 \in Typed
    <3>1. G[after[n]] = after[n + 1]
      BY <1>9, <2>2
    <3>2. after[n] \in S
      BY <2>2
    <3> HIDE DEF S, G
    <3>3. after[n + 1] \in S
      BY <1>1, <3>1, <3>2
    <3> QED BY <3>3
  <2>3. Nat \subseteq Typed
    <3> HIDE DEF Typed
    <3> QED BY <2>1, <2>2, InductiveSet
  <2>4. after = [n \in Nat |-> after[n]]
    BY <1>6
  <2> QED BY <2>3, <2>4
<1> QED BY <1>7, <1>8, <1>9, <1>10 DEF AreRounds

(* The results of n + 1 rounds, from those of n.                           *)
LEMMA RoundIs ==
    ASSUME NEW step, NEW after, AreRounds(after, step), NEW n \in Nat, NEW x \in Nat
    PROVE  after[n + 1][x] = UNION {IF next = x THEN {x} ELSE after[n][next] : next \in step[x]}
<1> DEFINE rest == after[n]
<1>1. after[n + 1] = RoundBefore(step, rest)
  BY DEF AreRounds
<1> HIDE DEF rest
<1>2. RoundBefore(step, rest)[x] = UNION {IF next = x THEN {x} ELSE rest[next] : next \in step[x]}
  BY DEF RoundBefore
<1>3. after[n + 1][x] = UNION {IF next = x THEN {x} ELSE rest[next] : next \in step[x]}
  BY <1>1, <1>2
<1> QED BY <1>3 DEF rest

(* What every round keeps, the last one keeps: with results of a round at  *)
(* all numbers of a set, and all of them in it, the method has a result,   *)
(* and it is in that set.                                                  *)
LEMMA NewtonKeeps ==
    ASSUME NEW step \in [Nat -> SUBSET Nat], NEW K \in SUBSET Nat, NEW start \in K,
           \A x \in K : step[x] # {} /\ step[x] \subseteq K
    PROVE  Newton(step, start) # {} /\ Newton(step, start) \subseteq K
<1>1. PICK after : AreRounds(after, step) /\ Newton(step, start) = after[ITERATIONS][start]
  BY NewtonRounds
<1> DEFINE Kept == {n \in Nat : \A x \in K : after[n][x] # {} /\ after[n][x] \subseteq K}
<1>2. 0 \in Kept
  BY <1>1 DEF AreRounds
<1>3. ASSUME NEW n \in Nat, n \in Kept PROVE n + 1 \in Kept
  <2>1. ASSUME NEW x \in K
        PROVE  after[n + 1][x] # {} /\ after[n + 1][x] \subseteq K
    <3>1. after[n + 1][x] = UNION {IF next = x THEN {x} ELSE after[n][next] : next \in step[x]}
      <4>1. x \in Nat /\ AreRounds(after, step)
        BY <1>1
      <4> HIDE DEF Kept
      <4> QED BY <4>1, RoundIs
    <3>2. ASSUME NEW next \in step[x]
          PROVE  /\ (IF next = x THEN {x} ELSE after[n][next]) # {}
                 /\ (IF next = x THEN {x} ELSE after[n][next]) \subseteq K
      BY <1>3
    <3>3. PICK first \in step[x] : TRUE
      OBVIOUS
    <3> QED BY <3>1, <3>2, <3>3
  <2> QED BY <2>1
<1>4. ITERATIONS \in Kept
  <2>1. ITERATIONS \in Nat
    BY DEF ITERATIONS
  <2> HIDE DEF Kept
  <2> QED BY <1>2, <1>3, <2>1, InductiveSet
<1> QED BY <1>1, <1>4

(* Each number has at most one result of a round.                          *)
IsDeterministic(step) == \A x \in Nat : \A p \in step[x], q \in step[x] : p = q

(* Stopping early is the same as going on.                                 *)
LEMMA RoundsGoOn ==
    ASSUME NEW step \in [Nat -> SUBSET Nat], IsDeterministic(step),
           NEW after, AreRounds(after, step),
           NEW n \in Nat, NEW x \in Nat, NEW p \in after[n + 1][x]
    PROVE  \E next \in step[x] : p \in after[n][next]
<1>1. ASSUME NEW m \in Nat
      PROVE  after[m + 1][x] = UNION {IF next = x THEN {x} ELSE after[m][next] : next \in step[x]}
  BY RoundIs
<1>2. PICK next \in step[x] : p \in (IF next = x THEN {x} ELSE after[n][next])
  BY <1>1
<1>3. CASE next # x
  BY <1>2, <1>3
<1>4. CASE next = x
  <2>1. CASE n = 0
    BY <1>2, <1>4, <2>1 DEF AreRounds
  <2>2. CASE n # 0
    <3> DEFINE m == n - 1
    <3>1. m \in Nat /\ m + 1 = n
      BY <2>2
    <3> HIDE DEF m
    <3>2. x \in after[m + 1][x]
      BY <1>1, <1>2, <1>4, <3>1
    <3> QED BY <1>2, <1>4, <3>1, <3>2
  <2> QED BY <2>1, <2>2
<1> QED BY <1>3, <1>4

(* What a round of each keeps between two methods, their results keep.     *)
LEMMA NewtonRelates ==
    ASSUME NEW step1 \in [Nat -> SUBSET Nat], IsDeterministic(step1),
           NEW step2 \in [Nat -> SUBSET Nat], IsDeterministic(step2),
           NEW R \in SUBSET (Nat \X Nat), NEW s \in Nat, NEW t \in Nat, <<s, t>> \in R,
           \A x \in Nat, y \in Nat : <<x, y>> \in R =>
              \A p \in step1[x], q \in step2[y] : <<p, q>> \in R
    PROVE  \A p \in Newton(step1, s), q \in Newton(step2, t) : <<p, q>> \in R
<1>1. PICK after1 : AreRounds(after1, step1) /\ Newton(step1, s) = after1[ITERATIONS][s]
  BY NewtonRounds
<1>2. PICK after2 : AreRounds(after2, step2) /\ Newton(step2, t) = after2[ITERATIONS][t]
  BY NewtonRounds
<1> DEFINE Related == {n \in Nat : \A x \in Nat, y \in Nat : <<x, y>> \in R =>
                                      \A p \in after1[n][x], q \in after2[n][y] : <<p, q>> \in R}
<1>3. 0 \in Related
  BY <1>1, <1>2 DEF AreRounds
<1>4. ASSUME NEW n \in Nat, n \in Related PROVE n + 1 \in Related
  <2>1. ASSUME NEW x \in Nat, NEW y \in Nat, <<x, y>> \in R,
               NEW p \in after1[n + 1][x], NEW q \in after2[n + 1][y]
        PROVE  <<p, q>> \in R
    <3>1. PICK next1 \in step1[x] : p \in after1[n][next1]
      BY <1>1, RoundsGoOn
    <3>2. PICK next2 \in step2[y] : q \in after2[n][next2]
      BY <1>2, RoundsGoOn
    <3>3. next1 \in Nat /\ next2 \in Nat /\ <<next1, next2>> \in R
      BY <2>1
    <3> QED BY <1>4, <3>1, <3>2, <3>3
  <2> QED BY <2>1
<1>5. ITERATIONS \in Related
  <2>1. ITERATIONS \in Nat
    BY DEF ITERATIONS
  <2> HIDE DEF Related
  <2> QED BY <1>3, <1>4, <2>1, InductiveSet
<1> QED BY <1>1, <1>2, <1>5

-----------------------------------------------------------------------------
(* The invariant d: at most one result.                                    *)

(* A round for d, on naturals, has at most one result, and a natural.      *)
LEMMA CalculateStepIsOne ==
    ASSUME NEW leverage \in Nat, NEW a \in Nat, NEW b \in Nat
    PROVE  LET step == [d \in Nat |-> CalculateStep(leverage, a, b, d)]
           IN  step \in [Nat -> SUBSET Nat] /\ IsDeterministic(step)
<1>1. ASSUME NEW d \in Nat, NEW next \in CalculateStep(leverage, a, b, d)
      PROVE  next \in Nat
  <2> DEFINE quotient  == (d * d) \div (2 * a + 1)
             by_a      == quotient * d
             d_product == by_a \div (2 * b + 1)
             l_val     == (leverage * (a + b) + 2 * d_product) * d
             r_val     == (leverage - 1) * d + 3 * d_product
  <2>1. next = l_val \div r_val /\ leverage > 0 /\ r_val > 0
    BY <1>1 DEF CalculateStep
  <2>2. quotient \in Nat
    <3>1. d * d \in Nat /\ 2 * a + 1 \in Nat \ {0}
      OBVIOUS
    <3> QED BY <3>1, DivBelow
  <2> HIDE DEF quotient
  <2>3. by_a \in Nat /\ 2 * b + 1 \in Nat \ {0}
    BY <2>2
  <2> HIDE DEF by_a
  <2>4. d_product \in Nat
    BY <2>3, DivBelow
  <2> HIDE DEF d_product
  <2>5. l_val \in Nat /\ r_val \in Nat \ {0}
    <3>1. leverage - 1 \in Nat
      BY <2>1
    <3>2. (leverage - 1) * d \in Nat /\ leverage * (a + b) \in Nat
      BY <3>1
    <3>3. r_val \in Nat /\ leverage * (a + b) + 2 * d_product \in Nat
      BY <2>4, <3>2
    <3> QED BY <2>1, <3>3
  <2> HIDE DEF l_val, r_val
  <2> QED BY <2>1, <2>5, DivBelow
<1>2. ASSUME NEW d, NEW p \in CalculateStep(leverage, a, b, d), NEW q \in CalculateStep(leverage, a, b, d)
      PROVE  p = q
  BY DEF CalculateStep
<1> QED BY <1>1, <1>2 DEF IsDeterministic

(* So has the method from any start: two runs of it stay together.         *)
LEMMA NewtonIsOne ==
    ASSUME NEW step \in [Nat -> SUBSET Nat], IsDeterministic(step), NEW start \in Nat
    PROVE  \A p \in Newton(step, start), q \in Newton(step, start) : p = q
<1> DEFINE R == {pair \in Nat \X Nat : pair[1] = pair[2]}
<1>1. R \in SUBSET (Nat \X Nat) /\ <<start, start>> \in R
  OBVIOUS
<1>2. ASSUME NEW x \in Nat, NEW y \in Nat, <<x, y>> \in R, NEW p \in step[x], NEW q \in step[y]
      PROVE  <<p, q>> \in R
  BY <1>2 DEF IsDeterministic
<1>3. \A p \in Newton(step, start), q \in Newton(step, start) : <<p, q>> \in R
  <2> HIDE DEF R
  <2> QED BY <1>1, <1>2, NewtonRelates
<1> QED BY <1>3

(* And so have compute_d and normalized_value, a natural of u128.          *)
LEMMA StableValueIsOne ==
    ASSUME NEW amp \in Nat, NEW a \in Nat, NEW b \in Nat
    PROVE  \A d \in StableD(amp, a, b), e \in StableD(amp, a, b) : d = e /\ d \in Nat
<1> DEFINE leverage == 2 * amp
           step == [d \in Nat |-> CalculateStep(leverage, a, b, d)]
<1>1. leverage \in Nat
  OBVIOUS
<1> HIDE DEF leverage
<1>2. step \in [Nat -> SUBSET Nat] /\ IsDeterministic(step)
  BY <1>1, CalculateStepIsOne
<1>3. \A d \in StableD(amp, a, b) : d \in ComputeD(leverage, a, b)
  BY DEF StableD, Leverage, leverage
<1>4. a + b = 0 => \A d \in ComputeD(leverage, a, b) : d = 0
  BY DEF ComputeD
<1>5. a + b # 0 => \A d \in ComputeD(leverage, a, b) : d \in Newton(step, a + b) /\ d \in U128
  BY DEF ComputeD
<1> HIDE DEF step
<1>6. \A d \in Newton(step, a + b), e \in Newton(step, a + b) : d = e
  BY <1>2, NewtonIsOne
<1>7. U128 \subseteq Nat
  BY WidthAssumption DEF U128
<1>8. ASSUME NEW d \in StableD(amp, a, b), NEW e \in StableD(amp, a, b)
      PROVE  d = e /\ d \in Nat
  <2>1. CASE a + b = 0
    BY <1>3, <1>4, <1>8, <2>1
  <2>2. CASE a + b # 0
    BY <1>3, <1>5, <1>6, <1>7, <1>8, <2>2
  <2> QED BY <2>1, <2>2
<1> QED BY <1>8

-----------------------------------------------------------------------------
(* Round trips of one token.                                               *)

(* A common factor leaves the order as it is.                              *)
LEMMA FactorKeepsOrder ==
    ASSUME NEW u \in Nat \ {0}, NEW x \in Int
    PROVE  (u * x < u => x <= 0) /\ (u * x < 0 <=> x < 0) /\ (u * x <= 0 <=> x <= 0)
<1>1. x >= 1 => u * x >= u
  OBVIOUS
<1>2. x <= -1 => u * x <= -u
  OBVIOUS
<1>3. x = 0 => u * x = 0
  OBVIOUS
<1> QED BY <1>1, <1>2, <1>3

(* The half unit that the fixed point numbers add before they divide is    *)
(* less than a unit, so that it never reaches the next whole number.       *)
LEMMA ShareOfDRounds ==
    ASSUME NEW change \in Nat, NEW d \in Nat, NEW supply \in Nat, NEW share \in ShareOfD(change, d, supply)
    PROVE  /\ share \in Nat /\ d > 0
           /\ share * d <= change * supply * One
           /\ change * supply * One < (share + 1) * d
<1> DEFINE h == One \div 2
           n == change * supply * One
           product == (change * One) * (supply * One)
           divisor == d * One
<1>1. One \in Nat \ {0} /\ h \in Nat /\ h < One
  BY OneAssumption
<1> HIDE DEF h
<1>2. n \in Nat /\ product \in Nat /\ product = n * One /\ divisor \in Nat
  BY <1>1
<1>3. PreciseMul(change * One, supply * One) = n
  <2>1. PreciseMul(change * One, supply * One) = (product + h) \div One
    BY DEF PreciseMul, h
  <2> HIDE DEF product, n
  <2> DEFINE m == product + h
             q == m \div One
  <2>2. m \in Nat /\ m = n * One + h
    BY <1>1, <1>2
  <2> HIDE DEF m
  <2>3. q \in Nat /\ m % One \in 0..(One - 1) /\ m = One * q + (m % One)
    BY <1>1, <2>2, DivMod
  <2> HIDE DEF q
  <2>4. One * (q - n) < One /\ One * (n - q) < One
    BY <1>1, <1>2, <2>2, <2>3
  <2>5. q - n >= 1 => One * (q - n) >= One
    BY <1>1, <1>2, <2>3
  <2>6. n - q >= 1 => One * (n - q) >= One
    BY <1>1, <1>2, <2>3
  <2>7. q = n
    BY <1>1, <1>2, <2>3, <2>4, <2>5, <2>6
  <2> QED BY <2>1, <2>7 DEF q, m
<1>4. divisor # 0 /\ share = (n * One + h) \div divisor
  <2>1. share \in PreciseDiv(n, divisor)
    BY <1>3 DEF ShareOfD
  <2> HIDE DEF n, divisor
  <2> QED BY <2>1 DEF PreciseDiv, h
<1>5. d # 0
  BY <1>1, <1>4
<1> HIDE DEF n, product
<1>6. /\ share \in Nat
      /\ share * divisor <= n * One + h
      /\ n * One + h < (share + 1) * divisor
  <2> DEFINE m == n * One + h
  <2>1. m \in Nat
    BY <1>1, <1>2
  <2> HIDE DEF m, divisor
  <2> DEFINE q == m \div divisor
  <2>2. q \in Nat /\ m % divisor \in 0..(divisor - 1) /\ m = divisor * q + (m % divisor)
    BY <1>2, <1>4, <2>1, DivMod
  <2>3. share = q
    BY <1>4 DEF m
  <2> HIDE DEF q
  <2>4. q * divisor <= m /\ m < (q + 1) * divisor
    BY <1>2, <2>1, <2>2
  <2> QED BY <2>2, <2>3, <2>4 DEF m
<1>7. share * d <= n
  <2> DEFINE x == share * d - n
  <2>1. x \in Int /\ One * x < One
    BY <1>1, <1>2, <1>6
  <2>2. x <= 0
    <3> HIDE DEF x
    <3> QED BY <1>1, <2>1, FactorKeepsOrder
  <2> QED BY <1>2, <1>6, <2>2
<1>8. n < (share + 1) * d
  <2> DEFINE x == n - (share + 1) * d
  <2>1. x \in Int /\ One * x < 0
    BY <1>1, <1>2, <1>6
  <2>2. x < 0
    <3> HIDE DEF x
    <3> QED BY <1>1, <2>1, FactorKeepsOrder
  <2> QED BY <1>2, <1>6, <2>2
<1> QED BY <1>5, <1>6, <1>7, <1>8 DEF n

(* What a share is rounded down to when it is given out is no more than    *)
(* what it is rounded up to when it is taken back, of d and a supply that  *)
(* it has raised.                                                          *)
LEMMA StableRoundTrip ==
    ASSUME NEW change \in Nat, NEW d0 \in Nat, NEW supply \in Nat,
           NEW given \in ShareOfD(change, d0, supply),
           NEW taken \in ShareOfD(change, d0 + change, supply + PreciseFloor(given))
    PROVE  /\ PreciseFloor(given) \in Nat
           /\ PreciseCeiling(taken) \in Nat
           /\ PreciseCeiling(taken) >= PreciseFloor(given)
<1> DEFINE minted == PreciseFloor(given)
           burned == PreciseCeiling(taken)
           d1 == d0 + change
           grown == supply + minted
<1>1. /\ given \in Nat /\ d0 > 0
      /\ given * d0 <= change * supply * One
  BY ShareOfDRounds
<1>2. minted \in Nat /\ minted * One <= given
  BY <1>1, OneAssumption, DivBelow DEF PreciseFloor
<1> HIDE DEF minted
<1>3. /\ taken \in Nat
      /\ change * grown * One < (taken + 1) * d1
  <2>1. d1 \in Nat /\ grown \in Nat /\ taken \in ShareOfD(change, d1, grown)
    BY <1>2 DEF minted
  <2> HIDE DEF d1, grown
  <2> QED BY <2>1, ShareOfDRounds
<1>4. burned \in Nat /\ taken <= burned * One
  BY <1>3, OneAssumption, CeilingCovers DEF PreciseCeiling
<1> HIDE DEF burned
<1>5. minted * d0 <= change * supply
  <2> DEFINE x == minted * d0 - change * supply
  <2>1. (minted * One) * d0 <= given * d0
    BY <1>1, <1>2, OneAssumption, ProductMonotone
  <2>2. x \in Int /\ One * x <= 0
    BY <1>1, <1>2, <2>1, OneAssumption
  <2>3. x <= 0
    <3> HIDE DEF x
    <3> QED BY <2>2, OneAssumption, FactorKeepsOrder
  <2> QED BY <1>1, <1>2, <2>3
<1>6. ~(burned <= minted - 1)
  <2> SUFFICES ASSUME burned <= minted - 1 PROVE FALSE
    OBVIOUS
  <2>1. burned * One <= (minted - 1) * One
    BY <1>2, <1>4, OneAssumption
  <2>2. taken + 1 <= minted * One
    BY <1>2, <1>3, <1>4, <2>1, OneAssumption
  <2>3. (taken + 1) * d1 <= (minted * One) * d1
    BY <1>1, <1>2, <1>3, <2>2, OneAssumption, ProductMonotone
  <2> DEFINE x == change * grown - minted * d1
  <2>4. x \in Int /\ One * x < 0
    BY <1>1, <1>2, <1>3, <2>3, OneAssumption
  <2>5. x < 0
    <3> HIDE DEF x
    <3> QED BY <2>4, OneAssumption, FactorKeepsOrder
  <2>6. x = change * supply - minted * d0
    BY <1>1, <1>2
  <2> QED BY <1>1, <1>2, <1>5, <2>5, <2>6
<1> QED BY <1>2, <1>4, <1>6 DEF minted, burned

(* At a constant price, the same of the value of the reserves.             *)
LEMMA PriceRoundTrip ==
    ASSUME NEW given \in Nat, NEW total \in Nat, NEW supply \in Nat, NEW minted \in Nat, NEW burned \in Nat,
           minted * total <= supply * given, total + given > 0,
           burned * (total + given) >= (supply + minted) * given
    PROVE  burned >= minted
<1> SUFFICES ASSUME burned <= minted - 1 PROVE FALSE
  OBVIOUS
<1>1. minted - 1 \in Nat
  OBVIOUS
<1>2. burned * (total + given) <= (minted - 1) * (total + given)
  BY <1>1, ProductMonotone
<1>3. (minted - 1) * (total + given) = minted * total + minted * given - (total + given)
  OBVIOUS
<1>4. (supply + minted) * given = supply * given + minted * given
  OBVIOUS
<1> QED BY <1>2, <1>3, <1>4

(* Of the curves that do not pass through a square root, a withdrawal that *)
(* follows a deposit of the same amount costs no fewer pool tokens than    *)
(* were minted for it (constant_price.rs and stable.rs:                    *)
(* deposit_single_token_type and withdraw_single_token_type_exact_out).    *)
THEOREM SingleRoundTripsDoNotPay == Spec => [](~Multiplicative(curve) => SingleRoundTripNeverPays)
<1>1. TypeOK /\ ~Multiplicative(curve) => SingleRoundTripNeverPays
  <2> SUFFICES ASSUME TypeOK, ~Multiplicative(curve), fees.trade_fee.numerator = 0,
                      NEW direction \in TradeDirection, HasFormula \/ direction = "AtoB",
                      NEW x \in SingleAmounts,
                      NEW minted \in DepositSingleTokenType(curve, fees, x, token_a, token_b,
                                                            pool_supply, direction),
                      NEW burned \in WithdrawSingleTokenTypeExactOut(curve, fees, x,
                                        token_a + SourceSide(direction, x, 0),
                                        token_b + SourceSide(direction, 0, x),
                                        pool_supply + minted, direction)
               PROVE  burned >= minted
    BY DEF SingleRoundTripNeverPays
  <2> DEFINE p == curve.param
             new_a == token_a + SourceSide(direction, x, 0)
             new_b == token_b + SourceSide(direction, 0, x)
  <2>1. /\ curve \in Curve /\ fees \in CurveFees /\ p \in Nat /\ x \in Nat
        /\ token_a \in Nat /\ token_b \in Nat /\ pool_supply \in Nat
    BY TypeFacts, PoolAssumption, WidthAssumption DEF U64
  <2>2. CASE x = 0
    BY <2>2 DEF DepositSingleTokenType, WithdrawSingleTokenTypeExactOut
  <2>3. CASE x # 0
    <3>1. \A less \in LessHalfFee(fees, x) : less = x
      BY <2>1, LessHalfFeeIsLess
    <3>2. /\ minted \in DepositWithoutFees(curve, x, token_a, token_b, pool_supply, direction)
          /\ burned \in WithdrawWithoutFees(curve, x, new_a, new_b, pool_supply + minted, direction)
      BY <2>3, <3>1 DEF DepositSingleTokenType, WithdrawSingleTokenTypeExactOut
    <3>3. CASE curve.curve_type = "ConstantPrice"
      <4> DEFINE given == WorthOf(p, x, direction)
                 total == token_b * p + token_a
                 grown == pool_supply + minted
      <4>1. /\ minted \in TradingTokensToPoolTokens(p, x, token_a, token_b, pool_supply, direction, "Floor")
            /\ burned \in TradingTokensToPoolTokens(p, x, new_a, new_b, grown, direction, "Ceiling")
        BY <3>2, <3>3 DEF DepositWithoutFees, WithdrawWithoutFees
      <4>2. given \in Nat /\ total \in Nat /\ new_a \in Nat /\ new_b \in Nat
        BY <2>1 DEF WorthOf, SourceSide
      <4>3. minted \in Nat /\ minted * total <= pool_supply * given
        BY <2>1, <4>1, ConversionRounds
      <4>4. new_b * p + new_a = total + given
        BY <2>1 DEF WorthOf, SourceSide
      <4>5. new_b * p + new_a # 0
        BY <4>1 DEF TradingTokensToPoolTokens
      <4>6. burned \in Nat /\ burned * (new_b * p + new_a) >= grown * given
        <5>1. grown \in Nat
          BY <2>1, <4>3
        <5> HIDE DEF new_a, new_b, grown, p
        <5> QED BY <2>1, <4>1, <4>2, <5>1, ConversionRounds
      <4> HIDE DEF given, total, new_a, new_b
      <4>7. burned * (total + given) >= (pool_supply + minted) * given /\ total + given > 0
        BY <4>2, <4>4, <4>5, <4>6
      <4> HIDE DEF grown
      <4> QED BY <2>1, <4>2, <4>3, <4>6, <4>7, PriceRoundTrip
    <3>4. CASE curve.curve_type # "ConstantPrice"
      <4>1. curve.curve_type = "Stable" /\ direction = "AtoB"
        BY <2>1, <3>4 DEF HasFormula, Multiplicative, Curve, CurveType
      <4>2. /\ minted \in StableDepositSingle(p, x, token_a, token_b, pool_supply, direction)
            /\ burned \in StableWithdrawSingle(p, x, new_a, new_b, pool_supply + minted, direction)
        BY <3>2, <4>1 DEF DepositWithoutFees, WithdrawWithoutFees
      <4>3. new_a = token_a + x /\ new_b = token_b /\ new_a + (-x) = token_a
        BY <2>1, <4>1 DEF SourceSide
      <4> HIDE DEF p, new_a, new_b
      <4>4. PICK d0 \in StableD(p, token_a, token_b), d1 \in StableD(p, token_a + x, token_b) :
               d1 >= d0 /\ \E share \in ShareOfD(d1 - d0, d0, pool_supply) : minted = PreciseFloor(share)
        BY <2>3, <4>1, <4>2 DEF StableDepositSingle, ChangedD
      <4>5. PICK e0 \in StableD(p, new_a, new_b), e1 \in StableD(p, new_a + (-x), new_b) :
               \E share \in ShareOfD(e0 - e1, e0, pool_supply + minted) : burned = PreciseCeiling(share)
        BY <2>3, <4>1, <4>2 DEF StableWithdrawSingle, ChangedD
      <4>6. e0 = d1 /\ e1 = d0 /\ d0 \in Nat /\ d1 \in Nat
        <5>1. token_a + x \in Nat
          BY <2>1
        <5> QED BY <2>1, <4>3, <4>4, <4>5, <5>1, StableValueIsOne
      <4> DEFINE change == d1 - d0
      <4>7. change \in Nat /\ d0 + change = d1
        BY <4>4, <4>6
      <4> HIDE DEF change
      <4>8. PICK given \in ShareOfD(change, d0, pool_supply) : minted = PreciseFloor(given)
        BY <4>4 DEF change
      <4>9. PICK taken \in ShareOfD(change, d0 + change, pool_supply + PreciseFloor(given)) :
               burned = PreciseCeiling(taken)
        BY <4>5, <4>6, <4>7, <4>8 DEF change
      <4> QED BY <2>1, <4>6, <4>7, <4>8, <4>9, StableRoundTrip
    <3> QED BY <3>3, <3>4
  <2> QED BY <2>2, <2>3
<1> QED BY <1>1, TypeCorrect, PTL

-----------------------------------------------------------------------------
(* Larger offers to the stable curve.                                      *)

(* Dividing by more gives no more.                                         *)
LEMMA QuotientFalls ==
    ASSUME NEW n \in Nat, NEW m1 \in Nat \ {0}, NEW m2 \in Nat \ {0}, m1 <= m2
    PROVE  n \div m1 \in Nat /\ n \div m2 \in Nat /\ n \div m2 <= n \div m1
<1> DEFINE q1 == n \div m1
           q2 == n \div m2
<1>1. q1 \in Nat /\ n % m1 \in 0..(m1 - 1) /\ n = m1 * q1 + (n % m1)
  BY DivMod
<1>2. q2 \in Nat /\ q2 * m2 <= n
  BY DivBelow
<1> HIDE DEF q1, q2
<1>3. n < (q1 + 1) * m1
  BY <1>1
<1>4. q2 * m1 <= q2 * m2
  BY <1>2
<1>5. q2 >= q1 + 1 => q2 * m1 >= (q1 + 1) * m1
  BY <1>1, <1>2, ProductMonotone
<1> QED BY <1>1, <1>2, <1>3, <1>4, <1>5 DEF q1, q2

(* y is no less than the root, rounded down, of y^2 + b * y = c.           *)
ReachesRoot(y, b, c) == (y + 1) * (y + 1) + b * (y + 1) > c

(* A round ends no lower than the root, wherever it starts.                *)
LEMMA RoundReachesRoot ==
    ASSUME NEW y \in Nat, NEW b \in Int, NEW c \in Nat, NEW z \in Nat,
           y * y + c < (z + 1) * (2 * y + b)
    PROVE  ReachesRoot(z, b, c)
<1>1. (z + 1) * (z + 1) + b * (z + 1) = (z + 1) * (2 * y + b) - y * y + (z + 1 - y) * (z + 1 - y)
  OBVIOUS
<1>2. (z + 1 - y) * (z + 1 - y) >= 0
  OBVIOUS
<1> QED BY <1>1, <1>2 DEF ReachesRoot

(* Of two equations, the one of the smaller source has the smaller b and   *)
(* the larger c.  A round from y1 for it ends no lower than one from y2    *)
(* for the other, if y2 is y1, or is not above it and reaches its root.    *)
(* Only from its root rounded down can a round rise, and then by one, when *)
(* c is all but what the next number needs: less than the other c.         *)
LEMMA RoundsStayOrdered ==
    ASSUME NEW y1 \in Nat, NEW b1 \in Int, NEW c1 \in Nat, NEW z1 \in Nat,
           NEW y2 \in Nat, NEW b2 \in Int, NEW c2 \in Nat, NEW z2 \in Nat,
           b1 < b2, c2 <= c1, 2 * y1 + b1 > 0, 2 * y2 + b2 > 0,
           y1 * y1 + c1 < (z1 + 1) * (2 * y1 + b1),
           z2 * (2 * y2 + b2) <= y2 * y2 + c2,
           y2 <= y1, y1 = y2 \/ ReachesRoot(y2, b2, c2)
    PROVE  z2 <= z1
<1> DEFINE m1 == 2 * y1 + b1
           m2 == 2 * y2 + b2
           h == y1 - y2
<1>1. m1 \in Nat \ {0} /\ m2 \in Nat \ {0} /\ h \in Nat
  OBVIOUS
<1>2. SUFFICES z2 * m1 <= y1 * y1 + c1
  <2>1. z2 * m1 < (z1 + 1) * m1 => z2 < z1 + 1
    <3>1. z2 >= z1 + 1 => z2 * m1 >= (z1 + 1) * m1
      <4> HIDE DEF m1
      <4> QED BY <1>1, ProductMonotone
    <3>2. z2 * m1 \in Int /\ (z1 + 1) * m1 \in Int
      BY <1>1
    <3> QED BY <3>1, <3>2
  <2>2. z2 * m1 \in Int /\ (z1 + 1) * m1 \in Int /\ y1 * y1 + c1 \in Int
    BY <1>1
  <2> QED BY <2>1, <2>2
<1>3. z2 * m1 = z2 * m2 + 2 * (z2 * h) - z2 * (b2 - b1)
  OBVIOUS
<1>4. y1 * y1 = y2 * y2 + 2 * (y2 * h) + h * h
  OBVIOUS
<1>5. z2 * (b2 - b1) >= z2
  BY ProductMonotone
<1>6. CASE y1 = y2
  BY <1>3, <1>5, <1>6
<1>7. CASE z2 <= y2
  <2>1. z2 * h <= y2 * h /\ h * h >= 0
    BY <1>1, <1>7, ProductMonotone
  <2> QED BY <1>1, <1>3, <1>4, <1>5, <2>1
<1>8. CASE y1 # y2 /\ z2 > y2
  <2>1. (y2 + 1) * (y2 + 1) + b2 * (y2 + 1) = (y2 + 1) * m2 - y2 * y2 + 1
    OBVIOUS
  <2>2. c2 <= (y2 + 1) * m2 - y2 * y2
    BY <1>8, <2>1 DEF ReachesRoot
  <2>3. z2 * m2 <= (y2 + 1) * m2
    BY <1>1, <2>2
  <2>4. z2 = y2 + 1
    <3>1. z2 >= y2 + 2 => z2 * m2 >= (y2 + 2) * m2
      <4> HIDE DEF m2
      <4> QED BY <1>1, ProductMonotone
    <3>2. (y2 + 2) * m2 = (y2 + 1) * m2 + m2
      OBVIOUS
    <3> QED BY <1>1, <1>8, <2>3, <3>1, <3>2
  <2>5. z2 * m1 <= (y2 + 1) * m2 + 2 * (y2 * h) + 2 * h - (y2 + 1)
    BY <1>1, <1>3, <1>5, <2>4
  <2>6. (h - 1) * (h - 1) >= 0 /\ (h - 1) * (h - 1) = h * h - 2 * h + 1
    BY <1>1
  <2>7. c1 >= (y2 + 1) * m2 - y2 * y2
    BY <2>4
  <2> QED BY <1>1, <1>4, <2>5, <2>6, <2>7
<1> QED BY <1>6, <1>7, <1>8

(* A product is positive with its factors.                                 *)
LEMMA FactorsArePositive ==
    ASSUME NEW u \in Nat \ {0}, NEW v \in Nat \ {0}
    PROVE  4 * u * v \in Nat \ {0}
<1>1. u * v >= 1
  BY ProductMonotone
<1> QED BY <1>1

(* A round for the destination side has at most one result, a natural.     *)
LEMMA DestinationStepIsOne ==
    ASSUME NEW leverage \in Nat \ {0}, NEW source \in Nat \ {0}, NEW d \in Nat
    PROVE  LET step == [y \in Nat |-> DestinationStep(leverage, source, d, y)]
           IN  step \in [Nat -> SUBSET Nat] /\ IsDeterministic(step)
<1> DEFINE c == (d * d * d) \div (4 * source * leverage)
           b == source + d \div leverage
<1>1. c \in Nat /\ b \in Nat
  <2>1. 4 * source * leverage \in Nat \ {0} /\ d * d * d \in Nat
    BY FactorsArePositive
  <2>2. d \div leverage \in Nat
    BY DivBelow
  <2> QED BY <2>1, <2>2, DivBelow
<1> HIDE DEF c, b
<1>2. ASSUME NEW y \in Nat, NEW next \in DestinationStep(leverage, source, d, y)
      PROVE  next \in Nat
  <2> DEFINE n == y * y + c
             m == 2 * y + b - d
  <2>1. 2 * y + b > d /\ next = n \div m
    BY <1>2 DEF DestinationStep, c, b
  <2>2. n \in Nat /\ m \in Nat \ {0}
    BY <1>1, <2>1
  <2> HIDE DEF n, m
  <2> QED BY <2>1, <2>2, DivBelow
<1>3. ASSUME NEW y, NEW p \in DestinationStep(leverage, source, d, y),
             NEW q \in DestinationStep(leverage, source, d, y)
      PROVE  p = q
  BY DEF DestinationStep
<1> QED BY <1>2, <1>3 DEF IsDeterministic

(* More on the source side leaves no more on the destination side.         *)
LEMMA DestinationFalls ==
    ASSUME NEW leverage \in Nat \ {0}, NEW d \in Nat,
           NEW source1 \in Nat \ {0}, NEW source2 \in Nat \ {0}, source1 < source2,
           NEW y1 \in ComputeNewDestinationAmount(leverage, source1, d),
           NEW y2 \in ComputeNewDestinationAmount(leverage, source2, d)
    PROVE  y2 <= y1
<1> DEFINE step1 == [y \in Nat |-> DestinationStep(leverage, source1, d, y)]
           step2 == [y \in Nat |-> DestinationStep(leverage, source2, d, y)]
           cube == d * d * d
           c1 == cube \div (4 * source1 * leverage)
           c2 == cube \div (4 * source2 * leverage)
           share == d \div leverage
           b1 == source1 + share - d
           b2 == source2 + share - d
           R == {pair \in Nat \X Nat : /\ pair[2] <= pair[1]
                                       /\ pair[1] = pair[2] \/ ReachesRoot(pair[2], b2, c2)}
<1>1. y1 \in Newton(step1, d) /\ y2 \in Newton(step2, d)
  BY DEF ComputeNewDestinationAmount
<1>2. /\ step1 \in [Nat -> SUBSET Nat] /\ IsDeterministic(step1)
      /\ step2 \in [Nat -> SUBSET Nat] /\ IsDeterministic(step2)
  BY DestinationStepIsOne
<1>3. share \in Nat
  BY DivBelow
<1>4. c1 \in Nat /\ c2 \in Nat /\ c2 <= c1
  <2>1. cube \in Nat
    OBVIOUS
  <2>2. /\ 4 * source1 * leverage \in Nat \ {0} /\ 4 * source2 * leverage \in Nat \ {0}
        /\ 4 * source1 * leverage <= 4 * source2 * leverage
    BY FactorsArePositive, ProductMonotone
  <2> HIDE DEF cube
  <2> QED BY <2>1, <2>2, QuotientFalls
<1>5. ASSUME NEW source \in Nat, NEW y \in Nat, NEW c \in Nat, NEW z,
             c = cube \div (4 * source * leverage),
             z \in DestinationStep(leverage, source, d, y)
      PROVE  /\ z \in Nat /\ 2 * y + (source + share - d) > 0
             /\ z * (2 * y + (source + share - d)) <= y * y + c
             /\ y * y + c < (z + 1) * (2 * y + (source + share - d))
  <2> DEFINE m == 2 * y + (source + share) - d
             n == y * y + c
  <2>1. m \in Nat \ {0} /\ n \in Nat /\ z = n \div m
    <3>1. 2 * y + (source + share) > d /\ z = n \div m
      BY <1>5 DEF DestinationStep, cube, share
    <3>2. n \in Nat
      OBVIOUS
    <3>3. m \in Nat \ {0}
      <4>1. source + share \in Nat
        BY <1>3
      <4> HIDE DEF share, n
      <4> QED BY <3>1, <4>1
    <3> QED BY <3>1, <3>2, <3>3
  <2>2. m = 2 * y + (source + share - d)
    BY <1>3
  <2> HIDE DEF m, n
  <2> DEFINE q == n \div m
  <2>3. q \in Nat /\ n % m \in 0..(m - 1) /\ n = m * q + (n % m)
    BY <2>1, DivMod
  <2>4. z = q
    BY <2>1
  <2> HIDE DEF q
  <2>5. z \in Nat /\ z * m <= n /\ n < (z + 1) * m
    BY <2>1, <2>3, <2>4
  <2> QED BY <2>1, <2>2, <2>5 DEF n
<1>6. ASSUME NEW u \in Nat, NEW v \in Nat, <<u, v>> \in R, NEW p \in step1[u], NEW q \in step2[v]
      PROVE  <<p, q>> \in R
  <2>1. p \in DestinationStep(leverage, source1, d, u) /\ q \in DestinationStep(leverage, source2, d, v)
    OBVIOUS
  <2>2. v <= u /\ (u = v \/ ReachesRoot(v, b2, c2))
    BY <1>6
  <2> HIDE DEF R, step1, step2
  <2>3. p \in Nat /\ 2 * u + b1 > 0 /\ u * u + c1 < (p + 1) * (2 * u + b1)
    BY <1>4, <1>5, <2>1
  <2>4. q \in Nat /\ 2 * v + b2 > 0 /\ q * (2 * v + b2) <= v * v + c2 /\ v * v + c2 < (q + 1) * (2 * v + b2)
    BY <1>4, <1>5, <2>1
  <2>5. b1 \in Int /\ b2 \in Int /\ b1 < b2
    BY <1>3
  <2> HIDE DEF b1, b2, c1, c2
  <2>6. q <= p
    BY <1>4, <2>2, <2>3, <2>4, <2>5, RoundsStayOrdered
  <2>7. ReachesRoot(q, b2, c2)
    BY <1>4, <2>4, <2>5, RoundReachesRoot
  <2> QED BY <2>3, <2>4, <2>6, <2>7 DEF R
<1>7. R \in SUBSET (Nat \X Nat) /\ <<d, d>> \in R
  OBVIOUS
<1>8. <<y1, y2>> \in R
  <2> HIDE DEF step1, step2, R
  <2> QED BY <1>1, <1>2, <1>6, <1>7, NewtonRelates
<1> QED BY <1>8

(* A larger offer to the stable curve pays no less.                        *)
LEMMA StableSwapGrows ==
    ASSUME NEW amp \in Nat, NEW x \in Nat, NEW y \in Nat, x <= y,
           NEW source \in Nat, NEW destination \in Nat,
           NEW less \in StableSwap(amp, x, source, destination),
           NEW more \in StableSwap(amp, y, source, destination)
    PROVE  less.destination <= more.destination
<1> DEFINE leverage == 2 * amp
           source1 == source + x
           source2 == source + y
<1>1. PICK d1 \in ComputeD(leverage, source, destination), y1 \in 0..destination :
         /\ y1 \in ComputeNewDestinationAmount(leverage, source1, d1)
         /\ less.destination = destination - y1
         /\ d1 \in StableD(amp, source, destination)
  BY DEF StableSwap, Leverage, StableD
<1>2. PICK d2 \in ComputeD(leverage, source, destination), y2 \in 0..destination :
         /\ y2 \in ComputeNewDestinationAmount(leverage, source2, d2)
         /\ more.destination = destination - y2
         /\ d2 \in StableD(amp, source, destination)
  BY DEF StableSwap, Leverage, StableD
<1>3. d1 = d2 /\ d1 \in Nat
  BY <1>1, <1>2, StableValueIsOne
<1>4. source1 \in Nat \ {0} /\ source2 \in Nat \ {0} /\ leverage \in Nat \ {0}
  <2>1. 4 * source1 * leverage # 0 /\ 4 * source2 * leverage # 0
    BY <1>1, <1>2 DEF ComputeNewDestinationAmount
  <2>2. source1 \in Nat /\ source2 \in Nat /\ leverage \in Nat
    OBVIOUS
  <2> HIDE DEF source1, source2, leverage
  <2> QED BY <2>1, <2>2
<1>5. CASE x = y
  <2> DEFINE step == [z \in Nat |-> DestinationStep(leverage, source1, d1, z)]
  <2>1. y1 \in Newton(step, d1) /\ y2 \in Newton(step, d1)
    BY <1>1, <1>2, <1>3, <1>5 DEF ComputeNewDestinationAmount
  <2>2. step \in [Nat -> SUBSET Nat] /\ IsDeterministic(step)
    <3> HIDE DEF leverage, source1
    <3> QED BY <1>3, <1>4, DestinationStepIsOne
  <2>3. y1 = y2
    <3> HIDE DEF step
    <3> QED BY <1>3, <2>1, <2>2, NewtonIsOne
  <2> QED BY <1>1, <1>2, <2>3
<1>6. CASE x # y
  <2>1. source1 < source2
    BY <1>6
  <2> HIDE DEF leverage, source1, source2
  <2>2. y2 <= y1
    BY <1>1, <1>2, <1>3, <1>4, <2>1, DestinationFalls
  <2> QED BY <1>1, <1>2, <2>2
<1> QED BY <1>5, <1>6

(* On every curve, a larger offer never yields less than a smaller one     *)
(* (swap_without_fees of the four calculators).                            *)
THEOREM OffersAreOrdered == Spec => []OfferingMoreNeverYieldsLess
<1>1. TypeOK /\ ~HasFormula => OfferingMoreNeverYieldsLess
  <2> SUFFICES ASSUME TypeOK, ~HasFormula, NEW direction \in TradeDirection,
                      NEW x \in SwapAmounts, NEW y \in SwapAmounts, x <= y
               PROVE  LET s == SourceSide(direction, token_a, token_b)
                          d == SourceSide(Opposite(direction), token_a, token_b)
                      IN  \A less \in SwapWithoutFees(curve, x, s, d, direction),
                             more \in SwapWithoutFees(curve, y, s, d, direction) :
                             less.destination <= more.destination
    BY DEF OfferingMoreNeverYieldsLess
  <2> DEFINE s == SourceSide(direction, token_a, token_b)
             d == SourceSide(Opposite(direction), token_a, token_b)
  <2>1. s \in Nat /\ d \in Nat /\ curve.param \in Nat
    BY TypeFacts DEF SourceSide
  <2>2. x \in Nat /\ y \in Nat
    BY PoolAssumption, WidthAssumption DEF U64
  <2> HIDE DEF s, d
  <2> SUFFICES ASSUME NEW less \in SwapWithoutFees(curve, x, s, d, direction),
                      NEW more \in SwapWithoutFees(curve, y, s, d, direction)
               PROVE  less.destination <= more.destination
    BY DEF s, d
  <2>3. less \in StableSwap(curve.param, x, s, d) /\ more \in StableSwap(curve.param, y, s, d)
    BY DEF SwapWithoutFees, HasFormula
  <2> QED BY <2>1, <2>2, <2>3, StableSwapGrows
<1>2. TypeOK /\ (HasFormula => OfferingMoreNeverYieldsLess) => OfferingMoreNeverYieldsLess
  BY <1>1
<1> QED BY <1>2, TypeCorrect, FormulaOffersAreOrdered, PTL

-----------------------------------------------------------------------------
(* The invariant d: at least one result.                                   *)

(* A u128 holds four u64s, and a U256 208 times a product of three: with   *)
(* 64, 128 and 256 bits each holds far more.                               *)
WideEnough ==
    /\ 4 * MaxU64 <= MaxU128
    /\ 208 * (MaxU64 * MaxU64 * MaxU64) <= MaxU256

(* d_product, the cube of d over the doubled sides, however rounded, is at *)
(* most that over the doubled sum of them.                                 *)
LEMMA DProductIsBelow ==
    ASSUME NEW a \in Nat, NEW b \in Nat, NEW d \in Nat
    PROVE  LET quotient  == (d * d) \div (2 * a + 1)
               by_a      == quotient * d
               d_product == by_a \div (2 * b + 1)
           IN  /\ by_a \in Nat /\ by_a <= d * d * d
               /\ d_product \in Nat
               /\ d_product * (2 * (a + b) + 1) <= d * d * d
<1> DEFINE quotient  == (d * d) \div (2 * a + 1)
           by_a      == quotient * d
           d_product == by_a \div (2 * b + 1)
<1>1. quotient \in Nat /\ quotient * (2 * a + 1) <= d * d
  <2>1. d * d \in Nat /\ 2 * a + 1 \in Nat \ {0}
    OBVIOUS
  <2> QED BY <2>1, DivBelow
<1> HIDE DEF quotient
<1>2. by_a \in Nat /\ by_a * (2 * a + 1) <= d * d * d
  <2>1. (quotient * (2 * a + 1)) * d <= (d * d) * d
    BY <1>1, ProductMonotone
  <2> QED BY <1>1, <2>1
<1>3. by_a <= d * d * d
  <2>1. by_a * (2 * a + 1) >= by_a
    BY <1>2
  <2> QED BY <1>2, <2>1
<1> HIDE DEF by_a
<1>4. d_product \in Nat /\ d_product * (2 * b + 1) <= by_a
  <2>1. 2 * b + 1 \in Nat \ {0}
    OBVIOUS
  <2> QED BY <1>2, <2>1, DivBelow
<1> HIDE DEF d_product
<1>5. (d_product * (2 * b + 1)) * (2 * a + 1) <= by_a * (2 * a + 1)
  BY <1>2, <1>4, ProductMonotone
<1>6. (d_product * (2 * b + 1)) * (2 * a + 1) = d_product * (2 * (a + b) + 1) + 4 * (d_product * (a * b))
  BY <1>4
<1>7. d_product * (a * b) >= 0
  <2>1. a * b \in Nat
    OBVIOUS
  <2> QED BY <1>4, <2>1
<1>8. d_product * (2 * (a + b) + 1) <= d * d * d
  BY <1>2, <1>4, <1>5, <1>6, <1>7
<1> QED BY <1>2, <1>3, <1>4, <1>8 DEF quotient, by_a, d_product

(* From a d of at most twice the reserves, the numerator of a round is at  *)
(* least its denominator, which is positive, and at most that twice as     *)
(* often as there are tokens.                                              *)
LEMMA RoundStaysWithin ==
    ASSUME NEW leverage \in Nat, leverage >= 2, NEW sum \in Nat \ {0},
           NEW d \in 1..(2 * sum), NEW d_product \in Nat,
           d_product * (2 * sum + 1) <= d * d * d
    PROVE  LET l_val == (leverage * sum + 2 * d_product) * d
               r_val == (leverage - 1) * d + 3 * d_product
           IN  /\ l_val \in Nat /\ r_val \in Nat \ {0}
               /\ r_val <= l_val
               /\ l_val <= (2 * sum) * r_val
<1> DEFINE less == leverage - 1
           l_val == (leverage * sum + 2 * d_product) * d
           r_val == less * d + 3 * d_product
           product == d_product * d
           paid == less * sum * d
<1>1. less \in Nat /\ less >= 1 /\ d \in Nat /\ d >= 1 /\ d <= 2 * sum
  OBVIOUS
<1>2. product \in Nat /\ paid \in Nat /\ less * d >= d /\ less * d \in Nat
  BY <1>1, ProductMonotone
<1>3. sum * d >= d /\ paid >= sum * d /\ paid >= less * d
  <2>1. sum * d >= 1 * d /\ sum * d \in Nat
    BY <1>1, ProductMonotone
  <2>2. less * (sum * d) >= 1 * (sum * d)
    BY <1>1, <2>1, ProductMonotone
  <2>3. less * (sum * d) >= less * (1 * d)
    BY <1>1, <2>1, ProductMonotone
  <2>4. paid = less * (sum * d)
    BY <1>1
  <2> QED BY <1>1, <2>1, <2>2, <2>3, <2>4
<1>4. l_val = paid + sum * d + 2 * product
  BY <1>1
<1>5. 2 * product >= 3 * d_product
  <2>1. CASE d >= 2
    <3>1. product >= d_product * 2
      BY <1>1, <2>1, ProductMonotone
    <3> QED BY <1>2, <3>1
  <2>2. CASE d = 1
    <3>1. d_product * (2 * sum + 1) <= 1
      BY <2>2
    <3>2. d_product # 0 => d_product * (2 * sum + 1) >= 1 * 3
      BY ProductMonotone
    <3>3. d_product = 0
      BY <3>1, <3>2
    <3> QED BY <1>2, <3>3
  <2> QED BY <1>1, <2>1, <2>2
<1>6. d_product * sum \in Nat /\ product <= 2 * (d_product * sum)
  <2>1. d_product * d <= d_product * (2 * sum)
    BY <1>1, ProductMonotone
  <2> QED BY <1>1, <2>1
<1>7. (2 * sum) * r_val = 2 * paid + 6 * (d_product * sum)
  BY <1>1
<1> HIDE DEF less, paid, product
<1>8. l_val \in Nat /\ r_val \in Nat /\ r_val > 0
  BY <1>1, <1>2, <1>4
<1> QED BY <1>1, <1>2, <1>3, <1>4, <1>5, <1>6, <1>7, <1>8 DEF less

(* Nothing that a round computes from there outgrows U256.                 *)
LEMMA RoundFits ==
    ASSUME WideEnough, NEW leverage \in U64, leverage >= 2, NEW sum \in Nat \ {0}, sum <= 2 * MaxU64,
           NEW d \in 1..(2 * sum), NEW d_product \in Nat,
           d_product * (2 * sum + 1) <= d * d * d,
           NEW l_val \in Nat, NEW r_val \in Nat,
           r_val = (leverage - 1) * d + 3 * d_product,
           r_val <= l_val, l_val <= (2 * sum) * r_val
    PROVE  {d * d, d * d * d, l_val, r_val} \subseteq 0..MaxU256
<1> DEFINE m == MaxU64
           square == m * m
           cube == m * m * m
           dd == d * d
<1>1. m \in Nat /\ m >= 1 /\ square \in Nat /\ cube \in Nat /\ cube >= square
  <2>1. m \in Nat /\ m >= 1
    BY WidthAssumption
  <2> HIDE DEF m
  <2>2. m * m \in Nat /\ (m * m) * m >= (m * m) * 1
    BY <2>1, ProductMonotone
  <2> QED BY <2>1, <2>2
<1>2. d \in Nat /\ d >= 1 /\ d <= 4 * m /\ d <= 2 * sum /\ leverage - 1 \in Nat /\ leverage - 1 <= m
  BY WidthAssumption DEF U64
<1>3. dd \in Nat /\ dd <= 16 * square
  <2>1. d * d <= (4 * m) * (4 * m)
    BY <1>1, <1>2, ProductMonotone
  <2> QED BY <1>1, <1>2, <2>1
<1>4. dd * d \in Nat /\ dd * d <= 64 * cube
  <2>1. dd * d <= (16 * square) * (4 * m)
    <3> HIDE DEF m, square, dd
    <3>1. 16 * square \in Nat /\ 4 * m \in Nat
      BY <1>1
    <3> QED BY <1>2, <1>3, <3>1, ProductMonotone
  <2> QED BY <1>1, <1>2, <1>3, <2>1
<1>5. d_product <= dd
  <2>1. dd * d <= dd * (2 * sum)
    <3> HIDE DEF dd
    <3> QED BY <1>2, <1>3, ProductMonotone
  <2>2. d_product >= dd + 1 => d_product * (2 * sum + 1) >= (dd + 1) * (2 * sum + 1)
    <3> HIDE DEF dd
    <3> QED BY <1>3, ProductMonotone
  <2>3. (dd + 1) * (2 * sum + 1) = dd * (2 * sum) + dd + 2 * sum + 1
    <3> HIDE DEF dd
    <3> QED BY <1>3
  <2> HIDE DEF dd
  <2>4. d_product * (2 * sum + 1) <= dd * d
    BY DEF dd
  <2> QED BY <1>2, <1>3, <2>1, <2>2, <2>3, <2>4
<1>6. r_val <= 52 * square
  <2>1. (leverage - 1) * d <= m * (4 * m)
    BY <1>1, <1>2, ProductMonotone
  <2> QED BY <1>1, <1>2, <1>3, <1>5, <2>1
<1>7. l_val <= 208 * cube
  <2>1. (2 * sum) * r_val <= (4 * m) * (52 * square)
    <3> HIDE DEF square
    <3>1. 4 * m \in Nat /\ 52 * square \in Nat /\ 2 * sum <= 4 * m
      BY <1>1
    <3> QED BY <1>6, <3>1, ProductMonotone
  <2>2. (4 * m) * (52 * square) = 208 * cube
    BY <1>1
  <2>3. (2 * sum) * r_val \in Nat
    OBVIOUS
  <2> QED BY <1>1, <2>1, <2>2, <2>3
<1>8. 208 * cube <= MaxU256
  BY DEF WideEnough
<1> HIDE DEF m, square, cube, dd
<1>9. {dd, dd * d, l_val, r_val} \subseteq 0..MaxU256
  BY <1>1, <1>3, <1>4, <1>7, <1>8, WidthAssumption
<1> QED BY <1>9 DEF dd

(* From the sum of the reserves on, every round has a result, and it is at *)
(* most twice that sum.                                                    *)
LEMMA StableValueIsSome ==
    ASSUME WideEnough, NEW amp \in 1..(MaxU64 \div 2), NEW a \in U64, NEW b \in U64
    PROVE  StableD(amp, a, b) # {} /\ StableD(amp, a, b) \subseteq 0..(2 * (a + b))
<1> DEFINE leverage == 2 * amp
           sum == a + b
           step == [d \in Nat |-> CalculateStep(leverage, a, b, d)]
           K == 1..(2 * sum)
<1>1. /\ leverage \in U64 /\ leverage >= 2 /\ leverage \in Nat
      /\ a \in Nat /\ b \in Nat /\ sum \in Nat /\ sum <= 2 * MaxU64 /\ sum <= MaxU128
  BY WidthAssumption DEF U64, WideEnough
<1>2. StableD(amp, a, b) = ComputeD(leverage, a, b)
  BY <1>1 DEF StableD, Leverage
<1> HIDE DEF leverage
<1>3. CASE sum = 0
  BY <1>2, <1>3 DEF ComputeD
<1>4. CASE sum # 0
  <2>1. ComputeD(leverage, a, b) = Newton(step, sum) \cap U128
    <3>1. ~(a + b > MaxU128)
      BY <1>1, WidthAssumption
    <3> QED BY <1>4, <3>1, Zenon DEF ComputeD
  <2>2. step \in [Nat -> SUBSET Nat] /\ IsDeterministic(step)
    <3>1. leverage \in Nat /\ a \in Nat /\ b \in Nat
      BY <1>1
    <3> QED BY <3>1, CalculateStepIsOne
  <2>3. ASSUME NEW d \in K PROVE step[d] # {} /\ step[d] \subseteq K
    <3> DEFINE by_a      == ((d * d) \div (2 * a + 1)) * d
               d_product == by_a \div (2 * b + 1)
               l_val     == (leverage * sum + 2 * d_product) * d
               r_val     == (leverage - 1) * d + 3 * d_product
    <3>1. d \in Nat
      OBVIOUS
    <3>2. /\ by_a \in Nat /\ by_a <= d * d * d
          /\ d_product \in Nat /\ d_product * (2 * sum + 1) <= d * d * d
      BY <1>1, <3>1, DProductIsBelow
    <3>3. step[d] = IF leverage > 0 /\ r_val > 0 /\ {d * d, by_a, l_val, r_val} \subseteq 0..MaxU256
                    THEN {l_val \div r_val} ELSE {}
      BY <3>1 DEF CalculateStep
    <3> HIDE DEF by_a, d_product, step, l_val, r_val
    <3>4. l_val \in Nat /\ r_val \in Nat \ {0} /\ r_val <= l_val /\ l_val <= (2 * sum) * r_val
      <4> HIDE DEF sum
      <4> QED BY <1>1, <1>4, <3>2, RoundStaysWithin DEF l_val, r_val
    <3>5. {d * d, d * d * d, l_val, r_val} \subseteq 0..MaxU256
      <4>1. r_val = (leverage - 1) * d + 3 * d_product
        BY DEF r_val
      <4> HIDE DEF sum
      <4> QED BY <1>1, <1>4, <3>2, <3>4, <4>1, RoundFits
    <3>6. step[d] = {l_val \div r_val}
      <4>1. by_a \in 0..MaxU256
        BY <3>1, <3>2, <3>5, WidthAssumption
      <4>2. {d * d, by_a, l_val, r_val} \subseteq 0..MaxU256
        BY <3>5, <4>1
      <4>3. leverage > 0 /\ r_val > 0
        BY <1>1, <3>4
      <4> QED BY <3>3, <4>2, <4>3
    <3> DEFINE q == l_val \div r_val
    <3>7. q \in Nat /\ l_val % r_val \in 0..(r_val - 1) /\ l_val = r_val * q + (l_val % r_val)
      BY <3>4, DivMod
    <3> HIDE DEF q
    <3>8. q # 0
      BY <3>4, <3>7
    <3>9. q <= 2 * sum
      <4>1. q >= 2 * sum + 1 => r_val * q >= r_val * (2 * sum + 1)
        BY <1>1, <3>4, <3>7, ProductMonotone
      <4>2. r_val * (2 * sum + 1) = (2 * sum) * r_val + r_val
        BY <1>1, <3>4
      <4> QED BY <1>1, <3>4, <3>7, <4>1, <4>2
    <3> QED BY <3>6, <3>7, <3>8, <3>9 DEF q
  <2>4. sum \in K /\ K \in SUBSET Nat
    BY <1>1, <1>4
  <2>5. Newton(step, sum) # {} /\ Newton(step, sum) \subseteq K
    <3> HIDE DEF step, K
    <3> QED BY <2>2, <2>3, <2>4, NewtonKeeps
  <2>6. K \subseteq U128
    BY <1>1, WidthAssumption DEF WideEnough, U128
  <2>7. K \subseteq 0..(2 * sum)
    BY <1>1
  <2> HIDE DEF K, step
  <2> QED BY <1>2, <2>1, <2>5, <2>6, <2>7
<1> QED BY <1>3, <1>4

(* With the widths of the build, and an amplifier that fits when doubled,  *)
(* the stable curve has a value at all reserves (stable.rs: compute_d).    *)
THEOREM StableValueAlwaysExists == ASSUME WideEnough PROVE Spec => []StableValueExists
<1>1. TypeOK => StableValueExists
  BY StableValueIsSome DEF TypeOK, StableValueExists
<1> QED BY <1>1, TypeCorrect, PTL

-----------------------------------------------------------------------------
(* The invariant d: its bound.  The method solves, from above,             *)
(*    leverage * (a + b) + y = leverage * y + y^3 / sides,                 *)
(* and only its rounding leads it above the reserves again.                *)

(* d_product of a round, and the product of the doubled sides.             *)
DProduct(a, b, d) == (((d * d) \div (2 * a + 1)) * d) \div (2 * b + 1)
Sides(a, b) == (2 * a + 1) * (2 * b + 1)

(* Its two divisions leave at most this much of the cube of d.             *)
LEMMA DProductBounds ==
    ASSUME NEW a \in Nat, NEW b \in Nat, NEW d \in Nat
    PROVE  /\ DProduct(a, b, d) \in Nat
           /\ DProduct(a, b, d) * Sides(a, b) <= d * d * d
           /\ DProduct(a, b, d) * Sides(a, b) + Sides(a, b) + (2 * a + 1) * d
                >= d * d * d + d + (2 * a + 1)
<1> DEFINE alpha == 2 * a + 1
           beta == 2 * b + 1
           quotient == (d * d) \div alpha
           by_a == quotient * d
           d_product == by_a \div beta
<1>1. alpha \in Nat \ {0} /\ beta \in Nat \ {0} /\ d * d \in Nat
  OBVIOUS
<1>2. DProduct(a, b, d) = d_product /\ Sides(a, b) = alpha * beta
  BY DEF DProduct, Sides
<1> HIDE DEF alpha, beta
<1>3. quotient \in Nat /\ quotient * alpha <= d * d /\ quotient * alpha >= d * d - alpha + 1
  BY <1>1, DivBelow, DivAbove
<1> HIDE DEF quotient
<1>4. by_a \in Nat
  BY <1>3
<1>5. d_product \in Nat /\ d_product * beta <= by_a /\ d_product * beta >= by_a - beta + 1
  <2> HIDE DEF by_a
  <2> QED BY <1>1, <1>4, DivBelow, DivAbove
<1> HIDE DEF d_product
<1> DEFINE paid == quotient * alpha
           owed == d_product * beta
<1>6. paid \in Nat /\ owed \in Nat
  BY <1>1, <1>3, <1>5
<1>7. by_a * alpha = paid * d /\ d_product * (alpha * beta) = owed * alpha
  BY <1>1, <1>3, <1>5
<1>8. paid * d <= (d * d) * d /\ paid * d >= (d * d - alpha + 1) * d
  <2> HIDE DEF paid
  <2>1. paid <= d * d /\ paid >= d * d - alpha + 1
    BY <1>3 DEF paid
  <2> QED BY <1>1, <1>6, <2>1
<1>9. owed * alpha <= by_a * alpha /\ owed * alpha >= (by_a - beta + 1) * alpha
  <2> HIDE DEF owed, by_a
  <2>1. owed <= by_a /\ owed >= by_a - beta + 1
    BY <1>5 DEF owed
  <2> QED BY <1>1, <1>4, <1>6, <2>1
<1> HIDE DEF paid, owed, by_a
<1>10. (by_a - beta + 1) * alpha = by_a * alpha - alpha * beta + alpha
  BY <1>1, <1>4
<1>11. (d * d - alpha + 1) * d = d * d * d - alpha * d + d
  BY <1>1
<1>12. d_product * (alpha * beta) <= d * d * d
  BY <1>1, <1>4, <1>6, <1>7, <1>8, <1>9
<1>13. d_product * (alpha * beta) + alpha * beta + alpha * d >= d * d * d + d + alpha
  BY <1>1, <1>4, <1>6, <1>7, <1>8, <1>9, <1>10, <1>11
<1> QED BY <1>2, <1>5, <1>12, <1>13 DEF alpha

(* y reaches the value of the equation that the method solves:             *)
(* leverage * (a + b) + y = leverage * y + y^3 / sides.                    *)
ReachesValue(leverage, a, b, y) ==
    (leverage * (a + b) - (leverage - 1) * y) * Sides(a, b) < y * y * y

(* The cube is nowhere below its tangent at d.                             *)
LEMMA MeanReaches ==
    ASSUME NEW d \in Nat, NEW y \in Nat
    PROVE  d * d * (3 * y - 2 * d) <= y * y * y
<1>1. y * y * y - d * d * (3 * y - 2 * d) = (y - d) * (y - d) * (y + 2 * d)
  OBVIOUS
<1>2. (y - d) * (y - d) >= 0
  <2> DEFINE z == y - d
  <2>1. z \in Int
    OBVIOUS
  <2> HIDE DEF z
  <2>2. z * z >= 0
    <3>1. CASE z >= 0
      BY <2>1, <3>1
    <3>2. CASE z < 0
      BY <2>1, <3>2
    <3> QED BY <2>1, <3>1, <3>2
  <2> QED BY <2>2 DEF z
<1> DEFINE square == (y - d) * (y - d)
<1>3. square \in Nat
  BY <1>2
<1>4. square * (y + 2 * d) >= 0
  <2> HIDE DEF square
  <2> QED BY <1>3
<1>5. y * y * y \in Int /\ d * d * (3 * y - 2 * d) \in Int
  OBVIOUS
<1> QED BY <1>1, <1>4, <1>5

(* One above the result of a round reaches the value.                      *)
LEMMA ResultReaches ==
    ASSUME NEW leverage \in Nat, leverage >= 2, NEW a \in Nat, NEW b \in Nat,
           NEW d \in Nat \ {0}, NEW d_product \in Nat, NEW y \in Nat \ {0},
           d_product * Sides(a, b) <= d * d * d,
           (leverage * (a + b) + 2 * d_product) * d < y * ((leverage - 1) * d + 3 * d_product)
    PROVE  ReachesValue(leverage, a, b, y)
<1> DEFINE missing == leverage * (a + b) - (leverage - 1) * y
           m == Sides(a, b)
           slope == 3 * y - 2 * d
<1>1. missing \in Int /\ slope \in Int /\ m \in Nat \ {0}
  BY DEF Sides
<1>2. missing * d < d_product * slope
  OBVIOUS
<1>3. CASE missing <= 0
  <2>1. missing * m <= 0
    <3> HIDE DEF missing, m
    <3> QED BY <1>1, <1>3
  <2>2. y * y * y > 0
    <3>1. y * y >= 1 * 1 /\ y * y \in Nat
      BY ProductMonotone
    <3>2. (y * y) * y >= 1 * 1
      BY <3>1, ProductMonotone
    <3> QED BY <3>2
  <2> QED BY <2>1, <2>2, <1>1 DEF ReachesValue
<1>4. CASE missing > 0
  <2> HIDE DEF missing, m, slope
  <2>1. missing * d > 0
    BY <1>1, <1>4
  <2>2. slope > 0
    <3>1. d_product * slope > 0
      BY <1>1, <1>2, <2>1
    <3>2. slope <= 0 => d_product * slope <= 0
      BY <1>1
    <3> QED BY <1>1, <3>1, <3>2
  <2>3. (missing * d) * m < (d_product * slope) * m
    <3> DEFINE u == missing * d
               v == d_product * slope
    <3>1. u \in Int /\ v \in Int /\ u < v
      BY <1>1, <1>2
    <3> HIDE DEF u, v
    <3>2. u * m < v * m
      BY <1>1, <3>1
    <3> QED BY <3>2 DEF u, v
  <2>4. (d_product * m) * slope <= (d * d * d) * slope
    <3> DEFINE u == d_product * m
               v == d * d * d
    <3>1. u \in Nat /\ v \in Nat /\ u <= v
      BY <1>1 DEF m
    <3> HIDE DEF u, v
    <3>2. u * slope <= v * slope
      BY <1>1, <2>2, <3>1
    <3> QED BY <3>2 DEF u, v
  <2>5. (missing * m) * d < (d * d * slope) * d
    BY <1>1, <2>3, <2>4
  <2>6. missing * m < d * d * slope
    <3> DEFINE u == missing * m
               v == d * d * slope
    <3>1. u \in Int /\ v \in Int /\ u * d < v * d
      BY <1>1, <2>5
    <3> HIDE DEF u, v
    <3>2. u >= v => u * d >= v * d
      BY <3>1
    <3>3. u < v
      BY <3>1, <3>2
    <3> QED BY <3>3 DEF u, v
  <2>7. d * d * slope <= y * y * y
    BY MeanReaches DEF slope
  <2>8. missing * m < y * y * y
    BY <1>1, <2>6, <2>7
  <2> QED BY <2>8 DEF ReachesValue, missing, m
<1> QED BY <1>1, <1>3, <1>4

(* The inequality behind the next lemma, for all but small values: with    *)
(* both bounds put in, a polynomial that grows with d.                     *)
LEMMA CubeOutweighs ==
    ASSUME NEW d \in Nat, NEW e \in Nat, (e >= 1 /\ d >= 12) \/ (e = 0 /\ d >= 22),
           (d + 1 + 2 * e) * (2 * d + 2 * e + 3) < (d + 1) * (d + 1) * (d + 1)
    PROVE  (d * d + d * e + d + 6 + 3 * e) * ((d + 1) * (d + 1) * (d + 1))
             < (d + 1 + 2 * e) * (d + 6 + 3 * e) * (d * d * d - 2 * (d * d) - 2 * (e * d) + 2 * e + 3)
<1> DEFINE d2 == d * d
           d3 == d2 * d
           d4 == d3 * d
           g0 == d4 - 20 * d3 - 31 * d2 + 2 * d + 12
           g1 == 4 * d4 - 3 * d3 - 54 * d2 + 7 * d + 54
           g2 == 6 * d3 - 22 * d2 - 20 * d + 48
           h1 == d4 - 3 * d3 - 45 * d2 + 7 * d + 48
           h2 == 6 * d3 - 4 * d2 - 14 * d + 24
           less == (d * d + d * e + d + 6 + 3 * e) * ((d + 1) * (d + 1) * (d + 1))
           more == (d + 1 + 2 * e) * (d + 6 + 3 * e) * (d * d * d - 2 * (d * d) - 2 * (e * d) + 2 * e + 3)
           cubes == 12 * ((d - 1) * (e * e * e))
<1>1. d2 \in Nat /\ d3 \in Nat /\ d4 \in Nat /\ d >= 12 /\ d - 1 \in Nat
  OBVIOUS
<1>2. more - less = g0 + g1 * e + g2 * (e * e) - cubes
  OBVIOUS
<1>3. cubes <= (h1 - g1) * (-e) - (h2 - g2) * (e * e)
  <2> DEFINE room == d3 + d2 - 2 * d - 2 - 6 * (e * d) - 8 * e
             u == 3 * ((d - 1) * e)
  <2>1. 4 * (e * e) <= room
    OBVIOUS
  <2>2. u \in Nat /\ e * e \in Nat /\ room \in Int
    BY <1>1
  <2>3. u * (4 * (e * e)) <= u * room
    <3> HIDE DEF u, room
    <3> QED BY <2>1, <2>2
  <2>4. u * (4 * (e * e)) = cubes
    BY <1>1
  <2>5. u * room = 3 * ((d - 1) * (d3 + d2 - 2 * d - 2) * e) - 6 * ((d - 1) * (3 * d + 4) * (e * e))
    BY <1>1
  <2>6. (d - 1) * (d3 + d2 - 2 * d - 2) = d4 - 3 * d2 + 2
    BY <1>1
  <2>7. 6 * ((d - 1) * (3 * d + 4)) = 18 * d2 + 6 * d - 24
    BY <1>1
  <2>8. 3 * (d4 - 3 * d2 + 2) = g1 - h1 /\ 18 * d2 + 6 * d - 24 = h2 - g2
    BY <1>1
  <2>9. u * room = (g1 - h1) * e - (h2 - g2) * (e * e)
    BY <1>1, <2>5, <2>6, <2>7, <2>8
  <2> QED BY <1>1, <2>3, <2>4, <2>9
<1>4. /\ g0 \in Int /\ h1 \in Int /\ h2 \in Int /\ g1 \in Int /\ g2 \in Int
      /\ less \in Int /\ more \in Int /\ cubes \in Int
  BY <1>1
<1>5. d4 >= 12 * d3 /\ d3 >= 12 * d2 /\ d2 >= 12 * d
  <2>1. d2 >= 12 * d
    BY <1>1, ProductMonotone
  <2> HIDE DEF d2
  <2>2. d2 * d >= d2 * 12
    BY <1>1, ProductMonotone
  <2>3. d3 >= 12 * d2
    BY <1>1, <2>2
  <2> HIDE DEF d3
  <2>4. d3 * d >= d3 * 12
    BY <1>1, ProductMonotone
  <2> QED BY <1>1, <2>1, <2>3, <2>4
<1>6. h2 >= 0 /\ h1 + h2 >= 0 /\ g0 + h1 + h2 > 0
  <2> HIDE DEF d2, d3, d4
  <2> QED BY <1>1, <1>5
<1>7. e = 0 => g0 > 0
  <2>1. CASE e = 0
    <3>1. d3 * d >= d3 * 22 /\ d2 * d >= d2 * 22
      <4> HIDE DEF d2, d3
      <4> QED BY <1>1, <2>1, ProductMonotone
    <3>2. d >= 22 /\ d4 >= 22 * d3 /\ d3 >= 22 * d2
      BY <1>1, <2>1, <3>1
    <3> HIDE DEF d2, d3, d4
    <3> QED BY <1>1, <3>2
  <2> QED BY <2>1
<1>8. more - less >= g0 + h1 * e + h2 * (e * e)
  <2> HIDE DEF less, more, cubes, g0, g1, g2, h1, h2
  <2> QED BY <1>2, <1>3, <1>4
<1> HIDE DEF less, more, cubes, g0, g1, g2, h1, h2, d2, d3, d4
<1>9. g0 + h1 * e + h2 * (e * e) > 0
  <2>1. CASE e = 0
    BY <1>4, <1>7, <2>1
  <2>2. CASE e >= 1
    <3>1. e * e >= e /\ e * e \in Nat
      BY <2>2
    <3>2. h2 * (e * e) >= h2 * e
      BY <1>4, <1>6, <3>1, ProductMonotone
    <3>3. (h1 + h2) * e >= (h1 + h2) * 1
      BY <1>4, <1>6, <2>2, ProductMonotone
    <3> QED BY <1>4, <1>6, <3>1, <3>2, <3>3
  <2> QED BY <2>1, <2>2
<1>10. less < more
  BY <1>4, <1>8, <1>9
<1> QED BY <1>10 DEF less, more

(* From d, the next round does not end above the reserves, with a leverage *)
(* of two or more: its numerator is less than one more than them, times    *)
(* its denominator.                                                        *)
StaysBelow(a, b, d) ==
    d * (a + b - 1) < DProduct(a, b, d) * (3 * (a + b) + 3 - 2 * d)

(* Where the rounding counts, for few tokens, this is by computation.      *)
LEMMA FewTokensStayBelow ==
    /\ \A sum \in 4..9 : \A a \in 0..sum : ~(sum = 8 /\ a = 5) => StaysBelow(a, sum - a, sum)
    /\ \A sum \in 4..22 : \A a \in 0..sum :
          ReachesValue(2, a, sum - a, sum) => StaysBelow(a, sum - a, sum - 1)
    /\ \A d \in 1..11, e \in 1..11 : \A a \in 0..(d + 1 + e) :
          ReachesValue(2, a, d + 1 + e - a, d + 1) => StaysBelow(a, d + 1 + e - a, d)
<1>1. \A sum \in 4..9 : \A a \in 0..sum : ~(sum = 8 /\ a = 5) => StaysBelow(a, sum - a, sum)
  BY SMTT(60) DEF StaysBelow, DProduct
<1>2. \A sum \in 4..22 : \A a \in 0..sum :
         ReachesValue(2, a, sum - a, sum) => StaysBelow(a, sum - a, sum - 1)
  BY SMTT(60) DEF StaysBelow, DProduct, ReachesValue, Sides
<1>3. \A d \in 1..11, e \in 1..11 : \A a \in 0..(d + 1 + e) :
         ReachesValue(2, a, d + 1 + e - a, d + 1) => StaysBelow(a, d + 1 + e - a, d)
  BY SMTT(60) DEF StaysBelow, DProduct, ReachesValue, Sides
<1> QED BY <1>1, <1>2, <1>3

(* At the reserves themselves, d_product is at most three less than them.  *)
LEMMA ReservesStayBelow ==
    ASSUME NEW a \in Nat, NEW b \in Nat, a + b >= 10
    PROVE  StaysBelow(a, b, a + b)
<1> DEFINE sum == a + b
           t == a - b
           m == Sides(a, b)
           d_product == DProduct(a, b, sum)
<1>1. sum \in Nat /\ sum >= 10 /\ t \in Int /\ t <= sum /\ -sum <= t /\ 2 * a + 1 = sum + 1 + t
  OBVIOUS
<1>2. m = (sum + 1) * (sum + 1) - t * t
  BY DEF Sides
<1>3. d_product \in Nat /\ d_product * m + m + (2 * a + 1) * sum >= sum * sum * sum + sum + (2 * a + 1)
  BY <1>1, DProductBounds
<1>4. m \in Nat
  BY DEF Sides
<1> HIDE DEF sum, t, m, d_product
<1>5. d_product >= sum - 3
  <2> SUFFICES ASSUME d_product <= sum - 4 PROVE FALSE
    BY <1>1, <1>3
  <2>1. d_product * m <= (sum - 4) * m
    BY <1>1, <1>3, <1>4, ProductMonotone
  <2>2. (sum - 4) * m + m + (sum + 1 + t) * sum >= sum * sum * sum + sum + (sum + 1 + t)
    BY <1>1, <1>3, <1>4, <2>1
  <2>3. (sum - 3) * (t * (t - 1)) + 6 * sum + 4 - 2 * t
          = sum * sum * sum + sum + (sum + 1 + t) - ((sum - 4) * m + m + (sum + 1 + t) * sum)
    BY <1>1, <1>2
  <2>4. t * (t - 1) >= 0
    <3>1. CASE t >= 1
      BY <1>1, <3>1
    <3>2. CASE t <= 0
      BY <1>1, <3>2
    <3> QED BY <1>1, <3>1, <3>2
  <2>5. (sum - 3) * (t * (t - 1)) >= 0
    <3> DEFINE u == t * (t - 1)
    <3>1. u \in Nat
      BY <1>1, <2>4
    <3> HIDE DEF u
    <3>2. (sum - 3) * u >= 0
      BY <1>1, <3>1
    <3> QED BY <3>2 DEF u
  <2> QED BY <1>1, <1>4, <2>2, <2>3, <2>5
<1>6. d_product * (sum + 3) >= (sum - 3) * (sum + 3)
  BY <1>1, <1>3, <1>5, ProductMonotone
<1>7. sum * (sum - 1) < d_product * (3 * sum + 3 - 2 * sum)
  BY <1>1, <1>3, <1>6
<1> QED BY <1>7 DEF StaysBelow, sum, d_product

(* Below the reserves, where one more than d reaches the value: the fewer  *)
(* tokens d is, the smaller is the product of the sides that it can reach. *)
LEMMA SmallerStaysBelow ==
    ASSUME NEW a \in Nat, NEW b \in Nat, NEW d \in Nat, NEW e \in Nat,
           a + b = d + 1 + e, (e >= 1 /\ d >= 12) \/ (e = 0 /\ d >= 22),
           ReachesValue(2, a, b, d + 1)
    PROVE  StaysBelow(a, b, d)
<1> DEFINE m == Sides(a, b)
           d_product == DProduct(a, b, d)
           n == d + 1 + 2 * e
           cube == (d + 1) * (d + 1) * (d + 1)
           A == d * d + d * e + d + 6 + 3 * e
           B == d + 6 + 3 * e
           X == d * d * d - 2 * (d * d) - 2 * (e * d) + 2 * e + 3
<1>1. m \in Nat /\ n \in Nat \ {0} /\ cube \in Nat /\ A \in Nat /\ B \in Nat \ {0} /\ X \in Int
  BY DEF Sides
<1>2. n * m < cube
  <2>1. 2 * (a + b) - (2 - 1) * (d + 1) = n
    OBVIOUS
  <2> QED BY <2>1 DEF ReachesValue
<1>3. m >= 2 * d + 2 * e + 3
  <2>1. m = 4 * (a * b) + 2 * (a + b) + 1 /\ a * b \in Nat
    BY DEF Sides
  <2> HIDE DEF m
  <2> QED BY <2>1
<1>4. A * cube < n * B * X
  <2>1. n * (2 * d + 2 * e + 3) < cube
    <3> HIDE DEF n, cube, m
    <3>1. n * m >= n * (2 * d + 2 * e + 3)
      BY <1>1, <1>3, ProductMonotone
    <3> QED BY <1>1, <1>2, <3>1
  <2> QED BY <2>1, CubeOutweighs
<1>5. d_product \in Nat /\ d_product * m + m + (2 * a + 1) * d >= d * d * d + d + (2 * a + 1)
  BY DProductBounds
<1>6. d_product * m + m >= X
  <2>1. (2 * a + 1) * (d - 1) <= (2 * d + 2 * e + 3) * (d - 1)
    <3>1. 2 * a + 1 <= 2 * d + 2 * e + 3 /\ 2 * a + 1 \in Nat /\ d - 1 \in Nat
      OBVIOUS
    <3> QED BY <3>1, ProductMonotone
  <2>2. d * d * d + d - (2 * d + 2 * e + 3) * (d - 1) = X
    OBVIOUS
  <2>3. (2 * a + 1) * (d - 1) = (2 * a + 1) * d - (2 * a + 1)
    OBVIOUS
  <2>4. d_product * m \in Nat
    BY <1>1, <1>5
  <2> HIDE DEF m, d_product
  <2> QED BY <1>1, <1>5, <2>1, <2>2, <2>3, <2>4
<1>7. A = d * (d + e) + B /\ d * (d + e) \in Nat
  OBVIOUS
<1> HIDE DEF m, n, cube, A, B, X, d_product
<1>8. A * m < B * X
  <2>1. (A * m) * n < (B * X) * n
    <3>1. A * (n * m) <= A * cube
      BY <1>1, <1>2, ProductMonotone
    <3> QED BY <1>1, <1>4, <3>1
  <2> DEFINE u == A * m
             v == B * X
  <2>2. u \in Int /\ v \in Int /\ u * n < v * n
    BY <1>1, <2>1
  <2> HIDE DEF u, v
  <2>3. u * n \in Int /\ v * n \in Int /\ (u >= v => u * n >= v * n)
    BY <1>1, <2>2
  <2>4. u < v
    BY <2>2, <2>3
  <2> QED BY <2>4 DEF u, v
<1>9. (d * (d + e)) * m < (B * d_product) * m
  <2> DEFINE w == d * (d + e)
             p == d_product * m
  <2>1. w \in Nat /\ p \in Nat
    BY <1>1, <1>5, <1>7
  <2>2. A * m = w * m + B * m
    BY <1>1, <1>7
  <2>3. B * (p + m) >= B * X
    <3> DEFINE s == p + m
    <3>1. s \in Int /\ s >= X
      BY <1>1, <1>6, <2>1
    <3> HIDE DEF s
    <3>2. B * s >= B * X
      BY <1>1, <3>1
    <3> QED BY <3>2 DEF s
  <2>4. B * p = (B * d_product) * m
    BY <1>1, <1>5
  <2> HIDE DEF w, p
  <2>5. w * m < B * p
    BY <1>1, <1>8, <2>1, <2>2, <2>3
  <2> QED BY <2>4, <2>5 DEF w
<1>10. d * (d + e) < B * d_product
  <2> DEFINE u == d * (d + e)
             v == B * d_product
  <2>1. u \in Nat /\ v \in Nat
    BY <1>1, <1>5, <1>7
  <2> HIDE DEF u, v
  <2>2. u * m < v * m
    BY <1>9 DEF u, v
  <2>3. u >= v => u * m >= v * m
    BY <1>1, <2>1, ProductMonotone
  <2>4. u * m \in Nat /\ v * m \in Nat
    BY <1>1, <2>1
  <2>5. u < v
    BY <2>1, <2>2, <2>3, <2>4
  <2> QED BY <2>5 DEF u, v
<1>11. a + b - 1 = d + e /\ 3 * (a + b) + 3 - 2 * d = B
  BY DEF B
<1> QED BY <1>1, <1>5, <1>10, <1>11 DEF StaysBelow, d_product

(* The pools, all of them small, in which a round may lead above the       *)
(* reserves: from there the next one leads back to them.                   *)
Alternates(leverage, a, b) ==
    leverage < a + b + 2 /\ (a + b <= 3 \/ (a = 5 /\ b = 3 /\ leverage = 2))

(* In all others, the next round after a d that reaches the value, or is   *)
(* one short of it, ends within the reserves.                              *)
LEMMA ReachedStaysBelow ==
    ASSUME NEW leverage \in Nat, leverage >= 2, NEW a \in Nat, NEW b \in Nat,
           NEW d \in 1..(a + b), ReachesValue(leverage, a, b, d + 1),
           a + b >= 4, ~(a = 5 /\ b = 3 /\ d = 8)
    PROVE  StaysBelow(a, b, d)
<1> DEFINE sum == a + b
           e == sum - d - 1
           m == Sides(a, b)
<1>1. sum \in Nat /\ sum >= 4 /\ d \in Nat /\ d >= 1 /\ d <= sum /\ b = sum - a /\ a \in 0..sum
  OBVIOUS
<1>2. CASE d = sum
  <2>1. CASE sum >= 10
    BY <1>2, <2>1, ReservesStayBelow
  <2>2. CASE sum < 10
    <3>1. sum \in 4..9 /\ ~(sum = 8 /\ a = 5)
      BY <1>1, <1>2, <2>2
    <3> HIDE DEF sum
    <3>2. StaysBelow(a, sum - a, sum)
      BY <1>1, <3>1, FewTokensStayBelow
    <3> QED BY <1>1, <1>2, <3>2
  <2> QED BY <1>1, <2>1, <2>2
<1>3. CASE d < sum
  <2>1. e \in Nat /\ sum = d + 1 + e
    BY <1>1, <1>3
  <2>2. m \in Nat /\ m >= 2 * sum + 1
    <3>1. m = 4 * (a * b) + 2 * sum + 1 /\ a * b \in Nat
      BY DEF Sides
    <3> HIDE DEF m
    <3> QED BY <3>1
  <2>3. ReachesValue(2, a, b, d + 1)
    <3> DEFINE y == d + 1
               missing == leverage * sum - (leverage - 1) * y
    <3>1. missing = (leverage - 2) * e + (2 * sum - (2 - 1) * y)
      BY <1>1, <2>1
    <3>2. (leverage - 2) * e >= 0
      <4>1. leverage - 2 \in Nat
        OBVIOUS
      <4> HIDE DEF e
      <4> QED BY <2>1, <4>1
    <3>3. missing >= 2 * sum - (2 - 1) * y /\ 2 * sum - (2 - 1) * y \in Nat /\ missing \in Nat
      BY <1>1, <2>1, <3>1, <3>2
    <3>4. missing * m < y * y * y
      BY DEF ReachesValue
    <3>5. missing * m >= (2 * sum - (2 - 1) * y) * m
      <4> DEFINE two == 2 * sum - (2 - 1) * y
      <4>1. missing >= two /\ two \in Nat
        BY <3>3
      <4> HIDE DEF missing, two, m
      <4>2. missing * m >= two * m
        BY <2>2, <3>3, <4>1, ProductMonotone
      <4> QED BY <4>2 DEF two
    <3>6. (2 * sum - (2 - 1) * y) * m < y * y * y
      <4> DEFINE two == 2 * sum - (2 - 1) * y
      <4>1. missing * m \in Int /\ two * m \in Int /\ y * y * y \in Int
        BY <1>1, <2>2, <3>3
      <4> HIDE DEF missing, two, m
      <4>2. two * m < y * y * y
        BY <3>4, <3>5, <4>1 DEF two
      <4> QED BY <4>2 DEF two
    <3> QED BY <3>6 DEF ReachesValue
  <2> HIDE DEF sum, e
  <2>4. b = d + 1 + e - a /\ a \in 0..(d + 1 + e) /\ a + b = d + 1 + e
    BY <1>1, <2>1
  <2>5. CASE e = 0 /\ d <= 21
    <3>1. sum \in 4..22 /\ sum - 1 = d /\ sum = d + 1
      BY <1>1, <2>1, <2>5
    <3>2. ReachesValue(2, a, sum - a, sum)
      BY <1>1, <2>3, <3>1
    <3>3. StaysBelow(a, sum - a, sum - 1)
      BY <1>1, <3>1, <3>2, FewTokensStayBelow
    <3> QED BY <1>1, <3>1, <3>3
  <2>6. CASE (e >= 1 /\ d >= 12) \/ (e = 0 /\ d >= 22)
    BY <1>1, <2>1, <2>3, <2>4, <2>6, SmallerStaysBelow
  <2>7. CASE e >= 1 /\ d <= 11
    <3>1. e <= 11
      <4> SUFFICES ASSUME e >= 12 PROVE FALSE
        BY <2>1
      <4>1. (2 * (a + b) - (2 - 1) * (d + 1)) * m < (d + 1) * (d + 1) * (d + 1)
        BY <2>3 DEF ReachesValue
      <4>2. 2 * (a + b) - (2 - 1) * (d + 1) >= d + 25 /\ m >= 2 * d + 27
        BY <1>1, <2>1, <2>2, <2>4
      <4> DEFINE n == 2 * (a + b) - (2 - 1) * (d + 1)
      <4>3. n \in Nat /\ n >= d + 25
        BY <1>1, <2>4, <4>2
      <4> HIDE DEF n, m
      <4>4. n * m >= (d + 25) * (2 * d + 27)
        BY <1>1, <2>2, <4>2, <4>3, ProductMonotone
      <4>5. n * m < (d + 1) * (d + 1) * (d + 1)
        BY <4>1 DEF n
      <4>6. n * m \in Nat
        BY <2>2, <4>3
      <4>7. d \in 1..11
        BY <1>1, <2>7
      <4>8. (d + 25) * (2 * d + 27) >= (d + 1) * (d + 1) * (d + 1)
        BY <4>7
      <4> QED BY <1>1, <4>4, <4>5, <4>6, <4>8
    <3>2. d \in 1..11 /\ e \in 1..11
      BY <1>1, <2>1, <2>7, <3>1
    <3> QED BY <2>3, <2>4, <3>2, FewTokensStayBelow
  <2>8. (e = 0 /\ d <= 21) \/ (e >= 1 /\ d >= 12) \/ (e = 0 /\ d >= 22) \/ (e >= 1 /\ d <= 11)
    BY <1>1, <2>1
  <2> QED BY <2>5, <2>6, <2>7, <2>8
<1> QED BY <1>1, <1>2, <1>3

(* The result of a round is this quotient.                                 *)
LEMMA StepIsQuotient ==
    ASSUME NEW leverage \in Nat, NEW a \in Nat, NEW b \in Nat, NEW d \in Nat,
           NEW next \in CalculateStep(leverage, a, b, d)
    PROVE  LET l_val == (leverage * (a + b) + 2 * DProduct(a, b, d)) * d
               r_val == (leverage - 1) * d + 3 * DProduct(a, b, d)
           IN  /\ leverage > 0 /\ d > 0 /\ next \in Nat /\ next = l_val \div r_val
               /\ l_val \in Nat /\ r_val \in Nat \ {0}
               /\ next * r_val <= l_val /\ l_val < (next + 1) * r_val
<1> DEFINE d_product == DProduct(a, b, d)
           l_val == (leverage * (a + b) + 2 * d_product) * d
           r_val == (leverage - 1) * d + 3 * d_product
<1>1. leverage > 0 /\ r_val > 0 /\ next = l_val \div r_val
  BY DEF CalculateStep, DProduct
<1>2. d_product \in Nat /\ d_product * Sides(a, b) <= d * d * d
  BY DProductBounds
<1>3. Sides(a, b) \in Nat /\ Sides(a, b) >= 1
  BY DEF Sides
<1>4. d # 0
  <2> SUFFICES ASSUME d = 0 PROVE FALSE
    OBVIOUS
  <2> DEFINE m == Sides(a, b)
  <2>1. d_product \in Nat /\ m \in Nat /\ m >= 1 /\ d_product * m <= 0
    BY <1>2, <1>3
  <2> HIDE DEF d_product, m
  <2>2. d_product >= 1 => d_product * m >= 1 * 1
    BY <2>1, ProductMonotone
  <2>3. d_product = 0
    BY <2>1, <2>2
  <2> QED BY <1>1, <2>3
<1> HIDE DEF d_product
<1>5. l_val \in Nat /\ r_val \in Nat \ {0}
  <2>1. (leverage - 1) * d \in Nat
    BY <1>1
  <2>2. leverage * (a + b) + 2 * d_product \in Nat
    BY <1>2
  <2> QED BY <1>1, <1>2, <2>1, <2>2
<1> HIDE DEF l_val, r_val
<1> DEFINE q == l_val \div r_val
<1>6. q \in Nat /\ l_val % r_val \in 0..(r_val - 1) /\ l_val = r_val * q + (l_val % r_val)
  BY <1>5, DivMod
<1> HIDE DEF q
<1>7. q * r_val <= l_val /\ l_val < (q + 1) * r_val
  BY <1>5, <1>6
<1>8. next = q
  BY <1>1 DEF q
<1>9. /\ leverage > 0 /\ d > 0 /\ next \in Nat /\ next = l_val \div r_val
      /\ l_val \in Nat /\ r_val \in Nat \ {0}
      /\ next * r_val <= l_val /\ l_val < (next + 1) * r_val
  BY <1>1, <1>4, <1>5, <1>6, <1>7, <1>8
<1> QED BY <1>9, Zenon DEF l_val, r_val, d_product

(* What two rounds keep between two sets, any even number of them keeps.   *)
LEMMA NewtonAlternates ==
    ASSUME NEW step \in [Nat -> SUBSET Nat], IsDeterministic(step),
           NEW K \in SUBSET Nat, NEW Other \in SUBSET Nat, NEW start \in K,
           \A x \in K : step[x] \subseteq Other,
           \A x \in Other : step[x] \subseteq K
    PROVE  Newton(step, start) \subseteq K
<1>1. PICK after : AreRounds(after, step) /\ Newton(step, start) = after[ITERATIONS][start]
  BY NewtonRounds
<1> DEFINE Kept == {n \in Nat : \A x \in K : after[2 * n][x] \subseteq K}
<1>2. 0 \in Kept
  BY <1>1 DEF AreRounds
<1>3. ASSUME NEW n \in Nat, n \in Kept PROVE n + 1 \in Kept
  <2> DEFINE even == 2 * n
  <2>1. even \in Nat /\ 2 * (n + 1) = (even + 1) + 1 /\ even + 1 \in Nat
    OBVIOUS
  <2>2. \A x \in K : after[even][x] \subseteq K
    BY <1>3
  <2> HIDE DEF even
  <2>3. ASSUME NEW x \in K, NEW p \in after[(even + 1) + 1][x] PROVE p \in K
    <3>1. PICK odd \in step[x] : p \in after[even + 1][odd]
      <4>1. x \in Nat
        OBVIOUS
      <4> QED BY <1>1, <2>1, <2>3, <4>1, RoundsGoOn
    <3>2. odd \in Other /\ odd \in Nat
      OBVIOUS
    <3>3. PICK next \in step[odd] : p \in after[even][next]
      BY <1>1, <2>1, <3>1, <3>2, RoundsGoOn
    <3> QED BY <2>2, <3>2, <3>3
  <2> QED BY <2>1, <2>3
<1>4. 16 \in Kept
  <2> HIDE DEF Kept
  <2> QED BY <1>2, <1>3, InductiveSet
<1>5. 2 * 16 = ITERATIONS
  BY DEF ITERATIONS
<1> QED BY <1>1, <1>4, <1>5

(* In a pool that alternates, the round after the next is back at the      *)
(* reserves: by computation, as these pools are few.                       *)
LEMMA AlternatesFromReserves ==
    LET Result(leverage, a, b, d) ==
            ((leverage * (a + b) + 2 * DProduct(a, b, d)) * d)
              \div ((leverage - 1) * d + 3 * DProduct(a, b, d))
    IN  \A leverage \in {2, 4}, a \in 0..5, b \in 0..3 :
           Alternates(leverage, a, b) /\ a + b > 0 =>
              Result(leverage, a, b, Result(leverage, a, b, a + b)) = a + b
BY SMTT(60) DEF Alternates, DProduct

(* The numbers within the reserves that reach the value, or are one short. *)
WithinReserves(leverage, a, b) ==
    {d \in 0..(a + b) : ReachesValue(leverage, a, b, d + 1)}

(* A round from there stays there, unless the pool alternates.             *)
LEMMA RoundStaysWithinReserves ==
    ASSUME NEW leverage \in Nat, leverage >= 2, NEW a \in Nat, NEW b \in Nat, ~Alternates(leverage, a, b),
           NEW d \in WithinReserves(leverage, a, b), NEW next \in CalculateStep(leverage, a, b, d)
    PROVE  next \in WithinReserves(leverage, a, b)
<1> DEFINE sum == a + b
           d_product == DProduct(a, b, d)
           l_val == (leverage * sum + 2 * d_product) * d
           r_val == (leverage - 1) * d + 3 * d_product
           slope == 3 * sum + 3 - 2 * d
           free == sum + 1 - leverage
<1>1. d \in Nat /\ d <= sum /\ ReachesValue(leverage, a, b, d + 1) /\ sum \in Nat
  BY DEF WithinReserves
<1>2. /\ next \in Nat /\ l_val \in Nat /\ r_val \in Nat \ {0} /\ d > 0
      /\ next * r_val <= l_val /\ l_val < (next + 1) * r_val
  BY <1>1, StepIsQuotient
<1>3. d_product \in Nat /\ d_product * Sides(a, b) <= d * d * d
  BY <1>1, DProductBounds
<1>4. ReachesValue(leverage, a, b, next + 1)
  <2>1. d \in Nat \ {0} /\ next + 1 \in Nat \ {0}
    BY <1>1, <1>2
  <2> QED BY <1>2, <1>3, <2>1, ResultReaches
<1>5. slope \in Nat /\ free \in Int /\ d_product * slope \in Nat
  <2>1. slope \in Nat /\ free \in Int
    BY <1>1
  <2> HIDE DEF slope, free, d_product
  <2> QED BY <1>3, <2>1
<1>6. d * free < d_product * slope
  <2>1. CASE leverage >= sum + 2
    <3>1. free < 0
      BY <1>1, <2>1
    <3> HIDE DEF free, slope, d_product
    <3>2. d * free < 0
      BY <1>1, <1>2, <1>5, <3>1
    <3> QED BY <1>1, <1>5, <3>2
  <2>2. CASE leverage < sum + 2
    <3>1. sum >= 4 /\ (a = 5 /\ b = 3 => leverage >= 3)
      BY <1>1, <2>2 DEF Alternates
    <3>2. CASE ~(a = 5 /\ b = 3 /\ d = 8)
      <4>1. StaysBelow(a, b, d)
        BY <1>1, <1>2, <3>1, <3>2, ReachedStaysBelow
      <4>2. d * (sum - 1) < d_product * slope
        BY <4>1 DEF StaysBelow
      <4>3. d * free <= d * (sum - 1)
        <5>1. free <= sum - 1 /\ sum - 1 \in Int
          BY <1>1
        <5> HIDE DEF free, sum
        <5> QED BY <1>1, <1>5, <5>1
      <4>4. d * free \in Int /\ d * (sum - 1) \in Int
        BY <1>1, <1>5
      <4> HIDE DEF free, slope, d_product
      <4> QED BY <1>5, <4>2, <4>3, <4>4
    <3>3. CASE a = 5 /\ b = 3 /\ d = 8
      <4>1. d_product = 5
        BY <3>3 DEF DProduct
      <4>2. free <= 6 /\ slope = 11 /\ d = 8
        BY <3>1, <3>3
      <4> HIDE DEF free, slope, d_product
      <4> QED BY <1>5, <4>1, <4>2
    <3> QED BY <3>2, <3>3
  <2> QED BY <1>1, <2>1, <2>2
<1>7. next <= sum
  <2>1. (sum + 1) * r_val - l_val = d_product * slope - d * free
    <3> HIDE DEF d_product, sum
    <3> QED BY <1>1, <1>3
  <2>2. l_val < (sum + 1) * r_val
    <3> HIDE DEF d_product, slope, free, l_val, r_val, sum
    <3> QED BY <1>1, <1>2, <1>5, <1>6, <2>1
  <2> HIDE DEF l_val, r_val, sum
  <2>3. next * r_val < (sum + 1) * r_val
    BY <1>1, <1>2, <2>2
  <2>4. next >= sum + 1 => next * r_val >= (sum + 1) * r_val
    BY <1>1, <1>2, ProductMonotone
  <2>5. next * r_val \in Nat /\ (sum + 1) * r_val \in Nat
    BY <1>1, <1>2
  <2> QED BY <1>1, <1>2, <2>3, <2>4, <2>5
<1> QED BY <1>2, <1>4, <1>7 DEF WithinReserves

(* The sum of the reserves reaches the value.                              *)
LEMMA ReservesReachValue ==
    ASSUME NEW leverage \in Nat, leverage >= 2, NEW a \in Nat, NEW b \in Nat
    PROVE  a + b \in WithinReserves(leverage, a, b)
<1> DEFINE y == a + b + 1
           m == Sides(a, b)
           missing == leverage * (a + b) - (leverage - 1) * y
<1>1. m = y * y - (a - b) * (a - b)
  BY DEF Sides
<1>2. (a - b) * (a - b) >= 0
  <2> DEFINE t == a - b
  <2>1. t \in Int
    OBVIOUS
  <2> HIDE DEF t
  <2>2. t * t >= 0
    BY <2>1
  <2> QED BY <2>2 DEF t
<1>3. m \in Nat /\ m > 0 /\ y \in Nat /\ y >= 1 /\ y * y \in Nat /\ m <= y * y
  <2>1. m \in Nat /\ m > 0
    BY DEF Sides
  <2>2. y \in Nat /\ y >= 1 /\ y * y \in Nat /\ (a - b) * (a - b) \in Int
    OBVIOUS
  <2> HIDE DEF m, y
  <2> QED BY <1>1, <1>2, <2>1, <2>2
<1>4. missing \in Int /\ missing <= y - 1
  <2>1. missing = y - leverage
    OBVIOUS
  <2> QED BY <1>3, <2>1
<1> HIDE DEF m, missing
<1>5. missing * m < y * (y * y)
  <2> HIDE DEF y
  <2>1. missing * m <= (y - 1) * m /\ missing * m \in Int
    BY <1>3, <1>4
  <2>2. (y - 1) * m <= (y - 1) * (y * y)
    <3> DEFINE s == y * y
    <3>1. s \in Nat /\ m <= s /\ y - 1 \in Nat
      BY <1>3
    <3> HIDE DEF s
    <3>2. (y - 1) * m <= (y - 1) * s
      BY <1>3, <3>1, ProductMonotone
    <3> QED BY <3>2 DEF s
  <2>3. (y - 1) * (y * y) < y * (y * y)
    <3>1. y * y >= 1 * 1
      BY <1>3, ProductMonotone
    <3> QED BY <1>3, <3>1
  <2> QED BY <1>3, <2>1, <2>2, <2>3
<1>6. ReachesValue(leverage, a, b, y)
  BY <1>5 DEF ReachesValue, missing, m
<1> QED BY <1>6 DEF WithinReserves

(* However its rounds end, d is within the reserves.                       *)
LEMMA StableValueIsWithin ==
    ASSUME NEW amp \in Nat, NEW a \in Nat, NEW b \in Nat, NEW d \in StableD(amp, a, b)
    PROVE  d <= a + b
<1> DEFINE leverage == 2 * amp
           step == [x \in Nat |-> CalculateStep(leverage, a, b, x)]
           K == WithinReserves(leverage, a, b)
<1>1. leverage \in Nat /\ a + b \in Nat
  OBVIOUS
<1>2. d \in ComputeD(leverage, a, b)
  BY DEF StableD, Leverage
<1>3. leverage # 2 => leverage = 0 \/ leverage >= 4
  OBVIOUS
<1>4. leverage < 5 => leverage \in {0, 2, 4}
  OBVIOUS
<1> HIDE DEF leverage
<1>5. step \in [Nat -> SUBSET Nat] /\ IsDeterministic(step)
  BY <1>1, CalculateStepIsOne
<1>6. CASE a + b = 0
  BY <1>2, <1>6 DEF ComputeD
<1>7. CASE a + b # 0
  <2>1. d \in Newton(step, a + b)
    BY <1>2, <1>7 DEF ComputeD
  <2>2. CASE leverage = 0
    <3> DEFINE Start == {a + b}
               None == {}
    <3>1. \A x \in Start : step[x] \subseteq None
      BY <1>1, <2>2, StepIsQuotient
    <3>2. Start \in SUBSET Nat /\ a + b \in Start /\ None \in SUBSET Nat
      BY <1>1
    <3>3. \A x \in None : step[x] \subseteq Start
      OBVIOUS
    <3>4. Newton(step, a + b) \subseteq Start
      <4> HIDE DEF step, Start, None
      <4> QED BY <1>5, <3>1, <3>2, <3>3, NewtonAlternates
    <3> QED BY <1>1, <2>1, <3>4
  <2>3. CASE leverage >= 2 /\ ~Alternates(leverage, a, b)
    <3>1. \A x \in K : step[x] \subseteq K
      BY <1>1, <2>3, RoundStaysWithinReserves DEF WithinReserves
    <3>2. a + b \in K /\ K \in SUBSET Nat
      BY <1>1, <2>3, ReservesReachValue DEF WithinReserves
    <3>3. Newton(step, a + b) \subseteq K
      <4> HIDE DEF step, K
      <4> QED BY <1>5, <3>1, <3>2, NewtonAlternates
    <3> QED BY <2>1, <3>3 DEF WithinReserves
  <2>4. CASE leverage >= 2 /\ Alternates(leverage, a, b)
    <3> DEFINE Result(x) == ((leverage * (a + b) + 2 * DProduct(a, b, x)) * x)
                            \div ((leverage - 1) * x + 3 * DProduct(a, b, x))
    <3>1. leverage \in {2, 4} /\ a \in 0..5 /\ b \in 0..3
      BY <1>1, <1>3, <1>4, <2>4 DEF Alternates
    <3>2. Result(Result(a + b)) = a + b
      BY <1>1, <1>7, <2>4, <3>1, AlternatesFromReserves
    <3>3. ASSUME NEW x \in Nat PROVE step[x] \subseteq {Result(x)}
      BY <1>1, StepIsQuotient
    <3> DEFINE Other == step[a + b]
    <3>4. Other \in SUBSET Nat
      BY <1>1, <1>5
    <3>5. \A x \in {a + b} : step[x] \subseteq Other
      OBVIOUS
    <3>6. \A x \in Other : step[x] \subseteq {a + b}
      <4> HIDE DEF step, Result
      <4> QED BY <1>1, <3>2, <3>3, <3>4
    <3>7. Newton(step, a + b) \subseteq {a + b}
      <4> HIDE DEF step, Other
      <4> QED BY <1>1, <1>5, <3>4, <3>5, <3>6, NewtonAlternates
    <3> QED BY <1>1, <2>1, <3>7
  <2>5. leverage = 0 \/ leverage >= 2
    BY <1>1, <1>3
  <2> QED BY <2>2, <2>3, <2>4, <2>5
<1> QED BY <1>6, <1>7

(* The invariant d never exceeds the sum of the reserves (stable.rs:       *)
(* compute_d), in pools of every size and amplifier.                       *)
THEOREM StableValueStaysWithinReserves == Spec => []StableValueWithinReserves
<1>1. TypeOK => StableValueWithinReserves
  <2> SUFFICES ASSUME TypeOK, curve.curve_type = "Stable",
                      NEW d \in StableD(curve.param, token_a, token_b)
               PROVE  d <= token_a + token_b
    BY DEF StableValueWithinReserves
  <2> QED BY TypeFacts, StableValueIsWithin
<1> QED BY <1>1, TypeCorrect, PTL
=============================================================================
