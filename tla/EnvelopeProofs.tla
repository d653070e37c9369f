---------------------------- MODULE EnvelopeProofs ---------------------------
(***************************************************************************)
(* Lemmas about the arithmetic of the power command.                       *)
(***************************************************************************)
EXTENDS SafetyEnvelope, TLAPS

(* What \div 2 returns. *)
LEMMA Half ==
    ASSUME NEW n \in Int
    PROVE  n \div 2 \in Int /\ 2 * (n \div 2) <= n /\ n < 2 * (n \div 2) + 2
  BY SMT

LEMMA Int16Facts ==
    /\ MinInt16 \in Int /\ MaxInt16 \in Int
    /\ MinInt16 < 0 /\ 0 < MaxInt16 /\ MinInt16 < -MaxInt16
  BY DEF MinInt16, MaxInt16

(* std::clamp between ordered bounds. *)
LEMMA ClampFacts ==
    ASSUME NEW v \in Int, NEW lo \in Int, NEW hi \in Int, lo <= hi
    PROVE  /\ Clamp(v, lo, hi) \in Int
           /\ lo <= Clamp(v, lo, hi) /\ Clamp(v, lo, hi) <= hi
           /\ v <= hi /\ lo <= v => Clamp(v, lo, hi) = v
           /\ v < lo => Clamp(v, lo, hi) = lo
           /\ v > hi => Clamp(v, lo, hi) = hi
  BY DEF Clamp

(* std::round of half of a power, half away from zero. *)
Rounded(power) ==
    IF power >= 0 THEN (power + 1) \div 2 ELSE -((1 - power) \div 2)

LEMMA RoundedFacts ==
    ASSUME NEW power \in Int
    PROVE  /\ Rounded(power) \in Int
           /\ power >= 0 => /\ power <= 2 * Rounded(power)
                            /\ 2 * Rounded(power) <= power + 1
           /\ power < 0  => /\ power - 1 <= 2 * Rounded(power)
                            /\ 2 * Rounded(power) <= power
  <1>1. CASE power >= 0
    <2>1. Rounded(power) = (power + 1) \div 2
      BY <1>1 DEF Rounded
    <2> QED
      BY <1>1, <2>1, Half
  <1>2. CASE power < 0
    <2>1. Rounded(power) = -((1 - power) \div 2)
      BY <1>2 DEF Rounded
    <2>2. (1 - power) \div 2 \in Int /\ 2 * ((1 - power) \div 2) <= 1 - power
            /\ 1 - power < 2 * ((1 - power) \div 2) + 2
      BY Half
    <2> QED
      BY <1>2, <2>1, <2>2
  <1> QED
    BY <1>1, <1>2

LEMMA EncodeIsClampedRounded ==
    ASSUME NEW power \in Int
    PROVE  EncodeSigned(power) = Clamp(Rounded(power), MinInt16, MaxInt16)
  BY DEF EncodeSigned, Rounded

(* The encoding yields a signed 16-bit register. *)
LEMMA EncodeType ==
    ASSUME NEW power \in Int
    PROVE  EncodeSigned(power) \in Int16
  <1> DEFINE e == Rounded(power)
  <1>1. e \in Int
    BY RoundedFacts
  <1>2. EncodeSigned(power) = Clamp(e, MinInt16, MaxInt16)
    BY EncodeIsClampedRounded
  <1> HIDE DEF e
  <1>3. Clamp(e, MinInt16, MaxInt16) \in MinInt16 .. MaxInt16
    BY <1>1, Int16Facts DEF Clamp
  <1> QED
    BY <1>2, <1>3 DEF Int16

(* Rounding never crosses a bound that is itself a register value, and never
   changes the direction of the power. *)
LEMMA EncodeBound ==
    ASSUME NEW power \in Int, NEW raw \in Int16, raw >= 0
    PROVE  /\ power <= 2 * raw => EncodeSigned(power) <= raw
           /\ -power <= 2 * raw => -EncodeSigned(power) <= raw
           /\ power <= 0 => EncodeSigned(power) <= 0
           /\ power >= 0 => EncodeSigned(power) >= 0
  <1> DEFINE e == Rounded(power)
             c == EncodeSigned(power)
  <1>1. /\ e \in Int
        /\ power >= 0 => power <= 2 * e /\ 2 * e <= power + 1
        /\ power < 0  => power - 1 <= 2 * e /\ 2 * e <= power
    BY RoundedFacts
  <1>2. c = Clamp(e, MinInt16, MaxInt16)
    BY EncodeIsClampedRounded
  <1> HIDE DEF e, c
  <1>3. /\ c \in Int
        /\ e > MaxInt16 => c = MaxInt16
        /\ e < MinInt16 => c = MinInt16
        /\ e >= MinInt16 /\ e <= MaxInt16 => c = e
    BY <1>1, <1>2, Int16Facts DEF Clamp
  <1>4. raw \in Int /\ raw <= MaxInt16 /\ -raw >= MinInt16
    BY Int16Facts DEF Int16
  <1>5. /\ power <= 2 * raw => c <= raw
        /\ -power <= 2 * raw => -c <= raw
        /\ power <= 0 => c <= 0
        /\ power >= 0 => c >= 0
    BY <1>1, <1>3, <1>4, Int16Facts
  <1> QED
    BY <1>5 DEF c

(* Rounding is monotone. *)
LEMMA EncodeMonotone ==
    ASSUME NEW p \in Int, NEW q \in Int, p <= q
    PROVE  EncodeSigned(p) <= EncodeSigned(q)
  <1> DEFINE a == Rounded(p)
             b == Rounded(q)
  <1>1. /\ a \in Int
        /\ p >= 0 => p <= 2 * a /\ 2 * a <= p + 1
        /\ p < 0  => p - 1 <= 2 * a /\ 2 * a <= p
    BY RoundedFacts
  <1>2. /\ b \in Int
        /\ q >= 0 => q <= 2 * b /\ 2 * b <= q + 1
        /\ q < 0  => q - 1 <= 2 * b /\ 2 * b <= q
    BY RoundedFacts
  <1>3. /\ EncodeSigned(p) = Clamp(a, MinInt16, MaxInt16)
        /\ EncodeSigned(q) = Clamp(b, MinInt16, MaxInt16)
    BY EncodeIsClampedRounded
  <1> HIDE DEF a, b
  <1>4. a <= b
    BY <1>1, <1>2
  <1>5. Clamp(a, MinInt16, MaxInt16) <= Clamp(b, MinInt16, MaxInt16)
    BY <1>1, <1>2, <1>4, Int16Facts DEF Clamp
  <1> QED
    BY <1>3, <1>5

(* A register value survives the way through kilowatts and back. *)
LEMMA RoundTrip ==
    ASSUME NEW raw \in Int16
    PROVE  EncodeSigned(DecodeSigned(raw)) = raw
  <1> DEFINE p == DecodeSigned(raw)
             e == Rounded(p)
  <1>1. raw \in Int /\ MinInt16 <= raw /\ raw <= MaxInt16
    BY Int16Facts DEF Int16
  <1>2. p = 2 * raw /\ p \in Int
    BY <1>1 DEF DecodeSigned
  <1>3. EncodeSigned(p) = Clamp(e, MinInt16, MaxInt16)
    BY <1>2, EncodeIsClampedRounded
  <1>4. /\ e \in Int
        /\ p >= 0 => p <= 2 * e /\ 2 * e <= p + 1
        /\ p < 0  => p - 1 <= 2 * e /\ 2 * e <= p
    BY <1>2, RoundedFacts
  <1> HIDE DEF p, e
  <1>5. e = raw
    BY <1>1, <1>2, <1>4
  <1>6. Clamp(raw, MinInt16, MaxInt16) = raw
    BY <1>1, Int16Facts DEF Clamp
  <1> QED
    BY <1>3, <1>5, <1>6 DEF p
=============================================================================
