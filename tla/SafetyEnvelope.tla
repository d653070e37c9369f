--------------------------- MODULE SafetyEnvelope ---------------------------
(***************************************************************************)
(* The arithmetic of the power command: SafetyEnvelope::apply and the      *)
(* fixed-point register encoding of the cabinet driver.                    *)
(*                                                                         *)
(* Powers are integers counted in half register steps.  The cabinet's      *)
(* power registers count 0.1 kW, so one unit is 0.05 kW: the coarsest      *)
(* grid on which an operator's configured limit (a decimal number of the   *)
(* environment file) can fall between two register values and rounding     *)
(* matters.  Positive power discharges the battery, negative charges it.   *)
(***************************************************************************)
EXTENDS Integers

Smaller(a, b) == IF a <= b THEN a ELSE b
Larger(a, b)  == IF a >= b THEN a ELSE b
Clamp(v, lo, hi) == IF v < lo THEN lo ELSE IF v > hi THEN hi ELSE v

MinInt16 == -32768
MaxInt16 == 32767
Int16 == MinInt16 .. MaxInt16

(* A register holds 0.1 kW; decodeSigned(raw, 10.0) as a power. *)
DecodeSigned(raw) == 2 * raw

(* encodeSigned(power, 10.0): std::round, half away from zero, and the      *)
(* saturation to a signed 16-bit register.                                  *)
EncodeSigned(power) ==
    Clamp(IF power >= 0 THEN (power + 1) \div 2 ELSE -((1 - power) \div 2),
          MinInt16, MaxInt16)

-----------------------------------------------------------------------------
(* What the BMS reports: the two power limits as raw registers, whether its *)
(* state of charge lies in 0..100 %, and bits 0 and 1 of register 126.      *)
BmsReports == [maxCharge : Int16, maxDischarge : Int16, socInRange : BOOLEAN,
               chargeProhibited : BOOLEAN, dischargeProhibited : BOOLEAN]

LimitsValid(bms) ==
    bms.maxCharge >= 0 /\ bms.maxDischarge >= 0 /\ bms.socInRange

(* An optional limit is a set with at most one power.                       *)
Capped(power, caps) ==
    IF caps = {} THEN power
    ELSE Smaller(power, Larger(0, CHOOSE cap \in caps : TRUE))

(* lowerBoundKw and upperBoundKw: the BMS limits, cut by the configured     *)
(* limits and, when charging, by the headroom of the site contract.         *)
LowerBound(bms, chargeCap, headroom) ==
    IF bms.chargeProhibited THEN 0
    ELSE -Capped(Capped(Larger(0, DecodeSigned(bms.maxCharge)), chargeCap),
                 headroom)

(* Faulty variant: the configured discharge limit is forgotten.             *)
UpperBoundUncapped(bms, dischargeCap) ==
    IF bms.dischargeProhibited THEN 0
    ELSE Larger(0, DecodeSigned(bms.maxDischarge))

(* Faulty variant: bit 1 of register 126 is ignored.                        *)
UpperBoundUnprohibited(bms, dischargeCap) ==
    Capped(Larger(0, DecodeSigned(bms.maxDischarge)), dischargeCap)

UpperBound(bms, dischargeCap) ==
    IF bms.dischargeProhibited THEN 0
    ELSE Capped(Larger(0, DecodeSigned(bms.maxDischarge)), dischargeCap)

(* SafetyEnvelope::apply.  "good" is battery.quality == Good.               *)
Apply(request, battery, chargeCap, dischargeCap, headroom, emsConnected) ==
    IF emsConnected /\ battery.good /\ battery.limitsValid
         /\ battery.controlReady
    THEN Clamp(request, LowerBound(battery.bms, chargeCap, headroom),
                        UpperBound(battery.bms, dischargeCap))
    ELSE 0

(* Faulty variant: the prohibition bits are ignored.                        *)
DriverAcceptsProhibited(power, bms) ==
    /\ power < 0 => -power <= Larger(0, DecodeSigned(bms.maxCharge))
    /\ power > 0 => power <= Larger(0, DecodeSigned(bms.maxDischarge))

(* The second check, inside writePowerSetpointKw: its 1 W tolerance is less *)
(* than the unit of power, so on this grid it is the plain comparison.      *)
DriverAccepts(power, bms) ==
    /\ power < 0 => /\ ~bms.chargeProhibited
                    /\ -power <= Larger(0, DecodeSigned(bms.maxCharge))
    /\ power > 0 => /\ ~bms.dischargeProhibited
                    /\ power <= Larger(0, DecodeSigned(bms.maxDischarge))
=============================================================================
