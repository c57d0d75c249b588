------------------------------ MODULE TrustScore ------------------------------
(***************************************************************************)
(* How a snapshot of measurements becomes a trust score and a decision     *)
(* (trust/normalization.py, trust/trust_engine.py,                         *)
(* verification/trigger_engine.py, lifecycle/key_controller.py).           *)
(*                                                                         *)
(* The code computes in floating point.  Here a score is an integer number *)
(* of hundred-thousandths of a point, rounded down at each division, and a *)
(* measurement is an integer number of thirtieths of its baseline.         *)
(***************************************************************************)
EXTENDS Integers

Point == 100000
Full == 100 * Point
Half == 50 * Point    \* the score of a measurement that is missing
Score == 0 .. Full

Missing == -1
Part == 30
NormalRatio == 45     \* 1.5 times the baseline
SevereRatio == 120    \* 4 times the baseline

Signals == {"handshake", "rtt", "continuity", "timing", "renegotiation"}

-------------------------------------------------------------------------------
(* Normalisation                                                              *)

Smaller(a, b) == IF a <= b THEN a ELSE b
Larger(a, b) == IF a >= b THEN a ELSE b

(* Mutant: the ramp is not cut off.                                           *)
RampOpen(v, normal, severe) ==
    IF v = Missing THEN Half ELSE (Full * (severe - v)) \div (severe - normal)

Ramp(v, normal, severe) ==
    IF v = Missing THEN Half
    ELSE IF v <= normal THEN Full
    ELSE IF v >= severe THEN 0
    ELSE (Full * (severe - v)) \div (severe - normal)

Relative(v) == Ramp(v, NormalRatio, SevereRatio)

RttScore(latest, variation) ==
    IF variation = Missing THEN Relative(latest)
    ELSE Smaller(Relative(latest), Relative(variation))

ContinuityScore(address, expected) ==
    IF "unknown" \in {address, expected} THEN Half
    ELSE IF address = expected THEN Full ELSE 0

(* Bursts are as unusual as gaps; an interval of nothing at all is severe.    *)
TimingScore(interval) ==
    IF interval = 0 THEN 0
    ELSE IF interval = Missing THEN Half
    ELSE Relative(Larger(interval, (Part * Part) \div interval))

(* One establishment a minute is normal, eight are severe.                    *)
EstablishmentScore(count) == Ramp(count, Part, 8 * Part)

Normalized(raw, expected) ==
    [handshake |-> Relative(raw.handshake),
     rtt |-> RttScore(raw.rtt, raw.variation),
     continuity |-> ContinuityScore(raw.address, expected),
     timing |-> TimingScore(raw.timing),
     renegotiation |-> EstablishmentScore(raw.establishments)]

-------------------------------------------------------------------------------
(* TrustEngine: alpha and the weights are hundredths.                         *)

EqualWeights == [s \in Signals |-> 20]
Initial == 45 * Point
VerifiedFloor == 75 * Point

Current(weights, scores) ==
    (weights["handshake"] * scores.handshake + weights["rtt"] * scores.rtt
     + weights["continuity"] * scores.continuity + weights["timing"] * scores.timing
     + weights["renegotiation"] * scores.renegotiation) \div 100

(* Mutant: alpha weighs the past.                                             *)
AssessedSwapped(alpha, score, current) ==
    ((100 - alpha) * current + alpha * score) \div 100

Assessed(alpha, score, current) == (alpha * current + (100 - alpha) * score) \div 100

(* Mutant: a comparison starts trust from the floor.                          *)
Reset(score) == VerifiedFloor

Floored(score) == Larger(score, VerifiedFloor)

-------------------------------------------------------------------------------
(* Decision                                                                   *)

DefaultTrigger == [high |-> 80 * Point, low |-> 50 * Point, drop |-> 10 * Point]

(* Mutant: a good absolute score masks a sharp drop.                          *)
DecideByLevel(trigger, score, delta, verified) ==
    IF ~verified THEN "new_relationship"
    ELSE IF score < trigger.low THEN "low_trust"
    ELSE IF score >= trigger.high THEN "trusted" ELSE "normal"

(* Mutant: any large change is a drop.                                        *)
DecideBySize(trigger, score, delta, verified) ==
    IF delta <= -trigger.drop \/ delta >= trigger.drop THEN "sudden_drop"
    ELSE IF ~verified THEN "new_relationship"
    ELSE IF score < trigger.low THEN "low_trust"
    ELSE IF score >= trigger.high THEN "trusted" ELSE "normal"

(* decide of a guard that is not restricted: the reason                       *)
Decide(trigger, score, delta, verified) ==
    IF delta <= -trigger.drop THEN "sudden_drop"
    ELSE IF ~verified THEN "new_relationship"
    ELSE IF score < trigger.low THEN "low_trust"
    ELSE IF score >= trigger.high THEN "trusted" ELSE "normal"

Asking == {"sudden_drop", "new_relationship", "low_trust", "rotation"}

KeyAction(reason, success, old) ==
    IF reason \in Asking
    THEN IF success THEN "REESTABLISH_KEY" ELSE "RESTRICT_SESSION"
    ELSE IF old THEN "STANDARD_ROTATION" ELSE "KEEP_CURRENT_KEY"
===============================================================================
