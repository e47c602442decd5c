--------------------------- MODULE ProgressMotion ---------------------------
(* ProgressMotion of progress_motion.rs: how the fill of the progress rail   *)
(* travels to where a snapshot puts it. A motion is a record, its operations *)
(* are operators; a fraction is a number of 0 .. Scale.                     *)
EXTENDS ReplacementFade

CONSTANT JumpTolerance \* of a position: a smaller jump is not travelled

ASSUME ProgressAssumption == JumpTolerance \in Nat

StillProgress == [destination |-> 0, travel |-> None, sample |-> None]

Fraction(m, t) ==
  IF m.travel = None THEN m.destination
  ELSE Mix(m.travel.from, m.destination, Level(t - m.travel.at, m.travel.time))

Travelling(m, t) == m.travel # None /\ t < m.travel.at + m.travel.time

(* The whole way takes Phase, a part of it its share.                       *)
TravelTime(distance) == (distance * Phase + Scale - 1) \div Scale

\* mutant: a corrected duration is not travelled
OnlyJumps(s, p, fraction, revision, t) ==
  \/ (s.fraction = None) # (fraction = None)
  \/ /\ s.revision # revision /\ s.position # None /\ p.position # None
     /\ Distance(p.position, s.position + (IF s.advancing THEN t - s.at ELSE 0)) > JumpTolerance

(* Whether the fraction changes otherwise than with the clock.              *)
Discontinuous(s, p, fraction, revision, t) ==
  \/ (s.fraction = None) # (fraction = None)
  \/ /\ s.revision # revision /\ s.position # None /\ p.position # None
     /\ \/ Distance(p.position, s.position + (IF s.advancing THEN t - s.at ELSE 0)) > JumpTolerance
        \/ /\ fraction # None /\ s.fraction # None /\ s.position > 0
           /\ fraction * s.position # s.fraction * p.position

(* observe                                                                 *)
Observed(m, p, revision, t, animated, replacement) ==
  LET fraction == p.fraction
      from == Fraction(m, t)
      destination == IF fraction = None THEN 0 ELSE fraction
      travels == replacement \/ (m.sample # None /\ Discontinuous(m.sample, p, fraction, revision, t))
  IN [destination |-> destination,
      travel |-> IF ~animated \/ (m.sample = None /\ ~replacement) THEN None
                 ELSE IF travels
                 THEN IF destination = from THEN None
                      ELSE [from |-> from, at |-> t, time |-> TravelTime(Distance(from, destination))]
                 ELSE IF Travelling(m, t) THEN m.travel ELSE None,
      sample |-> [revision |-> revision, position |-> p.position, fraction |-> fraction,
                  advancing |-> p.status = "playing", at |-> t]]

=============================================================================
