------------------------------- MODULE Easing -------------------------------
(***************************************************************************)
(* The eased movements of the Renderer. A weight or an opacity is a number   *)
(* of 0 .. Scale. An eased curve is abstracted to its start, one level       *)
(* halfway and its end: with Scale a power of two, no product is rounded     *)
(* however often a movement is interrupted within the bounds.               *)
(***************************************************************************)
EXTENDS Integers

CONSTANT Scale \* the weight 1.0

ASSUME EasingAssumption == Scale \in Nat \ {0}

Level(elapsed, duration) ==
  IF elapsed <= 0 THEN 0 ELSE IF elapsed >= duration THEN Scale ELSE Scale \div 2

\* mutant: away from the target
MixBackwards(from, to, level) == from - ((to - from) * level) \div Scale

Mix(from, to, level) == from + ((to - from) * level) \div Scale

Distance(a, b) == IF a <= b THEN b - a ELSE a - b

=============================================================================
