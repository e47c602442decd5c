--------------------------- MODULE ReplacementFade ---------------------------
(* ReplacementFade of transition.rs: a value that fades out, is replaced     *)
(* while it is invisible, and fades in. A fade is a record, its operations   *)
(* are operators.                                                          *)
EXTENDS PresentationValues, Easing

CONSTANT Phase \* FADE_PHASE_DURATION, and PHASE of native_view.rs

ASSUME FadeAssumption == Phase \in Nat \ {0}

NewFade(value) == [displayed |-> value, pending |-> None, at |-> None, from |-> Scale, opacity |-> Scale]

(* advance                                                                 *)
Advanced(f, t) ==
  LET level == Level(t - f.at, Phase)
      over  == t - f.at >= Phase
  IN IF f.at = None THEN f
     ELSE IF f.pending = None
     THEN [f EXCEPT !.opacity = Mix(f.from, Scale, level), !.at = IF over THEN None ELSE @]
     ELSE IF over
     THEN [displayed |-> f.pending, pending |-> None, at |-> t, from |-> 0, opacity |-> 0]
     ELSE [f EXCEPT !.opacity = Mix(f.from, 0, level)]

(* update                                                                  *)
Faded(f, target, t, animated) ==
  IF ~animated THEN NewFade(target)
  ELSE Advanced(IF target = (IF f.pending = None THEN f.displayed ELSE f.pending) THEN f
                ELSE [f EXCEPT !.pending = IF target = f.displayed THEN None ELSE target,
                               !.at = t, !.from = f.opacity], t)

(* retarget: a departure goes on towards the latest value.                  *)
Retargeted(f, target, t, animated) ==
  IF animated /\ f.pending # None /\ target # f.displayed
  THEN Advanced([f EXCEPT !.pending = target], t) ELSE Faded(f, target, t, animated)

FadeActive(f) == f.at # None

=============================================================================
