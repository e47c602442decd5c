------------------------- MODULE SelectiveForeground -------------------------
(***************************************************************************)
(* SelectiveForeground of selective_foreground.rs: each field of a Now       *)
(* Playing presentation departs when its value changes, waits unseen for the *)
(* text of the destination, and is revealed with it. A foreground is a       *)
(* function from the fields to records; its operations are operators. What   *)
(* a field has drawn is its value: where its sprites are is left out, except *)
(* that they take Phase to move.                                           *)
(***************************************************************************)
EXTENDS ReplacementFade

(* A departure is told from none.                                          *)
Departures == [at : Int, from : 0 .. Scale]

ASSUME DepartureAssumption == None \notin Departures

AllFields == Fields \cup {"status", "zone", "furniture"}

(* Field::value                                                            *)
FieldValue(f, p) ==
  IF ~NowPlaying(p) THEN "absent"
  ELSE IF f = "status" THEN p.status
  ELSE IF f = "zone" THEN p.zone
  ELSE IF f = "furniture" THEN f ELSE p.fields[f]

NewForeground(p) ==
  [f \in AllFields |->
     [displayed |-> FieldValue(f, p), target |-> FieldValue(f, p), departure |-> None, reveal |-> None,
      opacity |-> Scale, visible |-> None, movement |-> None, reflow |-> "none"]]

\* mutant: every change departs from full opacity
DepartedAnew(s, target, t, animated) ==
  IF ~animated THEN [s EXCEPT !.displayed = target, !.target = target, !.departure = None, !.reveal = None,
                              !.movement = None, !.opacity = Scale]
  ELSE IF s.target = target THEN s
  ELSE [s EXCEPT !.target = target, !.departure = [at |-> t, from |-> Scale], !.reveal = None]

(* request, for one field                                                  *)
RequestedField(s, target, t, animated) ==
  IF ~animated
  THEN [s EXCEPT !.displayed = target, !.target = target, !.departure = None, !.reveal = None,
                 !.movement = None, !.opacity = Scale]
  ELSE IF s.target = target THEN s
  ELSE IF target = s.displayed
  THEN [s EXCEPT !.target = target, !.departure = None, !.reveal = [at |-> t, from |-> s.opacity]]
  ELSE IF s.departure = None
  THEN [s EXCEPT !.target = target, !.departure = [at |-> t, from |-> s.opacity], !.reveal = None]
  ELSE [s EXCEPT !.target = target]

RequestFields(fs, p, t, animated) ==
  [f \in AllFields |-> RequestedField(fs[f], FieldValue(f, p), t, animated)]

\* mutant: what is revealed need not be prepared yet
RevealUnprepared(s, value, t) == s.departure # None => t - s.departure.at >= Phase

(* A departing field is gone, and what it is to show is presented.          *)
MayReveal(s, value, t) == s.departure # None => t - s.departure.at >= Phase /\ value = s.target

Revealed(s, t) ==
  IF s.departure = None THEN s
  ELSE [s EXCEPT !.displayed = s.target, !.departure = None, !.reveal = [at |-> t, from |-> 0], !.opacity = 0,
                 !.movement = None, !.reflow = "replacement"]

(* reveal_prepared: all that has changed is revealed together.             *)
RevealPrepared(fs, p, t) ==
  IF \A f \in AllFields : MayReveal(fs[f], FieldValue(f, p), t)
  THEN [f \in AllFields |-> Revealed(fs[f], t)] ELSE fs

RevealAll(fs, t) == [f \in AllFields |-> [fs[f] EXCEPT !.opacity = 0, !.reveal = [at |-> t, from |-> 0]]]

Reflowed(fs) == [f \in AllFields |-> [fs[f] EXCEPT !.reflow = "retained"]]

(* departure_deadline: the instants at which departures are over.           *)
Deadlines(fs) == {fs[f].departure.at + Phase : f \in {g \in AllFields : fs[g].departure # None}}

(* apply, for one field: a departing field, and one whose value the scene    *)
(* does not show yet, keeps what it has drawn.                             *)
AppliedField(s, value, sprite, departing, t, animated) ==
  LET holding == \/ s.departure # None \/ value # s.displayed
                 \/ departing /\ s.reflow = "retained"
      departed == IF s.departure = None THEN s.opacity
                  ELSE Mix(s.departure.from, 0, Level(t - s.departure.at, Phase))
      moves == ~holding /\ s.reflow # "none"
      movement == IF moves /\ animated /\ (s.visible = None) = (sprite = None) THEN t ELSE s.movement
  IN [s EXCEPT
        !.opacity = IF s.reveal = None THEN departed
                    ELSE Mix(s.reveal.from, Scale, Level(t - s.reveal.at, Phase)),
        !.reveal = IF s.reveal # None /\ t - s.reveal.at >= Phase THEN None ELSE @,
        !.visible = IF holding THEN @ ELSE sprite,
        !.reflow = IF moves THEN "none" ELSE @,
        !.movement = IF ~holding /\ movement # None /\ t - movement >= Phase THEN None ELSE movement]

(* apply; sprites are the values of the prepared text.                      *)
ApplyFields(fs, sprites, p, t, animated) ==
  LET revealed  == RevealPrepared(fs, p, t)
      departing == \E f \in AllFields : revealed[f].departure # None
  IN [f \in AllFields |-> AppliedField(revealed[f], FieldValue(f, p), sprites[f], departing, t, animated)]

ForegroundActive(fs) ==
  \E f \in AllFields : fs[f].departure # None \/ fs[f].reveal # None \/ fs[f].movement # None

=============================================================================
