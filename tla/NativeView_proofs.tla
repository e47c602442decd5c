-------------------------- MODULE NativeView_proofs --------------------------
(***************************************************************************)
(* The proofs of the fields of NativeView: what is drawn of a field was       *)
(* presented, and from frame to frame no obsolete destination appears, for     *)
(* all presentations, fields, durations and weights.                        *)
(*                                                                         *)
(* The argument is that of a field. Whatever is done to it between two frames *)
(* (asked for, asked again by a replacement, given what was prepared, asked   *)
(* by what is observed), it is either Kept, showing what it did though it may *)
(* have begun to depart, or Anew, waiting unseen for what is drawn next. That  *)
(* a frame draws what the field was asked for needs the worker's text and the  *)
(* presentation to agree (ContentInv): both are known by the same key.        *)
(***************************************************************************)
EXTENDS NativeView, TLAPS

(* A level is one of three.                                                *)
LEMMA LevelRange ==
  ASSUME NEW elapsed, NEW duration
  PROVE  Level(elapsed, duration) \in {0, Scale \div 2, Scale} /\ Level(elapsed, duration) \in 0..Scale
<1>1. Scale \div 2 \in 0..Scale
  BY EasingAssumption
<1>. QED BY <1>1, EasingAssumption DEF Level

(* A level never falls.                                                    *)
LEMMA LevelGrows ==
  ASSUME NEW a \in Int, NEW b \in Int, a <= b
  PROVE  Level(a, Phase) <= Level(b, Phase)
<1>1. Scale \div 2 \in 0..Scale
  BY EasingAssumption
<1>. QED BY <1>1, EasingAssumption, FadeAssumption DEF Level

(* A quotient lies between the bounds of its dividend.                     *)
LEMMA QuotientBetween ==
  ASSUME NEW lower \in Int, NEW upper \in Int, NEW x \in Int, lower * Scale <= x, x <= upper * Scale
  PROVE  x \div Scale \in lower..upper
<1> DEFINE q == x \div Scale
<1>1. q \in Int /\ Scale * q <= x /\ x < Scale * q + Scale
  BY EasingAssumption
<1> HIDE DEF q
<1>2. lower <= q
  <2>1. CASE q < lower
    <3>1. q + 1 <= lower
      BY <1>1, <2>1
    <3>2. Scale * (q + 1) <= Scale * lower
      BY <1>1, <3>1, EasingAssumption
    <3>. QED BY <1>1, <3>2, EasingAssumption
  <2>. QED BY <1>1, <2>1
<1>3. q <= upper
  <2>1. CASE q > upper
    <3>1. q >= upper + 1
      BY <1>1, <2>1
    <3>2. Scale * q >= Scale * (upper + 1)
      BY <1>1, <3>1, EasingAssumption
    <3>. QED BY <1>1, <3>2, EasingAssumption
  <2>. QED BY <1>1, <2>1
<1>. QED BY <1>1, <1>2, <1>3 DEF q

(* A quotient grows with its dividend.                                      *)
LEMMA QuotientGrows ==
  ASSUME NEW x \in Int, NEW y \in Int, x <= y
  PROVE  x \div Scale <= y \div Scale
<1> DEFINE q == x \div Scale
           r == y \div Scale
<1>1. q \in Int /\ Scale * q <= x /\ x < Scale * q + Scale
  BY EasingAssumption
<1>2. r \in Int /\ Scale * r <= y /\ y < Scale * r + Scale
  BY EasingAssumption
<1> HIDE DEF q, r
<1>3. CASE r < q
  <2>1. r + 1 <= q
    BY <1>1, <1>2, <1>3
  <2>2. Scale * (r + 1) <= Scale * q
    BY <1>1, <1>2, <2>1, EasingAssumption
  <2>. QED BY <1>1, <1>2, <2>2, EasingAssumption
<1>. QED BY <1>1, <1>2, <1>3 DEF q, r

(* What fades out is never brighter than it was, and fades in the meantime. *)
LEMMA FadesOut ==
  ASSUME NEW from \in 0..Scale, NEW a \in 0..Scale, NEW b \in 0..Scale, a <= b
  PROVE  /\ Mix(from, 0, a) \in 0..from
         /\ Mix(from, 0, b) <= Mix(from, 0, a)
<1> DEFINE x == (0 - from) * a
           y == (0 - from) * b
<1>1. x \in Int /\ y \in Int /\ from \in Int /\ 0 - from \in Int
  OBVIOUS
<1>2. y <= x
  <2>1. from * a <= from * b
    BY EasingAssumption
  <2>. QED BY <2>1, <1>1
<1>3. (0 - from) * Scale <= x /\ x <= 0 * Scale
  <2>1. from * a <= from * Scale /\ 0 <= from * a
    BY EasingAssumption
  <2>. QED BY <2>1, <1>1, EasingAssumption
<1>4. x \div Scale \in (0 - from)..0
  <2> HIDE DEF x
  <2>. QED BY <1>1, <1>3, QuotientBetween
<1>5. y \div Scale <= x \div Scale
  <2> HIDE DEF x, y
  <2>. QED BY <1>1, <1>2, QuotientGrows
<1>6. y \div Scale \in Int
  BY <1>1, EasingAssumption
<1>7. Mix(from, 0, a) = from + x \div Scale /\ Mix(from, 0, b) = from + y \div Scale
  BY DEF Mix
<1> HIDE DEF x, y
<1>. QED BY <1>4, <1>5, <1>6, <1>7

(* What fades in is never fainter than it was.                              *)
LEMMA FadesIn ==
  ASSUME NEW from \in 0..Scale, NEW a \in 0..Scale
  PROVE  Mix(from, Scale, a) \in from..Scale
<1> DEFINE x == (Scale - from) * a
<1>1. x \in Int /\ Scale - from \in Nat
  BY EasingAssumption
<1>2. 0 * Scale <= x /\ x <= (Scale - from) * Scale
  BY <1>1, EasingAssumption
<1>3. x \div Scale \in 0..(Scale - from)
  <2> HIDE DEF x
  <2>. QED BY <1>1, <1>2, QuotientBetween
<1>4. Mix(from, Scale, a) = from + x \div Scale
  BY DEF Mix
<1> HIDE DEF x
<1>. QED BY <1>3, <1>4, EasingAssumption

-----------------------------------------------------------------------------
(* One field                                                               *)

(* A record of the components of a field.                                   *)
Shape(s) ==
  s = [displayed |-> s.displayed, target |-> s.target, departure |-> s.departure, reveal |-> s.reveal,
       opacity |-> s.opacity, visible |-> s.visible, movement |-> s.movement, reflow |-> s.reflow]

(* A field that does not depart displays what it is asked for; one that     *)
(* does is not revealed.                                                   *)
FieldInv(s) ==
  /\ Shape(s)
  /\ s.opacity \in 0..Scale
  /\ s.departure = None => s.displayed = s.target
  /\ s.departure # None => s.reveal = None /\ s.departure \in Departures
  /\ s.reveal # None => s.reveal.from \in 0..Scale

(* What departs is as far gone as it should be at a time.                   *)
Gone(s, t) == s.departure # None => s.opacity = Mix(s.departure.from, 0, Level(t - s.departure.at, Phase))

(* What a request makes of a field, at once without animations.            *)
LEMMA RequestedStill ==
  ASSUME NEW s, FieldInv(s), NEW target, NEW t
  PROVE  LET r == RequestedField(s, target, t, FALSE)
         IN r = [displayed |-> target, target |-> target, departure |-> None, reveal |-> None,
                 opacity |-> Scale, visible |-> s.visible, movement |-> None, reflow |-> s.reflow]
<1>. DEFINE r == RequestedField(s, target, t, FALSE)
<1>1. PICK a : a = [s EXCEPT !.displayed = target]
  OBVIOUS
<1>2. PICK b : b = [a EXCEPT !.target = target]
  OBVIOUS
<1>3. PICK c : c = [b EXCEPT !.departure = None]
  OBVIOUS
<1>4. PICK d : d = [c EXCEPT !.reveal = None]
  OBVIOUS
<1>5. PICK e : e = [d EXCEPT !.movement = None]
  OBVIOUS
<1>6. r = [e EXCEPT !.opacity = Scale]
  BY <1>1, <1>2, <1>3, <1>4, <1>5, Zenon DEF RequestedField
<1>7. a = [displayed |-> target, target |-> s.target, departure |-> s.departure, reveal |-> s.reveal,
           opacity |-> s.opacity, visible |-> s.visible, movement |-> s.movement, reflow |-> s.reflow]
  BY <1>1 DEF FieldInv, Shape
<1>8. d = [displayed |-> target, target |-> target, departure |-> None, reveal |-> None,
           opacity |-> s.opacity, visible |-> s.visible, movement |-> s.movement, reflow |-> s.reflow]
  BY <1>7, <1>2, <1>3, <1>4
<1>9. r = [displayed |-> target, target |-> target, departure |-> None, reveal |-> None,
           opacity |-> Scale, visible |-> s.visible, movement |-> None, reflow |-> s.reflow]
  BY <1>8, <1>5, <1>6
<1>. QED BY <1>9

(* What an animated request makes of it.                                   *)
RequestOf(s, target, t, r) ==
  \/ r = s /\ s.target = target
  \/ /\ target = s.displayed
     /\ r = [displayed |-> s.displayed, target |-> target, departure |-> None,
             reveal |-> [at |-> t, from |-> s.opacity],
             opacity |-> s.opacity, visible |-> s.visible, movement |-> s.movement, reflow |-> s.reflow]
  \/ /\ target # s.displayed /\ s.departure = None
     /\ r = [displayed |-> s.displayed, target |-> target, departure |-> [at |-> t, from |-> s.opacity],
             reveal |-> None,
             opacity |-> s.opacity, visible |-> s.visible, movement |-> s.movement, reflow |-> s.reflow]
  \/ /\ target # s.displayed /\ s.departure # None
     /\ r = [displayed |-> s.displayed, target |-> target, departure |-> s.departure, reveal |-> s.reveal,
             opacity |-> s.opacity, visible |-> s.visible, movement |-> s.movement, reflow |-> s.reflow]

(* Its target alone, a return, a departure, or one that goes on.            *)
LEMMA RequestedCases ==
  ASSUME NEW s, FieldInv(s), NEW target, NEW t
  PROVE  RequestOf(s, target, t, RequestedField(s, target, t, TRUE))
<1>. DEFINE r == RequestedField(s, target, t, TRUE)
<1>2. CASE s.target = target
  BY <1>2 DEF RequestedField, RequestOf
<1>3. CASE s.target # target /\ target = s.displayed
  <2>1. PICK a : a = [s EXCEPT !.target = target]
    OBVIOUS
  <2>2. PICK b : b = [a EXCEPT !.departure = None]
    OBVIOUS
  <2>3. r = [b EXCEPT !.reveal = [at |-> t, from |-> s.opacity]]
    BY <1>3, <2>1, <2>2, Zenon DEF RequestedField
  <2>4. b = [displayed |-> s.displayed, target |-> target, departure |-> None, reveal |-> s.reveal,
             opacity |-> s.opacity, visible |-> s.visible, movement |-> s.movement, reflow |-> s.reflow]
    BY <2>1, <2>2 DEF FieldInv, Shape
  <2>5. PICK reveal : reveal = [at |-> t, from |-> s.opacity]
    OBVIOUS
  <2>6. r = [displayed |-> s.displayed, target |-> target, departure |-> None, reveal |-> reveal,
             opacity |-> s.opacity, visible |-> s.visible, movement |-> s.movement, reflow |-> s.reflow]
    BY <2>3, <2>4, <2>5
  <2>. QED BY <1>3, <2>5, <2>6 DEF RequestOf
<1>4. CASE s.target # target /\ target # s.displayed /\ s.departure = None
  <2>1. PICK a : a = [s EXCEPT !.target = target]
    OBVIOUS
  <2>2. PICK b : b = [a EXCEPT !.departure = [at |-> t, from |-> s.opacity]]
    OBVIOUS
  <2>3. r = [b EXCEPT !.reveal = None]
    BY <1>4, <2>1, <2>2, Zenon DEF RequestedField
  <2>4. PICK departure : departure = [at |-> t, from |-> s.opacity]
    OBVIOUS
  <2>5. b = [displayed |-> s.displayed, target |-> target, departure |-> departure, reveal |-> s.reveal,
             opacity |-> s.opacity, visible |-> s.visible, movement |-> s.movement, reflow |-> s.reflow]
    BY <2>1, <2>2, <2>4 DEF FieldInv, Shape
  <2>6. r = [displayed |-> s.displayed, target |-> target, departure |-> departure, reveal |-> None,
             opacity |-> s.opacity, visible |-> s.visible, movement |-> s.movement, reflow |-> s.reflow]
    BY <2>3, <2>5
  <2>. QED BY <1>4, <2>4, <2>6 DEF RequestOf
<1>5. CASE s.target # target /\ target # s.displayed /\ s.departure # None
  <2>1. r = [s EXCEPT !.target = target]
    BY <1>5 DEF RequestedField
  <2>2. r = [displayed |-> s.displayed, target |-> target, departure |-> s.departure,
             reveal |-> s.reveal,
             opacity |-> s.opacity, visible |-> s.visible, movement |-> s.movement, reflow |-> s.reflow]
    BY <2>1 DEF FieldInv, Shape
  <2>. QED BY <1>5, <2>2 DEF RequestOf
<1>. QED BY <1>2, <1>3, <1>4, <1>5

(* A request keeps the invariant of a field.                                *)
LEMMA RequestedInv ==
  ASSUME NEW s, FieldInv(s), NEW target, NEW t \in Int, NEW animated \in BOOLEAN
  PROVE  FieldInv(RequestedField(s, target, t, animated))
<1> DEFINE r == RequestedField(s, target, t, animated)
<1>1. [at |-> t, from |-> s.opacity] \in Departures
  BY DEF Departures, FieldInv
<1>2. Scale \in 0..Scale
  BY EasingAssumption
<1>3. \/ r = s
      \/ /\ Shape(r) /\ r.displayed = r.target /\ r.departure = None /\ r.reveal = None /\ r.opacity = Scale
      \/ /\ Shape(r) /\ r.displayed = r.target /\ r.departure = None /\ r.reveal.from = s.opacity /\ r.opacity = s.opacity
      \/ /\ Shape(r) /\ r.departure = [at |-> t, from |-> s.opacity] /\ r.reveal = None /\ r.opacity = s.opacity
      \/ /\ Shape(r) /\ s.departure # None /\ r.departure = s.departure /\ r.reveal = s.reveal /\ r.opacity = s.opacity
  <2>1. CASE animated
    <3>1. \/ r = s
          \/ /\ Shape(r) /\ r.displayed = r.target /\ r.departure = None /\ r.reveal.from = s.opacity /\ r.opacity = s.opacity
          \/ /\ Shape(r) /\ r.departure = [at |-> t, from |-> s.opacity] /\ r.reveal = None /\ r.opacity = s.opacity
          \/ /\ Shape(r) /\ s.departure # None /\ r.departure = s.departure /\ r.reveal = s.reveal /\ r.opacity = s.opacity
      <4>1. r = RequestedField(s, target, t, TRUE)
        BY <2>1, Zenon
      <4>2. RequestOf(s, target, t, r)
        BY <4>1, RequestedCases, Zenon
      <4>. QED BY <4>2 DEF RequestOf, Shape
    <3>. QED BY <3>1
  <2>2. CASE ~animated
    <3>1. /\ Shape(r) /\ r.displayed = r.target /\ r.departure = None /\ r.reveal = None /\ r.opacity = Scale
      <4>1. r = [displayed |-> target, target |-> target, departure |-> None, reveal |-> None,
                 opacity |-> Scale, visible |-> s.visible, movement |-> None, reflow |-> s.reflow]
        BY <2>2, RequestedStill, Zenon
      <4>. QED BY <4>1 DEF Shape
    <3>. QED BY <3>1
  <2>. QED BY <2>1, <2>2
<1> HIDE DEF r
<1>4. FieldInv(r)
  BY <1>1, <1>2, <1>3, DepartureAssumption DEF FieldInv
<1>. QED BY <1>4 DEF r

(* A field is revealed only if it departs.                                 *)
LEMMA RevealedInv ==
  ASSUME NEW s, FieldInv(s), NEW t
  PROVE  LET r == Revealed(s, t)
         IN /\ FieldInv(r)
            /\ s.departure = None => r = s
            /\ s.departure # None =>
                 r = [displayed |-> s.target, target |-> s.target, departure |-> None,
                      reveal |-> [at |-> t, from |-> 0],
                      opacity |-> 0, visible |-> s.visible, movement |-> None, reflow |-> "replacement"]
<1> DEFINE r == Revealed(s, t)
<1>1. CASE s.departure = None
  BY <1>1 DEF Revealed
<1>2. CASE s.departure # None
  <2>1. PICK a : a = [s EXCEPT !.displayed = s.target]
    OBVIOUS
  <2>2. PICK b : b = [a EXCEPT !.departure = None]
    OBVIOUS
  <2>3. PICK reveal : reveal = [at |-> t, from |-> 0]
    OBVIOUS
  <2>4. PICK c : c = [b EXCEPT !.reveal = reveal]
    OBVIOUS
  <2>5. PICK d : d = [c EXCEPT !.opacity = 0]
    OBVIOUS
  <2>6. PICK e : e = [d EXCEPT !.movement = None]
    OBVIOUS
  <2>7. r = [e EXCEPT !.reflow = "replacement"]
    BY <1>2, <2>1, <2>2, <2>3, <2>4, <2>5, <2>6, Zenon DEF Revealed
  <2>8. b = [displayed |-> s.target, target |-> s.target, departure |-> None, reveal |-> s.reveal,
             opacity |-> s.opacity, visible |-> s.visible, movement |-> s.movement, reflow |-> s.reflow]
    BY <2>1, <2>2 DEF FieldInv, Shape
  <2>9. d = [displayed |-> s.target, target |-> s.target, departure |-> None, reveal |-> reveal,
             opacity |-> 0, visible |-> s.visible, movement |-> s.movement, reflow |-> s.reflow]
    BY <2>8, <2>4, <2>5
  <2>10. r = [displayed |-> s.target, target |-> s.target, departure |-> None, reveal |-> reveal,
              opacity |-> 0, visible |-> s.visible, movement |-> None, reflow |-> "replacement"]
    BY <2>9, <2>6, <2>7
  <2>11. reveal.from = 0 /\ 0 \in 0..Scale
    BY <2>3, EasingAssumption
  <2> HIDE DEF r
  <2>12. FieldInv(r)
    BY <2>10, <2>11 DEF FieldInv, Shape
  <2>. QED BY <1>2, <2>3, <2>10, <2>12 DEF r
<1>. QED BY <1>1, <1>2

(* What a frame makes of a field.                                          *)
LEMMA AppliedIs ==
  ASSUME NEW s, FieldInv(s), NEW value, NEW sprite, NEW departing, NEW t, NEW animated
  PROVE  LET a == AppliedField(s, value, sprite, departing, t, animated)
             holding == \/ s.departure # None \/ value # s.displayed
                        \/ departing /\ s.reflow = "retained"
         IN /\ Shape(a)
            /\ a.displayed = s.displayed /\ a.target = s.target /\ a.departure = s.departure
            /\ a.opacity = IF s.reveal # None THEN Mix(s.reveal.from, Scale, Level(t - s.reveal.at, Phase))
                           ELSE IF s.departure = None THEN s.opacity
                           ELSE Mix(s.departure.from, 0, Level(t - s.departure.at, Phase))
            /\ a.reveal \in {None, s.reveal}
            /\ holding => a.visible = s.visible
            /\ ~holding => a.visible = sprite
<1> DEFINE holding == \/ s.departure # None \/ value # s.displayed
                      \/ departing /\ s.reflow = "retained"
           departed == IF s.departure = None THEN s.opacity
                       ELSE Mix(s.departure.from, 0, Level(t - s.departure.at, Phase))
           moves == ~holding /\ s.reflow # "none"
           movement == IF moves /\ animated /\ (s.visible = None) = (sprite = None) THEN t ELSE s.movement
<1>1. PICK opacity : opacity = IF s.reveal = None THEN departed
                    ELSE Mix(s.reveal.from, Scale, Level(t - s.reveal.at, Phase))
  OBVIOUS
<1>2. PICK a : a = [s EXCEPT !.opacity = opacity]
  OBVIOUS
<1>3. PICK b : b = [a EXCEPT !.reveal = IF s.reveal # None /\ t - s.reveal.at >= Phase THEN None ELSE @]
  OBVIOUS
<1>4. PICK c : c = [b EXCEPT !.visible = IF holding THEN @ ELSE sprite]
  OBVIOUS
<1>5. PICK d : d = [c EXCEPT !.reflow = IF moves THEN "none" ELSE @]
  OBVIOUS
<1>6. PICK m : m = IF ~holding /\ movement # None /\ t - movement >= Phase THEN None ELSE movement
  OBVIOUS
<1>7. PICK e : e = [d EXCEPT !.movement = m]
  OBVIOUS
<1>8. AppliedField(s, value, sprite, departing, t, animated) = e
  BY <1>1, <1>2, <1>3, <1>4, <1>5, <1>6, <1>7, Zenon DEF AppliedField
<1> HIDE DEF departed, moves, movement
<1>9. a = [displayed |-> s.displayed, target |-> s.target, departure |-> s.departure, reveal |-> s.reveal,
           opacity |-> opacity, visible |-> s.visible, movement |-> s.movement, reflow |-> s.reflow]
  BY <1>2 DEF FieldInv, Shape
<1>10. PICK reveal : /\ reveal \in {None, s.reveal}
                     /\ b = [displayed |-> s.displayed, target |-> s.target, departure |-> s.departure, reveal |-> reveal,
                             opacity |-> opacity, visible |-> s.visible, movement |-> s.movement, reflow |-> s.reflow]
  <2>1. PICK reveal : reveal = IF s.reveal # None /\ t - s.reveal.at >= Phase THEN None ELSE a.reveal
    OBVIOUS
  <2>2. b = [a EXCEPT !.reveal = reveal]
    BY <1>3, <2>1, Zenon
  <2>3. b = [displayed |-> s.displayed, target |-> s.target, departure |-> s.departure, reveal |-> reveal,
             opacity |-> opacity, visible |-> s.visible, movement |-> s.movement, reflow |-> s.reflow]
    BY <1>9, <2>2
  <2>. QED BY <1>9, <2>1, <2>3
<1>11. PICK visible : /\ holding => visible = s.visible
                      /\ ~holding => visible = sprite
                      /\ c = [displayed |-> s.displayed, target |-> s.target, departure |-> s.departure, reveal |-> reveal,
                             opacity |-> opacity, visible |-> visible, movement |-> s.movement, reflow |-> s.reflow]
  <2> HIDE DEF holding
  <2>1. PICK visible : visible = IF holding THEN b.visible ELSE sprite
    OBVIOUS
  <2>2. c = [b EXCEPT !.visible = visible]
    BY <1>4, <2>1, Zenon
  <2>3. c = [displayed |-> s.displayed, target |-> s.target, departure |-> s.departure, reveal |-> reveal,
             opacity |-> opacity, visible |-> visible, movement |-> s.movement, reflow |-> s.reflow]
    BY <1>10, <2>2
  <2>. QED BY <1>10, <2>1, <2>3
<1>12. PICK reflow : d = [displayed |-> s.displayed, target |-> s.target, departure |-> s.departure, reveal |-> reveal,
                          opacity |-> opacity, visible |-> visible, movement |-> s.movement, reflow |-> reflow]
  <2>1. PICK reflow : reflow = IF moves THEN "none" ELSE c.reflow
    OBVIOUS
  <2>2. d = [c EXCEPT !.reflow = reflow]
    BY <1>5, <2>1, Zenon
  <2>. QED BY <1>11, <2>2
<1>13. e = [displayed |-> s.displayed, target |-> s.target, departure |-> s.departure, reveal |-> reveal,
            opacity |-> opacity, visible |-> visible, movement |-> m, reflow |-> reflow]
  BY <1>12, <1>7
<1>14. opacity = IF s.reveal # None THEN Mix(s.reveal.from, Scale, Level(t - s.reveal.at, Phase))
                 ELSE IF s.departure = None THEN s.opacity
                 ELSE Mix(s.departure.from, 0, Level(t - s.departure.at, Phase))
  BY <1>1, Zenon DEF departed
<1>15. PICK f : f = AppliedField(s, value, sprite, departing, t, animated)
  OBVIOUS
<1>16. /\ Shape(f)
       /\ f.displayed = s.displayed /\ f.target = s.target /\ f.departure = s.departure
       /\ f.opacity = opacity /\ f.reveal \in {None, s.reveal} /\ f.visible = visible
  BY <1>8, <1>10, <1>13, <1>15 DEF Shape
<1>. QED BY <1>11, <1>14, <1>15, <1>16, Zenon

(* It keeps the invariant, and what departs is as far gone as its time says. *)
LEMMA AppliedInv ==
  ASSUME NEW s, FieldInv(s), NEW value, NEW sprite, NEW departing, NEW t, NEW animated
  PROVE  LET a == AppliedField(s, value, sprite, departing, t, animated)
         IN /\ FieldInv(a)
            /\ Gone(a, t)
<1> DEFINE a == AppliedField(s, value, sprite, departing, t, animated)
<1>1. /\ Shape(a)
      /\ a.displayed = s.displayed /\ a.target = s.target /\ a.departure = s.departure
      /\ a.opacity = IF s.reveal # None THEN Mix(s.reveal.from, Scale, Level(t - s.reveal.at, Phase))
                     ELSE IF s.departure = None THEN s.opacity
                     ELSE Mix(s.departure.from, 0, Level(t - s.departure.at, Phase))
      /\ a.reveal \in {None, s.reveal}
  BY AppliedIs
<1> HIDE DEF a
<1>2. a.opacity \in 0..Scale
  <2>1. CASE s.reveal # None
    <3>1. PICK level \in 0..Scale : level = Level(t - s.reveal.at, Phase)
      BY LevelRange
    <3>2. s.reveal.from \in 0..Scale
      BY <2>1 DEF FieldInv
    <3>3. Mix(s.reveal.from, Scale, level) \in s.reveal.from..Scale
      BY <3>2, FadesIn
    <3>. QED BY <1>1, <2>1, <3>1, <3>2, <3>3, EasingAssumption
  <2>2. CASE s.reveal = None /\ s.departure = None
    BY <1>1, <2>2 DEF FieldInv
  <2>3. CASE s.reveal = None /\ s.departure # None
    <3>1. PICK level \in 0..Scale : level = Level(t - s.departure.at, Phase)
      BY LevelRange
    <3>2. s.departure.from \in 0..Scale
      BY <2>3 DEF FieldInv, Departures
    <3>3. Mix(s.departure.from, 0, level) \in 0..s.departure.from
      BY <3>2, FadesOut
    <3>. QED BY <1>1, <2>3, <3>1, <3>2, <3>3, EasingAssumption
  <2>. QED BY <2>1, <2>2, <2>3
<1>3. FieldInv(a)
  BY <1>1, <1>2 DEF FieldInv
<1>4. Gone(a, t)
  BY <1>1 DEF FieldInv, Gone
<1>. QED BY <1>3, <1>4 DEF a

-----------------------------------------------------------------------------
(* From one frame to the next                                              *)

(* A field that shows what it did, though it may have begun to depart, and   *)
(* one that shows what is prepared for it.                                 *)
Kept(o, s, t) ==
  /\ FieldInv(s)
  /\ s.displayed = o.displayed /\ s.visible = o.visible /\ s.opacity = o.opacity
  /\ s.departure # None => s.departure = o.departure \/ s.departure = [at |-> t, from |-> o.opacity]

Anew(o, s, value) ==
  /\ FieldInv(s)
  /\ s.visible = o.visible /\ s.departure = None /\ s.displayed = value /\ s.target = value
  /\ s.reflow = "replacement"

Succeeds(o, s, t, value) == Kept(o, s, t) \/ Anew(o, s, value)

(* A request keeps what is shown.                                           *)
LEMMA KeptRequest ==
  ASSUME NEW o, NEW s, NEW t \in Int, Kept(o, s, t), NEW target
  PROVE  Kept(o, RequestedField(s, target, t, TRUE), t)
<1> DEFINE r == RequestedField(s, target, t, TRUE)
<1>1. FieldInv(s)
  BY DEF Kept
<1>2. FieldInv(r)
  BY <1>1, RequestedInv
<1>3. RequestOf(s, target, t, r)
  BY <1>1, RequestedCases, Zenon
<1> HIDE DEF r
<1>4. Kept(o, r, t)
  BY <1>2, <1>3 DEF Kept, RequestOf
<1>. QED BY <1>4 DEF r

(* A field is asked for what a request asks.                                *)
LEMMA RequestedTarget ==
  ASSUME NEW s, FieldInv(s), NEW target, NEW t
  PROVE  RequestedField(s, target, t, TRUE).target = target
<1> DEFINE r == RequestedField(s, target, t, TRUE)
<1>1. RequestOf(s, target, t, r)
  BY RequestedCases, Zenon
<1> HIDE DEF r
<1>2. r.target = target
  BY <1>1 DEF RequestOf
<1>. QED BY <1>2 DEF r

(* Asking for the same changes nothing.                                     *)
LEMMA SameRequest ==
  ASSUME NEW s, NEW t, NEW target, s.target = target
  PROVE  RequestedField(s, target, t, TRUE) = s
BY DEF RequestedField

(* So does a request for what is drawn next.                                *)
LEMMA SucceedsRequest ==
  ASSUME NEW o, NEW s, NEW t \in Int, NEW value, Succeeds(o, s, t, value)
  PROVE  Succeeds(o, RequestedField(s, value, t, TRUE), t, value)
<1>1. CASE Kept(o, s, t)
  BY <1>1, KeptRequest DEF Succeeds
<1>2. CASE Anew(o, s, value)
  <2>1. s.target = value
    BY <1>2 DEF Anew
  <2>. QED BY <1>2, <2>1, SameRequest DEF Succeeds
<1>. QED BY <1>1, <1>2 DEF Succeeds

(* A reflow changes nothing of the rest.                                    *)
LEMMA ReflowedIs ==
  ASSUME NEW s, Shape(s)
  PROVE  [s EXCEPT !.reflow = "retained"] =
           [displayed |-> s.displayed, target |-> s.target, departure |-> s.departure, reveal |-> s.reveal,
            opacity |-> s.opacity, visible |-> s.visible, movement |-> s.movement, reflow |-> "retained"]
BY DEF Shape

LEMMA KeptReflow ==
  ASSUME NEW o, NEW s, NEW t, Kept(o, s, t)
  PROVE  /\ Kept(o, [s EXCEPT !.reflow = "retained"], t)
         /\ [s EXCEPT !.reflow = "retained"].target = s.target
<1> DEFINE r == [s EXCEPT !.reflow = "retained"]
<1>1. FieldInv(s) /\ Shape(s)
  BY DEF Kept, FieldInv
<1>2. /\ Shape(r) /\ r.displayed = s.displayed /\ r.target = s.target /\ r.departure = s.departure
      /\ r.reveal = s.reveal /\ r.opacity = s.opacity /\ r.visible = s.visible
  BY <1>1, ReflowedIs DEF Shape
<1> HIDE DEF r
<1>3. FieldInv(r)
  BY <1>1, <1>2 DEF FieldInv
<1>4. Kept(o, r, t)
  BY <1>2, <1>3 DEF Kept
<1>. QED BY <1>2, <1>4 DEF r

(* What is revealed waits unseen for what is drawn next.                    *)
LEMMA SucceedsReveal ==
  ASSUME NEW o, NEW s, NEW t, NEW value, Succeeds(o, s, t, value), NEW at, MayReveal(s, value, at)
  PROVE  Succeeds(o, Revealed(s, at), t, value)
<1> DEFINE r == Revealed(s, at)
<1>1. FieldInv(s)
  BY DEF Succeeds, Kept, Anew
<1>2. CASE s.departure = None
  BY <1>2 DEF Revealed
<1>3. CASE s.departure # None
  <2>1. s.target = value /\ Kept(o, s, t)
    BY <1>3 DEF MayReveal, Succeeds, Anew
  <2>2. /\ FieldInv(r)
        /\ r = [displayed |-> s.target, target |-> s.target, departure |-> None,
                reveal |-> [at |-> at, from |-> 0],
                opacity |-> 0, visible |-> s.visible, movement |-> None, reflow |-> "replacement"]
    BY <1>1, <1>3, RevealedInv
  <2>3. /\ r.displayed = s.target /\ r.target = s.target /\ r.departure = None /\ r.visible = s.visible
        /\ r.reflow = "replacement"
    BY <2>2
  <2> HIDE DEF r
  <2>4. Anew(o, r, value)
    BY <2>1, <2>2, <2>3 DEF Anew, Kept
  <2>. QED BY <2>4 DEF Succeeds, r
<1>. QED BY <1>2, <1>3

(* No obsolete destination appears from a frame to the next.                *)
NoneObsolete(o, a) ==
  /\ a.displayed # o.displayed => a.visible = a.displayed
  /\ a.opacity > o.opacity => a.visible \in {None, a.target} \/ o.visible \notin {None, o.displayed}

(* What fades in on a frame is what the field is to show, if it showed what  *)
(* it displayed; what departs does not become brighter.                    *)
LEMMA SucceedsApplied ==
  ASSUME NEW o, FieldInv(o), NEW last \in Int, NEW t \in Int, last <= t, Gone(o, last),
         NEW s, NEW value, Succeeds(o, s, t, value), NEW departing, NEW animated
  PROVE  NoneObsolete(o, AppliedField(s, value, value, departing, t, animated))
<1> DEFINE a == AppliedField(s, value, value, departing, t, animated)
           holding == \/ s.departure # None \/ value # s.displayed
                      \/ departing /\ s.reflow = "retained"
<1>1. FieldInv(s)
  BY DEF Succeeds, Kept, Anew
<1>2. /\ a.displayed = s.displayed /\ a.target = s.target /\ a.departure = s.departure
      /\ a.opacity = IF s.reveal # None THEN Mix(s.reveal.from, Scale, Level(t - s.reveal.at, Phase))
                     ELSE IF s.departure = None THEN s.opacity
                     ELSE Mix(s.departure.from, 0, Level(t - s.departure.at, Phase))
      /\ holding => a.visible = s.visible
      /\ ~holding => a.visible = value
  BY <1>1, AppliedIs
<1> HIDE DEF a
<1>3. ASSUME Anew(o, s, value) PROVE NoneObsolete(o, a)
  <2>1. ~holding
    BY <1>3 DEF Anew
  <2>. QED BY <1>2, <1>3, <2>1 DEF Anew, NoneObsolete
<1>4. ASSUME Kept(o, s, t), s.departure = None PROVE NoneObsolete(o, a)
  <2>1. a.displayed = o.displayed /\ a.target = a.displayed
    BY <1>2, <1>4 DEF Kept, FieldInv
  <2>2. a.visible \in {o.visible, value} /\ (a.visible = o.visible \/ value = s.displayed)
    BY <1>2, <1>4 DEF Kept
  <2>. QED BY <1>2, <2>1, <2>2 DEF NoneObsolete
<1>5. ASSUME Kept(o, s, t), s.departure # None PROVE NoneObsolete(o, a)
  <2>1. a.displayed = o.displayed
    BY <1>2, <1>5 DEF Kept
  <2>2. s.reveal = None /\ s.departure \in Departures
    BY <1>1, <1>5 DEF FieldInv
  <2>3. PICK from \in 0..Scale, at \in Int : from = s.departure.from /\ at = s.departure.at
    BY <2>2 DEF Departures
  <2>4. a.opacity = Mix(from, 0, Level(t - at, Phase))
    BY <1>2, <1>5, <2>2, <2>3
  <2>5. PICK now_ \in 0..Scale : now_ = Level(t - at, Phase)
    BY LevelRange
  <2>6. a.opacity <= o.opacity
    <3>1. CASE s.departure = o.departure
      <4>1. PICK before \in 0..Scale : before = Level(last - at, Phase)
        BY LevelRange
      <4>2. before <= now_
        BY <2>5, <4>1, LevelGrows
      <4>3. o.opacity = Mix(from, 0, before)
        BY <1>5, <2>3, <3>1, <4>1 DEF Gone
      <4>. QED BY <2>4, <2>5, <4>2, <4>3, FadesOut
    <3>2. CASE s.departure = [at |-> t, from |-> o.opacity]
      <4>1. from = o.opacity
        BY <2>3, <3>2
      <4>2. Mix(from, 0, now_) \in 0..from
        BY FadesOut
      <4>. QED BY <2>4, <2>5, <4>1, <4>2
    <3>. QED BY <1>5, <3>1, <3>2 DEF Kept
  <2>7. a.opacity \in 0..Scale /\ o.opacity \in 0..Scale
    <3>1. Mix(from, 0, now_) \in 0..from
      BY FadesOut
    <3>. QED BY <2>4, <2>5, <3>1, EasingAssumption DEF FieldInv
  <2>. QED BY <2>1, <2>6, <2>7 DEF NoneObsolete
<1>6. NoneObsolete(o, a)
  BY <1>3, <1>4, <1>5 DEF Succeeds
<1>. QED BY <1>6 DEF a

-----------------------------------------------------------------------------
(* All fields                                                              *)

(* What holds of each field.                                                *)
FieldsInv(fs) == \A f \in AllFields : FieldInv(fs[f])

GoneBy(fs, t) == \A f \in AllFields : Gone(fs[f], t)

KeptAll(os, fs, t) == \A f \in AllFields : Kept(os[f], fs[f], t)

SucceedAll(os, fs, t, p) == \A f \in AllFields : Succeeds(os[f], fs[f], t, FieldValue(f, p))

AskedFor(fs, p) == \A f \in AllFields : fs[f].target = FieldValue(f, p)

(* Each operation keeps the invariant of every field.                       *)
LEMMA RequestFieldsInv ==
  ASSUME NEW fs, FieldsInv(fs), NEW p, NEW t \in Int, NEW animated \in BOOLEAN
  PROVE  FieldsInv(RequestFields(fs, p, t, animated))
<1>1. ASSUME NEW f \in AllFields
      PROVE  FieldInv(RequestFields(fs, p, t, animated)[f])
  <2>1. RequestFields(fs, p, t, animated)[f] = RequestedField(fs[f], FieldValue(f, p), t, animated)
    BY DEF RequestFields
  <2>2. FieldInv(fs[f])
    BY DEF FieldsInv
  <2>. QED BY <2>1, <2>2, RequestedInv
<1>. QED BY <1>1 DEF FieldsInv

LEMMA RevealPreparedInv ==
  ASSUME NEW fs, FieldsInv(fs), NEW p, NEW t
  PROVE  FieldsInv(RevealPrepared(fs, p, t))
<1>1. ASSUME NEW f \in AllFields
      PROVE  FieldInv(Revealed(fs[f], t))
  BY RevealedInv DEF FieldsInv
<1>2. FieldsInv([f \in AllFields |-> Revealed(fs[f], t)])
  BY <1>1 DEF FieldsInv
<1>. QED BY <1>2 DEF RevealPrepared

LEMMA ReflowedInv ==
  ASSUME NEW fs, FieldsInv(fs)
  PROVE  FieldsInv(Reflowed(fs))
<1>1. ASSUME NEW f \in AllFields
      PROVE  FieldInv(Reflowed(fs)[f])
  <2>1. PICK r : r = [fs[f] EXCEPT !.reflow = "retained"]
    OBVIOUS
  <2>2. Reflowed(fs)[f] = r
    BY <2>1 DEF Reflowed
  <2>3. Kept(fs[f], fs[f], 0)
    BY DEF Kept, FieldsInv
  <2>4. Kept(fs[f], r, 0)
    BY <2>1, <2>3, KeptReflow
  <2>. QED BY <2>2, <2>4 DEF Kept
<1>. QED BY <1>1 DEF FieldsInv

LEMMA NewForegroundInv ==
  ASSUME NEW p, NEW t
  PROVE  /\ FieldsInv(NewForeground(p)) /\ FieldsInv(RevealAll(NewForeground(p), t))
         /\ \A f \in AllFields : /\ NewForeground(p)[f].visible = None
                                 /\ RevealAll(NewForeground(p), t)[f].visible = None
<1>1. ASSUME NEW f \in AllFields
      PROVE  /\ FieldInv(NewForeground(p)[f]) /\ FieldInv(RevealAll(NewForeground(p), t)[f])
             /\ NewForeground(p)[f].visible = None
             /\ RevealAll(NewForeground(p), t)[f].visible = None
  <2>1. PICK s : s = [displayed |-> FieldValue(f, p), target |-> FieldValue(f, p), departure |-> None, reveal |-> None,
                      opacity |-> Scale, visible |-> None, movement |-> None, reflow |-> "none"]
    OBVIOUS
  <2>2. NewForeground(p)[f] = s
    BY <2>1 DEF NewForeground
  <2>3. FieldInv(s) /\ s.visible = None
    BY <2>1, EasingAssumption DEF FieldInv, Shape
  <2>4. PICK reveal : reveal = [at |-> t, from |-> 0]
    OBVIOUS
  <2>5. RevealAll(NewForeground(p), t)[f] = [s EXCEPT !.opacity = 0, !.reveal = reveal]
    BY <2>2, <2>4, Zenon DEF RevealAll
  <2>6. PICK r : r = [s EXCEPT !.opacity = 0, !.reveal = reveal]
    OBVIOUS
  <2>7. PICK value : value = FieldValue(f, p)
    OBVIOUS
  <2>8. r = [displayed |-> value, target |-> value, departure |-> None, reveal |-> reveal,
             opacity |-> 0, visible |-> None, movement |-> None, reflow |-> "none"]
    BY <2>1, <2>6, <2>7
  <2>9. reveal.from = 0 /\ 0 \in 0..Scale
    BY <2>4, EasingAssumption
  <2>10. FieldInv(r) /\ r.visible = None
    BY <2>8, <2>9 DEF FieldInv, Shape
  <2>. QED BY <2>2, <2>3, <2>5, <2>6, <2>10
<1>. QED BY <1>1 DEF FieldsInv

LEMMA ApplyFieldsInv ==
  ASSUME NEW fs, FieldsInv(fs), NEW sprites, NEW p, NEW t, NEW animated
  PROVE  /\ FieldsInv(ApplyFields(fs, sprites, p, t, animated))
         /\ GoneBy(ApplyFields(fs, sprites, p, t, animated), t)
<1>1. PICK revealed : revealed = RevealPrepared(fs, p, t)
  OBVIOUS
<1>2. PICK departing \in BOOLEAN : departing = \E f \in AllFields : revealed[f].departure # None
  OBVIOUS
<1>3. FieldsInv(revealed)
  BY <1>1, RevealPreparedInv
<1>4. ASSUME NEW f \in AllFields
      PROVE  /\ FieldInv(ApplyFields(fs, sprites, p, t, animated)[f])
             /\ Gone(ApplyFields(fs, sprites, p, t, animated)[f], t)
  <2>1. ApplyFields(fs, sprites, p, t, animated)[f]
          = AppliedField(revealed[f], FieldValue(f, p), sprites[f], departing, t, animated)
    BY <1>1, <1>2, Zenon DEF ApplyFields
  <2>2. FieldInv(revealed[f])
    BY <1>3 DEF FieldsInv
  <2>. QED BY <2>1, <2>2, AppliedInv
<1>. QED BY <1>4 DEF FieldsInv, GoneBy

(* A request keeps what is shown, and is taken back by none for the same.    *)
LEMMA FirstRequest ==
  ASSUME NEW os, FieldsInv(os), NEW p, NEW t \in Int
  PROVE  KeptAll(os, RequestFields(os, p, t, TRUE), t) /\ AskedFor(RequestFields(os, p, t, TRUE), p)
<1>1. ASSUME NEW f \in AllFields
      PROVE  /\ Kept(os[f], RequestFields(os, p, t, TRUE)[f], t)
             /\ RequestFields(os, p, t, TRUE)[f].target = FieldValue(f, p)
  <2>1. RequestFields(os, p, t, TRUE)[f] = RequestedField(os[f], FieldValue(f, p), t, TRUE)
    BY DEF RequestFields
  <2>2. Kept(os[f], os[f], t)
    BY DEF Kept, FieldsInv
  <2>3. /\ Kept(os[f], RequestedField(os[f], FieldValue(f, p), t, TRUE), t)
        /\ RequestedField(os[f], FieldValue(f, p), t, TRUE).target = FieldValue(f, p)
    <3>1. PICK o : o = os[f]
      OBVIOUS
    <3>2. PICK value : value = FieldValue(f, p)
      OBVIOUS
    <3>3. Kept(o, o, t)
      BY <2>2, <3>1
    <3>4. Kept(o, RequestedField(o, value, t, TRUE), t)
      BY <3>3, KeptRequest
    <3>5. RequestedField(o, value, t, TRUE).target = value
      BY <3>3, RequestedTarget DEF Kept
    <3>. QED BY <3>1, <3>2, <3>4, <3>5
  <2>. QED BY <2>1, <2>3
<1>. QED BY <1>1 DEF KeptAll, AskedFor

(* A reflow keeps what is shown and what is asked for.                      *)
LEMMA KeptReflowed ==
  ASSUME NEW os, NEW fs, NEW t, KeptAll(os, fs, t), NEW p
  PROVE  KeptAll(os, Reflowed(fs), t) /\ (AskedFor(fs, p) => AskedFor(Reflowed(fs), p))
<1>1. ASSUME NEW f \in AllFields
      PROVE  Kept(os[f], Reflowed(fs)[f], t) /\ Reflowed(fs)[f].target = fs[f].target
  <2>1. Reflowed(fs)[f] = [fs[f] EXCEPT !.reflow = "retained"]
    BY DEF Reflowed
  <2>. QED BY <2>1, KeptReflow DEF KeptAll
<1>. QED BY <1>1 DEF KeptAll, AskedFor

LEMMA KeptSucceed ==
  ASSUME NEW os, NEW fs, NEW t, KeptAll(os, fs, t), NEW p
  PROVE  SucceedAll(os, fs, t, p)
BY DEF KeptAll, SucceedAll, Succeeds

(* A request for what is drawn next, of all fields.                         *)
LEMMA LaterRequest ==
  ASSUME NEW os, NEW fs, NEW t \in Int, NEW p, SucceedAll(os, fs, t, p)
  PROVE  SucceedAll(os, RequestFields(fs, p, t, TRUE), t, p)
<1>1. ASSUME NEW f \in AllFields
      PROVE  Succeeds(os[f], RequestFields(fs, p, t, TRUE)[f], t, FieldValue(f, p))
  <2>1. RequestFields(fs, p, t, TRUE)[f] = RequestedField(fs[f], FieldValue(f, p), t, TRUE)
    BY DEF RequestFields
  <2>2. Succeeds(os[f], fs[f], t, FieldValue(f, p))
    BY DEF SucceedAll
  <2>3. Succeeds(os[f], RequestedField(fs[f], FieldValue(f, p), t, TRUE), t, FieldValue(f, p))
    BY <2>2, SucceedsRequest, Zenon
  <2>. QED BY <2>1, <2>3
<1>. QED BY <1>1 DEF SucceedAll

(* The same request changes nothing, whenever it comes.                    *)
LEMMA RepeatedRequest ==
  ASSUME NEW os, NEW fs, NEW t, KeptAll(os, fs, t), NEW p, AskedFor(fs, p), NEW at
  PROVE  KeptAll(os, RequestFields(fs, p, at, TRUE), t) /\ AskedFor(RequestFields(fs, p, at, TRUE), p)
<1>1. ASSUME NEW f \in AllFields
      PROVE  RequestFields(fs, p, at, TRUE)[f] = fs[f]
  <2>1. RequestFields(fs, p, at, TRUE)[f] = RequestedField(fs[f], FieldValue(f, p), at, TRUE)
    BY DEF RequestFields
  <2>2. fs[f].target = FieldValue(f, p)
    BY DEF AskedFor
  <2>3. RequestedField(fs[f], FieldValue(f, p), at, TRUE) = fs[f]
    BY <2>2, SameRequest, Zenon
  <2>. QED BY <2>1, <2>3
<1>. QED BY <1>1 DEF KeptAll, AskedFor

(* All that is revealed together is what is drawn next.                     *)
LEMMA RevealSucceeds ==
  ASSUME NEW os, NEW fs, NEW t, NEW p, SucceedAll(os, fs, t, p), NEW at
  PROVE  SucceedAll(os, RevealPrepared(fs, p, at), t, p)
<1>1. CASE \A f \in AllFields : MayReveal(fs[f], FieldValue(f, p), at)
  <2>1. ASSUME NEW f \in AllFields
        PROVE  Succeeds(os[f], Revealed(fs[f], at), t, FieldValue(f, p))
    BY <1>1, SucceedsReveal DEF SucceedAll
  <2>2. RevealPrepared(fs, p, at) = [f \in AllFields |-> Revealed(fs[f], at)]
    BY <1>1 DEF RevealPrepared
  <2>. QED BY <2>1, <2>2 DEF SucceedAll
<1>2. CASE ~\A f \in AllFields : MayReveal(fs[f], FieldValue(f, p), at)
  <2>1. RevealPrepared(fs, p, at) = fs
    BY <1>2 DEF RevealPrepared
  <2>. QED BY <2>1
<1>. QED BY <1>1, <1>2

(* An animated frame of what is prepared.                                   *)
LEMMA ApplySucceeds ==
  ASSUME NEW os, FieldsInv(os), NEW last \in Int, NEW t \in Int, last <= t, GoneBy(os, last),
         NEW fs, NEW p, SucceedAll(os, fs, t, p),
         NEW sprites, \A f \in AllFields : sprites[f] = FieldValue(f, p), NEW animated
  PROVE  \A f \in AllFields : NoneObsolete(os[f], ApplyFields(fs, sprites, p, t, animated)[f])
<1>1. PICK revealed : revealed = RevealPrepared(fs, p, t)
  OBVIOUS
<1>2. PICK departing \in BOOLEAN : departing = \E f \in AllFields : revealed[f].departure # None
  OBVIOUS
<1>3. SucceedAll(os, revealed, t, p)
  BY <1>1, RevealSucceeds
<1>4. ASSUME NEW f \in AllFields
      PROVE  NoneObsolete(os[f], ApplyFields(fs, sprites, p, t, animated)[f])
  <2>1. ApplyFields(fs, sprites, p, t, animated)[f]
          = AppliedField(revealed[f], FieldValue(f, p), sprites[f], departing, t, animated)
    BY <1>1, <1>2, Zenon DEF ApplyFields
  <2>2. sprites[f] = FieldValue(f, p)
    OBVIOUS
  <2>3. Succeeds(os[f], revealed[f], t, FieldValue(f, p))
    BY <1>3 DEF SucceedAll
  <2>4. FieldInv(os[f]) /\ Gone(os[f], last)
    BY DEF FieldsInv, GoneBy
  <2>5. NoneObsolete(os[f], AppliedField(revealed[f], FieldValue(f, p), FieldValue(f, p), departing, t, animated))
    BY <2>3, <2>4, SucceedsApplied
  <2>. QED BY <2>1, <2>2, <2>5
<1>. QED BY <1>4

-----------------------------------------------------------------------------
(* The view                                                                *)

(* The components of a view, and what each operation makes of its fields.   *)
IsView(v) ==
  DOMAIN v = {"prepared", "latest", "revision", "fields", "graphics", "status", "timing", "hadProgress",
              "progress", "persistent", "departure", "reveal", "opacity"}

LEMMA NewViewIs ==
  ASSUME NEW p, NEW revision
  PROVE  LET v == NewView(p, revision)
         IN IsView(v) /\ v.prepared = p /\ v.latest = p /\ v.fields = NewForeground(p)
BY DEF NewView, IsView

LEMMA DepartingIs ==
  ASSUME NEW v, IsView(v), NEW p, NEW t, NEW animated
  PROVE  LET w == Departing(v, p, t, animated)
         IN /\ IsView(w) /\ w.prepared = v.prepared /\ w.latest = v.latest
            /\ w.fields = IF NowPlaying(v.latest) THEN RequestFields(v.fields, p, t, animated) ELSE v.fields
BY DEF Departing, IsView

LEMMA SelectivelyIs ==
  ASSUME NEW view0, IsView(view0), NEW v, NEW p, NEW revision, NEW t, NEW animated
  PROVE  LET w == Selectively(view0, v, p, revision, t, animated)
         IN /\ IsView(w) /\ w.prepared = view0.prepared
            /\ w.fields = RevealPrepared(Reflowed(RequestFields(v.fields, p, t, animated)), p, t)
BY DEF Selectively, IsView

LEMMA ReplacedIs ==
  ASSUME NEW v, NEW prepared, NEW p, NEW revision, NEW t, NEW animated
  PROVE  LET w == Replaced(v, prepared, p, revision, t, animated)
         IN /\ IsView(w) /\ w.prepared = prepared /\ w.latest = p
            /\ w.fields = IF NowPlaying(v.latest) /\ NowPlaying(p)
                          THEN RevealPrepared(Reflowed(RequestFields(v.fields, p, t, animated)), p, t)
                          ELSE IF animated /\ NowPlaying(p) THEN RevealAll(NewForeground(prepared), t)
                          ELSE NewForeground(prepared)
<1> DEFINE selective == NowPlaying(v.latest) /\ NowPlaying(p)
           same  == SameArtwork(Current(v.graphics), Picture(prepared))
<1>1. PICK fresh : fresh = NewView(prepared, revision)
  OBVIOUS
<1>2. IsView(fresh) /\ fresh.prepared = prepared /\ fresh.fields = NewForeground(prepared)
  BY <1>1, NewViewIs
<1>3. PICK next : next = IF selective THEN Selectively(fresh, v, p, revision, t, animated)
               ELSE IF animated /\ NowPlaying(p) THEN [fresh EXCEPT !.fields = RevealAll(@, t)] ELSE fresh
  OBVIOUS
<1>4. PICK shown_ : shown_ = Onscreen(v)
  OBVIOUS
<1>5. Replaced(v, prepared, p, revision, t, animated) =
        IF ~animated THEN [next EXCEPT !.latest = p]
        ELSE [next EXCEPT !.latest = p, !.opacity = 0,
             !.graphics = IF same THEN Onscreen(v) ELSE @,
             !.reveal = [previous |-> Onscreen(v), at |-> t, fullField |-> ~NowPlaying(p), sameArt |-> same]]
  BY <1>1, <1>3, Zenon DEF Replaced
<1>6. /\ IsView(next) /\ next.prepared = prepared
      /\ next.fields = IF selective
                       THEN RevealPrepared(Reflowed(RequestFields(v.fields, p, t, animated)), p, t)
                       ELSE IF animated /\ NowPlaying(p) THEN RevealAll(NewForeground(prepared), t)
                       ELSE NewForeground(prepared)
  <2>1. CASE selective
    BY <1>2, <1>3, <2>1, SelectivelyIs
  <2>2. CASE ~selective /\ animated /\ NowPlaying(p)
    <3>1. next = [fresh EXCEPT !.fields = RevealAll(@, t)]
      BY <1>3, <2>2
    <3>. QED BY <1>2, <2>2, <3>1 DEF IsView
  <2>3. CASE ~selective /\ ~(animated /\ NowPlaying(p))
    BY <1>2, <1>3, <2>3
  <2>. QED BY <2>1, <2>2, <2>3
<1> HIDE DEF same, selective
<1>7. /\ IsView(Replaced(v, prepared, p, revision, t, animated))
      /\ Replaced(v, prepared, p, revision, t, animated).prepared = prepared
      /\ Replaced(v, prepared, p, revision, t, animated).latest = p
      /\ Replaced(v, prepared, p, revision, t, animated).fields = next.fields
  <2>1. PICK r : r = Replaced(v, prepared, p, revision, t, animated)
    OBVIOUS
  <2>2. CASE ~animated
    <3>1. r = [next EXCEPT !.latest = p]
      BY <1>5, <2>1, <2>2
    <3>2. IsView(r) /\ r.prepared = prepared /\ r.latest = p /\ r.fields = next.fields
      BY <1>6, <3>1 DEF IsView
    <3>. QED BY <2>1, <3>2
  <2>3. CASE animated
    <3>1. PICK g, reveal_ : r = [next EXCEPT !.latest = p, !.opacity = 0, !.graphics = g, !.reveal = reveal_]
      BY <1>5, <2>1, <2>3
    <3>2. IsView(r) /\ r.prepared = prepared /\ r.latest = p /\ r.fields = next.fields
      BY <1>6, <3>1 DEF IsView
    <3>. QED BY <2>1, <3>2
  <2>. QED BY <2>2, <2>3
<1>. QED BY <1>6, <1>7 DEF selective

LEMMA InstalledIs ==
  ASSUME NEW v, IsView(v), NEW prepared, NEW t, NEW animated
  PROVE  LET w == Installed(v, prepared, t, animated)
         IN /\ IsView(w) /\ w.prepared = prepared /\ w.latest = v.latest
            /\ w.fields = v.fields \/ w.fields = Reflowed(v.fields)
BY DEF Installed, IsView

LEMMA ObservingIs ==
  ASSUME NEW v, IsView(v), NEW t, NEW animated
  PROVE  LET w == Observing(v, t, animated)
         IN /\ IsView(w) /\ w.prepared = v.prepared /\ w.latest = v.latest
            /\ w.fields = v.fields \/ w.fields = RequestFields(v.fields, v.latest, t, animated)
BY DEF Observing, IsView

LEMMA UnanimatedIs ==
  ASSUME NEW v, IsView(v)
  PROVE  LET w == Unanimated(v)
         IN IsView(w) /\ w.prepared = v.prepared /\ w.latest = v.latest /\ w.fields = v.fields
BY DEF Unanimated, IsView

LEMMA DrawnViewIs ==
  ASSUME NEW v, IsView(v), NEW t, NEW animated
  PROVE  LET w == DrawnView(v, t, animated)
         IN /\ IsView(w) /\ w.prepared = v.prepared /\ w.latest = v.latest
            /\ w.fields = IF NowPlaying(v.latest) THEN ApplyFields(v.fields, Sprites(v), v.latest, t, animated)
                          ELSE v.fields
BY DEF DrawnView, IsView

LEMMA FrameIs ==
  ASSUME NEW v, NEW w, NEW t, NEW animated
  PROVE  LET frame == Frame(v, w, t, animated)
         IN /\ "at" \in DOMAIN frame /\ frame.at = t /\ frame.animated = animated /\ frame.full = ~NowPlaying(v.latest)
            /\ \A f \in AllFields : frame.fields[f] = [value |-> w.fields[f].visible, opacity |-> w.fields[f].opacity]
BY DEF Frame

-----------------------------------------------------------------------------
(* A frame of the runtime                                                  *)

(* render_inner: the presentation that is drawn, of a state that is         *)
(* presented, and the view that draws it.                                  *)
Presents(revealing, selected, frame, p) ==
  /\ revealing => (ready # None \/ installed = Key(requested)) /\ selected = incoming
  /\ ~revealing => \/ selected = displayed
                   \/ selected = incoming /\ NowPlaying(incoming.content) /\ NowPlaying(displayed.content)
  /\ frame = PresentedAt(selected, now)
  /\ p = IF ~revealing /\ NowPlaying(frame) /\ NowPlaying(shown)
         THEN [frame EXCEPT !.fields = shown.fields, !.zone = shown.zone] ELSE frame

Draws(animated, replacement, revealing, revision, p, v0, v1, v3) ==
  /\ v0 = IF replacement /\ view # None THEN Departing(view, PresentedAt(incoming, now), now, animated) ELSE view
  /\ v1 = GivenView(v0, replacement, revealing, p, animated)
  /\ \E v2 : /\ v2 = [v1 EXCEPT !.latest = p, !.revision = revision]
             /\ v3 = Observing(IF animated THEN v2 ELSE Unanimated(v2), now, animated)

Shows(animated, revealing, selected, p, v1, v3) ==
  /\ displayed' = selected /\ shown' = p
  /\ revealing /\ ready # None => installed' = Key(requested) /\ ready' = None /\ generation' = incoming.generation
  /\ ~(revealing /\ ready # None) => UNCHANGED <<installed, ready, generation>>
  /\ v1 = None => view' = None /\ drawn' = [drawn EXCEPT !.at = now]
  /\ v1 # None => view' = DrawnView(v3, now, animated) /\ drawn' = Frame(v3, view', now, animated)
  /\ UNCHANGED <<incoming, requested, now, received>>

(* A frame presents, draws and shows.                                       *)
LEMMA RenderParts ==
  ASSUME NEW animated \in BOOLEAN, Render(animated)
  PROVE  \E replacement \in BOOLEAN, revealing \in BOOLEAN : \E selected, frame, p, v0, v1, v3 :
           /\ Presents(revealing, selected, frame, p)
           /\ Draws(animated, replacement, revealing, selected.revision, p, v0, v1, v3)
           /\ Shows(animated, revealing, selected, p, v1, v3)
<1>1. PICK destination : destination = PresentedAt(incoming, now)
  OBVIOUS
<1>2. PICK replacement \in BOOLEAN : replacement = (generation # incoming.generation \/ ~InPlace(shown, destination))
  OBVIOUS
<1>3. PICK v0 : v0 = IF replacement /\ view # None THEN Departing(view, destination, now, animated) ELSE view
  OBVIOUS
<1>4. PICK revealing \in BOOLEAN :
        revealing = (/\ ready # None \/ installed = Key(requested)
                     /\ replacement /\ view # None => DepartureComplete(v0, now, animated))
  OBVIOUS
<1>5. PICK displays \in BOOLEAN :
        displays = (revealing \/ (/\ incoming.generation = displayed.generation
                                  /\ NowPlaying(incoming.content) /\ NowPlaying(displayed.content)))
  OBVIOUS
<1>6. PICK selected : selected = IF displays THEN incoming ELSE displayed
  OBVIOUS
<1>7. PICK frame : frame = PresentedAt(selected, now)
  OBVIOUS
<1>8. PICK p : p = IF ~revealing /\ NowPlaying(frame) /\ NowPlaying(shown)
                   THEN [frame EXCEPT !.fields = shown.fields, !.zone = shown.zone] ELSE frame
  OBVIOUS
<1>9. PICK v1 : v1 = GivenView(v0, replacement, revealing, p, animated)
  OBVIOUS
<1>10. PICK v2 : v2 = [v1 EXCEPT !.latest = p, !.revision = selected.revision]
  OBVIOUS
<1>11. PICK v3 : v3 = Observing(IF animated THEN v2 ELSE Unanimated(v2), now, animated)
  OBVIOUS
<1>12. PICK v4 : v4 = DrawnView(v3, now, animated)
  OBVIOUS
<1>13. /\ displayed' = selected
       /\ shown' = p
       /\ IF revealing /\ ready # None
          THEN installed' = Key(requested) /\ ready' = None /\ generation' = incoming.generation
          ELSE UNCHANGED <<installed, ready, generation>>
       /\ IF v1 = None THEN view' = None /\ drawn' = [drawn EXCEPT !.at = now]
          ELSE view' = v4 /\ drawn' = Frame(v3, v4, now, animated)
       /\ UNCHANGED <<incoming, requested, preparing, now, received>>
  BY <1>1, <1>2, <1>3, <1>4, <1>5, <1>6, <1>7, <1>8, <1>9, <1>10, <1>11, <1>12, ZenonT(100) DEF Render
<1>14. Presents(revealing, selected, frame, p)
  BY <1>4, <1>5, <1>6, <1>7, <1>8, Zenon DEF Presents
<1>15. Draws(animated, replacement, revealing, selected.revision, p, v0, v1, v3)
  BY <1>1, <1>3, <1>9, <1>10, <1>11, Zenon DEF Draws
<1>16. Shows(animated, revealing, selected, p, v1, v3)
  BY <1>12, <1>13, Zenon DEF Shows
<1>. QED BY <1>14, <1>15, <1>16

(* A presentation is of the content of its state.                           *)
LEMMA PresentedIs ==
  ASSUME NEW state, NEW t
  PROVE  LET p == PresentedAt(state, t)
             q == state.content
         IN /\ p.kind = q.kind /\ p.fields = q.fields /\ p.zone = q.zone /\ p.status = q.status
            /\ DOMAIN p = {"kind", "fields", "zone", "art", "heading", "status", "grace", "activity",
                           "position", "fraction"}
<1> DEFINE q == state.content
           elapsed == IF q.status = "playing" THEN t - state.at ELSE 0
           position == IF q.position = None THEN None ELSE Min({q.position + elapsed, q.length})
           fraction == IF position = None \/ q.grace THEN None ELSE (position * Scale) \div q.length
<1>1. PICK m, r : m = position /\ r = fraction
  OBVIOUS
<1>2. PresentedAt(state, t) =
        [kind |-> q.kind, fields |-> q.fields, zone |-> q.zone, art |-> q.art, heading |-> q.heading,
         status |-> q.status, grace |-> q.grace, activity |-> q.activity, position |-> m, fraction |-> r]
  BY <1>1, Zenon DEF PresentedAt
<1>. QED BY <1>2

(* What is shown of another presentation is the same but for the status.    *)
Same(a, b) ==
  /\ NowPlaying(a) <=> NowPlaying(b)
  /\ NowPlaying(a) => a.fields = b.fields /\ a.zone = b.zone

KeyOf(key, p) == key[2] = p.kind /\ key[3] = p.fields /\ key[4] = p.zone

(* A key names the kind, texts and zone of what is presented.               *)
LEMMA KeyIs ==
  ASSUME NEW state, NEW t
  PROVE  KeyOf(Key(state), PresentedAt(state, t))
<1>1. Key(state)[2] = state.content.kind /\ Key(state)[3] = state.content.fields /\ Key(state)[4] = state.content.zone
  BY DEF Key
<1>. QED BY <1>1, PresentedIs DEF KeyOf

LEMMA SameOfKey ==
  ASSUME NEW key, NEW a, NEW b, KeyOf(key, a), KeyOf(key, b)
  PROVE  Same(a, b)
BY DEF KeyOf, Same, NowPlaying

LEMMA SameValues ==
  ASSUME NEW a, NEW b, Same(a, b), NEW f, f # "status"
  PROVE  FieldValue(f, a) = FieldValue(f, b)
BY DEF Same, FieldValue

-----------------------------------------------------------------------------
(* The invariant                                                           *)

(* What the worker prepares is what is presented: the same kind, texts and  *)
(* zone, whatever of the incoming presentation is shown before it.          *)
ContentInv ==
  /\ Key(incoming) = Key(requested)
  /\ ready # None => ready.of = PresentedAt(requested, requested.at)
  /\ NowPlaying(shown) <=> NowPlaying(displayed.content)
  /\ view # None => KeyOf(installed, view.prepared) /\ Same(view.prepared, shown)

(* The view is that of the frame drawn last.                               *)
ViewInv ==
  /\ now \in Nat /\ "at" \in DOMAIN drawn /\ drawn.at \in 0..now
  /\ view # None =>
       /\ IsView(view) /\ view.latest = shown
       /\ FieldsInv(view.fields)
       /\ NowPlaying(shown) => GoneBy(view.fields, drawn.at)
       /\ drawn.full = ~NowPlaying(shown)
       /\ \A f \in AllFields :
            drawn.fields[f] = [value |-> view.fields[f].visible, opacity |-> view.fields[f].opacity]

(* What is prepared anew is what will be presented.                        *)
LEMMA PresentedAsPrepared ==
  ASSUME ContentInv, NEW revealing \in BOOLEAN, NEW selected, NEW frame, NEW p,
         Presents(revealing, selected, frame, p)
  PROVE  /\ NowPlaying(p) <=> NowPlaying(selected.content)
         /\ p.status = selected.content.status
         /\ revealing => p = PresentedAt(incoming, now)
         /\ revealing /\ ready # None => KeyOf(Key(requested), ready.of) /\ Same(ready.of, p)
         /\ view # None /\ ~(revealing /\ ready # None) => Same(view.prepared, p)
<1>1. /\ frame.kind = selected.content.kind /\ frame.fields = selected.content.fields
      /\ frame.zone = selected.content.zone /\ frame.status = selected.content.status
      /\ DOMAIN frame = {"kind", "fields", "zone", "art", "heading", "status", "grace", "activity",
                         "position", "fraction"}
  BY PresentedIs DEF Presents
<1>2. p.kind = frame.kind /\ p.status = frame.status
  BY <1>1 DEF Presents
<1>3. revealing => selected = incoming /\ p = PresentedAt(incoming, now)
  BY DEF Presents
<1>4. revealing => KeyOf(Key(incoming), p)
  BY <1>3, KeyIs
<1>5. ready # None => KeyOf(Key(requested), ready.of)
  BY KeyIs DEF ContentInv
<1>6. revealing /\ ready # None => Same(ready.of, p)
  BY <1>4, <1>5, SameOfKey DEF ContentInv
<1>7. ASSUME view # None, ~(revealing /\ ready # None)
      PROVE  Same(view.prepared, p)
  <2>1. CASE revealing
    <3>1. installed = Key(incoming)
      BY <1>7, <2>1 DEF Presents, ContentInv
    <3>. QED BY <1>4, <1>7, <2>1, <3>1, SameOfKey DEF ContentInv
  <2>2. CASE ~revealing /\ NowPlaying(frame) /\ NowPlaying(shown)
    <3>1. p = [frame EXCEPT !.fields = shown.fields, !.zone = shown.zone]
      BY <2>2 DEF Presents
    <3>2. p.fields = shown.fields /\ p.zone = shown.zone
      BY <1>1, <3>1
    <3>. QED BY <1>2, <1>7, <2>2, <3>2 DEF Same, ContentInv, NowPlaying
  <2>3. CASE ~revealing /\ ~(NowPlaying(frame) /\ NowPlaying(shown))
    <3>1. p = frame
      BY <2>3 DEF Presents
    <3>2. NowPlaying(frame) <=> NowPlaying(selected.content)
      BY <1>1 DEF NowPlaying
    <3>3. NowPlaying(shown) <=> NowPlaying(selected.content)
      <4>1. CASE selected = displayed
        BY <4>1 DEF ContentInv
      <4>2. CASE selected = incoming /\ NowPlaying(incoming.content) /\ NowPlaying(displayed.content)
        BY <4>2 DEF ContentInv
      <4>. QED BY <2>3, <4>1, <4>2 DEF Presents
    <3>4. ~NowPlaying(p) /\ ~NowPlaying(shown)
      BY <2>3, <3>1, <3>2, <3>3
    <3>. QED BY <1>7, <3>4 DEF Same, ContentInv
  <2>. QED BY <2>1, <2>2, <2>3
<1>8. NowPlaying(p) <=> NowPlaying(selected.content)
  BY <1>1, <1>2 DEF NowPlaying
<1>. QED BY <1>1, <1>2, <1>3, <1>5, <1>6, <1>7, <1>8

(* Without animations a request is fulfilled at once, whenever it comes.     *)
LEMMA StillRequestInv ==
  ASSUME NEW fs, FieldsInv(fs), NEW p, NEW t
  PROVE  FieldsInv(RequestFields(fs, p, t, FALSE))
<1>1. ASSUME NEW f \in AllFields
      PROVE  FieldInv(RequestFields(fs, p, t, FALSE)[f])
  <2>1. PICK s, target : s = fs[f] /\ target = FieldValue(f, p)
    OBVIOUS
  <2>2. PICK r : r = RequestedField(s, target, t, FALSE)
    OBVIOUS
  <2>3. RequestFields(fs, p, t, FALSE)[f] = r
    BY <2>1, <2>2 DEF RequestFields
  <2>4. FieldInv(s)
    BY <2>1 DEF FieldsInv
  <2>5. r = [displayed |-> target, target |-> target, departure |-> None, reveal |-> None,
             opacity |-> Scale, visible |-> s.visible, movement |-> None, reflow |-> s.reflow]
    BY <2>2, <2>4, RequestedStill, Zenon
  <2>6. FieldInv(r)
    BY <2>5, EasingAssumption DEF FieldInv, Shape
  <2>. QED BY <2>3, <2>6
<1>. QED BY <1>1 DEF FieldsInv

(* So is one for what the fields have been asked for already.              *)
LEMMA RequestAgainInv ==
  ASSUME NEW fs, FieldsInv(fs), NEW p, NEW t, NEW animated \in BOOLEAN, animated => AskedFor(fs, p)
  PROVE  FieldsInv(RequestFields(fs, p, t, animated))
<1>1. CASE animated
  <2>1. KeptAll(fs, fs, t)
    BY DEF KeptAll, Kept, FieldsInv
  <2>2. AskedFor(fs, p)
    BY <1>1
  <2>3. RequestFields(fs, p, t, animated) = RequestFields(fs, p, t, TRUE)
    BY <1>1, Zenon
  <2>4. KeptAll(fs, RequestFields(fs, p, t, animated), t)
    BY <2>1, <2>2, <2>3, RepeatedRequest
  <2>. QED BY <2>4 DEF KeptAll, Kept, FieldsInv
<1>2. CASE ~animated
  <2>1. RequestFields(fs, p, t, animated) = RequestFields(fs, p, t, FALSE)
    BY <1>2, Zenon
  <2>. QED BY <2>1, StillRequestInv
<1>. QED BY <1>1, <1>2

(* A view that replaces another.                                           *)
LEMMA ReplacedFieldsInv ==
  ASSUME NEW v, FieldsInv(v.fields), NEW prepared, NEW p, NEW revision, NEW t, NEW animated \in BOOLEAN,
         animated /\ NowPlaying(v.latest) => AskedFor(v.fields, p)
  PROVE  FieldsInv(Replaced(v, prepared, p, revision, t, animated).fields)
<1> DEFINE asked == RequestFields(v.fields, p, t, animated)
<1>1. Replaced(v, prepared, p, revision, t, animated).fields =
        IF NowPlaying(v.latest) /\ NowPlaying(p) THEN RevealPrepared(Reflowed(asked), p, t)
        ELSE IF animated /\ NowPlaying(p) THEN RevealAll(NewForeground(prepared), t)
        ELSE NewForeground(prepared)
  BY ReplacedIs
<1>2. NowPlaying(v.latest) => FieldsInv(asked)
  BY RequestAgainInv
<1> HIDE DEF asked
<1>3. NowPlaying(v.latest) => FieldsInv(RevealPrepared(Reflowed(asked), p, t))
  BY <1>2, ReflowedInv, RevealPreparedInv
<1>. QED BY <1>1, <1>3, NewForegroundInv

(* The view with which a frame begins: all its fields have been asked for     *)
(* what is to come, if it is a replacement.                                *)
LEMMA Begun ==
  ASSUME ViewInv, view # None, NEW animated \in BOOLEAN, NEW replacement \in BOOLEAN,
         NEW destination, NEW v0,
         v0 = IF replacement /\ view # None THEN Departing(view, destination, now, animated) ELSE view
  PROVE  /\ IsView(v0) /\ v0.prepared = view.prepared /\ v0.latest = view.latest
         /\ FieldsInv(v0.fields)
         /\ animated => KeptAll(view.fields, v0.fields, now)
         /\ animated /\ replacement /\ NowPlaying(view.latest) => AskedFor(v0.fields, destination)
<1> DEFINE asked == RequestFields(view.fields, destination, now, animated)
<1>1. IsView(view) /\ FieldsInv(view.fields) /\ now \in Int
  BY DEF ViewInv
<1>2. /\ IsView(v0) /\ v0.prepared = view.prepared /\ v0.latest = view.latest
      /\ v0.fields = IF replacement /\ NowPlaying(view.latest) THEN asked ELSE view.fields
  BY <1>1, DepartingIs
<1>3. FieldsInv(asked)
  BY <1>1, RequestFieldsInv
<1>4. ASSUME animated
      PROVE  KeptAll(view.fields, asked, now) /\ AskedFor(asked, destination)
  <2>1. asked = RequestFields(view.fields, destination, now, TRUE)
    BY <1>4, Zenon
  <2>. QED BY <1>1, <2>1, FirstRequest
<1>5. KeptAll(view.fields, view.fields, now)
  BY <1>1 DEF KeptAll, Kept, FieldsInv
<1> HIDE DEF asked
<1>. QED BY <1>1, <1>2, <1>3, <1>4, <1>5

(* The view that draws a frame is the last one or has just been prepared.    *)
GivenInv(revealing, v1) ==
  /\ IsView(v1) /\ FieldsInv(v1.fields)
  /\ revealing /\ ready # None => v1.prepared = ready.of
  /\ ~(revealing /\ ready # None) => view # None /\ v1.prepared = view.prepared

(* It has the texts that are prepared.                                      *)
LEMMA Given ==
  ASSUME ContentInv, ViewInv, NEW animated \in BOOLEAN, NEW replacement \in BOOLEAN, NEW revealing \in BOOLEAN,
         NEW selected, NEW frame, NEW p, NEW v0, NEW v1, NEW v3,
         Presents(revealing, selected, frame, p),
         Draws(animated, replacement, revealing, selected.revision, p, v0, v1, v3),
         v1 # None
  PROVE  GivenInv(revealing, v1)
<1>1. v1 = GivenView(v0, replacement, revealing, p, animated)
  BY DEF Draws
<1>2. v0 = IF replacement /\ view # None THEN Departing(view, PresentedAt(incoming, now), now, animated) ELSE view
  BY DEF Draws
<1>3. view # None => /\ IsView(v0) /\ v0.prepared = view.prepared /\ v0.latest = view.latest
                     /\ FieldsInv(v0.fields)
                     /\ animated /\ replacement /\ NowPlaying(view.latest)
                          => AskedFor(v0.fields, PresentedAt(incoming, now))
  BY <1>2, Begun
<1>4. CASE ~(revealing /\ ready # None)
  <2>1. v1 = v0
    BY <1>1, <1>4 DEF GivenView
  <2>2. view # None
    BY <1>2, <2>1
  <2>. QED BY <1>3, <1>4, <2>1, <2>2 DEF GivenInv
<1>5. CASE revealing /\ ready # None /\ view = None
  <2>1. v1 = NewView(ready.of, incoming.revision)
    BY <1>1, <1>5 DEF GivenView
  <2>2. IsView(v1) /\ v1.prepared = ready.of /\ v1.fields = NewForeground(ready.of)
    BY <2>1, NewViewIs
  <2>. QED BY <1>5, <2>2, NewForegroundInv DEF GivenInv
<1>6. CASE revealing /\ ready # None /\ view # None /\ replacement
  <2>1. PICK at, q : at = RevealAt(v0, ready.at) /\ q = ready.of
    OBVIOUS
  <2>2. v1 = Replaced(v0, q, p, incoming.revision, at, animated)
    BY <1>1, <1>6, <2>1 DEF GivenView
  <2>3. p = PresentedAt(incoming, now)
    BY <1>6 DEF Presents
  <2>4. IsView(v1) /\ v1.prepared = q
    BY <2>2, ReplacedIs
  <2>5. animated /\ NowPlaying(v0.latest) => AskedFor(v0.fields, p)
    BY <1>3, <1>6, <2>3
  <2>6. FieldsInv(v0.fields)
    BY <1>3, <1>6
  <2>7. FieldsInv(v1.fields)
    BY <2>2, <2>5, <2>6, ReplacedFieldsInv
  <2>. QED BY <1>6, <2>1, <2>4, <2>7 DEF GivenInv
<1>7. CASE revealing /\ ready # None /\ view # None /\ ~replacement
  <2>1. v1 = Installed(v0, ready.of, ready.at, animated)
    BY <1>1, <1>7 DEF GivenView
  <2>2. /\ IsView(v1) /\ v1.prepared = ready.of
        /\ v1.fields = v0.fields \/ v1.fields = Reflowed(v0.fields)
    BY <1>3, <1>7, <2>1, InstalledIs
  <2>. QED BY <1>3, <1>7, <2>2, ReflowedInv DEF GivenInv
<1>. QED BY <1>4, <1>5, <1>6, <1>7

(* What it observes before it draws.                                       *)
LEMMA ObservedInv ==
  ASSUME NEW v1, IsView(v1), FieldsInv(v1.fields), now \in Int, NEW animated \in BOOLEAN, NEW replacement,
         NEW revealing, NEW revision, NEW p, NEW v0, NEW v3,
         Draws(animated, replacement, revealing, revision, p, v0, v1, v3)
  PROVE  /\ IsView(v3) /\ v3.latest = p /\ v3.prepared = v1.prepared
         /\ v3.fields = v1.fields \/ v3.fields = RequestFields(v1.fields, p, now, animated)
         /\ FieldsInv(v3.fields)
<1>1. PICK v2 : /\ v2 = [v1 EXCEPT !.latest = p, !.revision = revision]
                /\ v3 = Observing(IF animated THEN v2 ELSE Unanimated(v2), now, animated)
  BY DEF Draws
<1>2. IsView(v2) /\ v2.latest = p /\ v2.prepared = v1.prepared /\ v2.fields = v1.fields
  BY <1>1 DEF IsView
<1>3. PICK v : v = IF animated THEN v2 ELSE Unanimated(v2)
  OBVIOUS
<1>4. IsView(v) /\ v.latest = p /\ v.prepared = v1.prepared /\ v.fields = v1.fields
  BY <1>2, <1>3, UnanimatedIs
<1>5. v3 = Observing(v, now, animated)
  BY <1>1, <1>3, Zenon
<1>6. /\ IsView(v3) /\ v3.latest = p /\ v3.prepared = v1.prepared
      /\ v3.fields = v1.fields \/ v3.fields = RequestFields(v1.fields, p, now, animated)
  BY <1>4, <1>5, ObservingIs
<1>7. FieldsInv(RequestFields(v1.fields, p, now, animated))
  BY RequestFieldsInv
<1>. QED BY <1>6, <1>7

(* The invariant holds after a frame.                                      *)
LEMMA RenderInv ==
  ASSUME ContentInv, ViewInv, NEW animated \in BOOLEAN, Render(animated)
  PROVE  ContentInv' /\ ViewInv'
<1>0. PICK replacement \in BOOLEAN, revealing \in BOOLEAN : \E selected, frame, p, v0, v1, v3 :
        /\ Presents(revealing, selected, frame, p)
        /\ Draws(animated, replacement, revealing, selected.revision, p, v0, v1, v3)
        /\ Shows(animated, revealing, selected, p, v1, v3)
  BY RenderParts, Zenon
<1>1. PICK selected, frame, p, v0, v1, v3 :
        /\ Presents(revealing, selected, frame, p)
        /\ Draws(animated, replacement, revealing, selected.revision, p, v0, v1, v3)
        /\ Shows(animated, revealing, selected, p, v1, v3)
  BY <1>0, Zenon
<1>2. /\ NowPlaying(p) <=> NowPlaying(selected.content)
      /\ revealing /\ ready # None => KeyOf(Key(requested), ready.of) /\ Same(ready.of, p)
      /\ view # None /\ ~(revealing /\ ready # None) => Same(view.prepared, p)
  BY <1>1, PresentedAsPrepared, Zenon
<1>3. /\ displayed' = selected /\ shown' = p
      /\ revealing /\ ready # None => installed' = Key(requested) /\ ready' = None
      /\ ~(revealing /\ ready # None) => installed' = installed /\ ready' = ready
      /\ incoming' = incoming /\ requested' = requested /\ now' = now
  BY <1>1 DEF Shows
<1>4. Key(incoming') = Key(requested')
  BY <1>3 DEF ContentInv
<1>5. ready' # None => ready'.of = PresentedAt(requested', requested'.at)
  BY <1>3 DEF ContentInv
<1>6. NowPlaying(shown') <=> NowPlaying(displayed'.content)
  BY <1>2, <1>3
<1>7. now \in Nat /\ drawn.at \in 0..now
  BY DEF ViewInv
<1>8. CASE v1 = None
  <2>1. view' = None /\ drawn' = [drawn EXCEPT !.at = now]
    BY <1>1, <1>8 DEF Shows
  <2>2. "at" \in DOMAIN drawn' /\ drawn'.at = now
    BY <2>1 DEF ViewInv
  <2>. QED BY <1>3, <1>4, <1>5, <1>6, <1>7, <2>1, <2>2 DEF ContentInv, ViewInv
<1>9. CASE v1 # None
  <2>1. view' = DrawnView(v3, now, animated) /\ drawn' = Frame(v3, view', now, animated)
    BY <1>1, <1>9 DEF Shows
  <2>2. GivenInv(revealing, v1)
    BY <1>1, <1>9, Given, Zenon
  <2>3. IsView(v3) /\ v3.latest = p /\ v3.prepared = v1.prepared /\ FieldsInv(v3.fields)
    <3>1. now \in Int
      BY <1>7
    <3>. QED BY <1>1, <2>2, <3>1, ObservedInv DEF GivenInv
  <2>4. PICK w : w = view'
    OBVIOUS
  <2>5. /\ IsView(w) /\ w.prepared = v3.prepared /\ w.latest = p
        /\ w.fields = IF NowPlaying(p) THEN ApplyFields(v3.fields, Sprites(v3), p, now, animated) ELSE v3.fields
    BY <2>1, <2>3, <2>4, DrawnViewIs
  <2>6. FieldsInv(w.fields) /\ (NowPlaying(p) => GoneBy(w.fields, now))
    BY <2>3, <2>5, ApplyFieldsInv
  <2>7. /\ "at" \in DOMAIN drawn' /\ drawn'.at = now /\ drawn'.full = ~NowPlaying(p)
        /\ \A f \in AllFields : drawn'.fields[f] = [value |-> w.fields[f].visible, opacity |-> w.fields[f].opacity]
    BY <2>1, <2>3, <2>4, FrameIs
  <2>8. KeyOf(installed', w.prepared) /\ Same(w.prepared, p)
    BY <1>2, <1>3, <2>2, <2>3, <2>5 DEF ContentInv, GivenInv
  <2>9. ContentInv'
    BY <1>3, <1>4, <1>5, <1>6, <2>4, <2>8 DEF ContentInv
  <2>10. ViewInv'
    BY <1>3, <1>7, <2>4, <2>5, <2>6, <2>7 DEF ViewInv
  <2>. QED BY <2>9, <2>10
<1>. QED BY <1>8, <1>9

-----------------------------------------------------------------------------
(* No obsolete destination appears                                         *)

(* What a frame with animations makes of the fields before it draws them.   *)
LEMMA GivenSucceeds ==
  ASSUME ContentInv, ViewInv, NEW replacement \in BOOLEAN, NEW revealing \in BOOLEAN,
         NEW selected, NEW frame, NEW p, NEW v0, NEW v1, NEW v3,
         Presents(revealing, selected, frame, p),
         Draws(TRUE, replacement, revealing, selected.revision, p, v0, v1, v3),
         view # None, NowPlaying(shown), NowPlaying(p)
  PROVE  SucceedAll(view.fields, v1.fields, now, p)
<1>0. PICK animated \in BOOLEAN : animated = TRUE
  OBVIOUS
<1>1. v1 = GivenView(v0, replacement, revealing, p, TRUE)
  BY DEF Draws
<1>2. v0 = IF replacement /\ view # None THEN Departing(view, PresentedAt(incoming, now), now, TRUE) ELSE view
  BY DEF Draws
<1>3. NowPlaying(view.latest)
  BY DEF ViewInv
<1>4. /\ IsView(v0) /\ v0.latest = view.latest /\ KeptAll(view.fields, v0.fields, now)
      /\ replacement => AskedFor(v0.fields, PresentedAt(incoming, now))
  BY <1>2, <1>3, Begun
<1>5. CASE ~(revealing /\ ready # None)
  <2>1. v1 = v0
    BY <1>1, <1>5 DEF GivenView
  <2>. QED BY <1>4, <2>1, KeptSucceed
<1>6. CASE revealing /\ ready # None /\ replacement
  <2>1. PICK at, q : at = RevealAt(v0, ready.at) /\ q = ready.of
    OBVIOUS
  <2>2. v1 = Replaced(v0, q, p, incoming.revision, at, animated)
    BY <1>0, <1>1, <1>6, <2>1 DEF GivenView
  <2>3. p = PresentedAt(incoming, now)
    BY <1>6 DEF Presents
  <2>4. PICK asked : asked = RequestFields(v0.fields, p, at, animated)
    OBVIOUS
  <2>5. v1.fields = RevealPrepared(Reflowed(asked), p, at)
    BY <1>3, <1>4, <2>2, <2>4, ReplacedIs
  <2>6. KeptAll(view.fields, asked, now)
    BY <1>0, <1>4, <1>6, <2>3, <2>4, RepeatedRequest
  <2>7. SucceedAll(view.fields, Reflowed(asked), now, p)
    BY <2>6, KeptReflowed, KeptSucceed
  <2>. QED BY <2>5, <2>7, RevealSucceeds
<1>7. CASE revealing /\ ready # None /\ ~replacement
  <2>1. v1 = Installed(v0, ready.of, ready.at, animated)
    BY <1>0, <1>1, <1>7 DEF GivenView
  <2>2. v1.fields = v0.fields \/ v1.fields = Reflowed(v0.fields)
    BY <1>4, <2>1, InstalledIs
  <2>3. KeptAll(view.fields, v1.fields, now)
    BY <1>4, <2>2, KeptReflowed
  <2>. QED BY <2>3, KeptSucceed
<1>. QED BY <1>5, <1>6, <1>7

(* What is drawn of each field.                                            *)
LEMMA RenderShows ==
  ASSUME ContentInv, ViewInv, Render(TRUE), view # None, view' # None,
         NowPlaying(shown), NowPlaying(shown')
  PROVE  \A f \in AllFields : NoneObsolete(view.fields[f], view'.fields[f])
<1>1. PICK replacement \in BOOLEAN, revealing \in BOOLEAN : \E selected, frame, p, v0, v1, v3 :
        /\ Presents(revealing, selected, frame, p)
        /\ Draws(TRUE, replacement, revealing, selected.revision, p, v0, v1, v3)
        /\ Shows(TRUE, revealing, selected, p, v1, v3)
  BY RenderParts, Zenon
<1>2. PICK selected, frame, p, v0, v1, v3 :
        /\ Presents(revealing, selected, frame, p)
        /\ Draws(TRUE, replacement, revealing, selected.revision, p, v0, v1, v3)
        /\ Shows(TRUE, revealing, selected, p, v1, v3)
  BY <1>1, Zenon
<1>3. /\ revealing /\ ready # None => Same(ready.of, p)
      /\ view # None /\ ~(revealing /\ ready # None) => Same(view.prepared, p)
  BY <1>2, PresentedAsPrepared, Zenon
<1>4. v1 # None /\ shown' = p /\ view' = DrawnView(v3, now, TRUE)
  BY <1>2 DEF Shows
<1>5. GivenInv(revealing, v1)
  BY <1>2, <1>4, Given, Zenon
<1>6. now \in Int /\ drawn.at \in Int /\ drawn.at <= now
  BY DEF ViewInv
<1>7. /\ IsView(v3) /\ v3.latest = p /\ v3.prepared = v1.prepared
      /\ v3.fields = v1.fields \/ v3.fields = RequestFields(v1.fields, p, now, TRUE)
  <2>1. PICK animated \in BOOLEAN : animated = TRUE
    OBVIOUS
  <2>2. IsView(v1) /\ FieldsInv(v1.fields)
    BY <1>5 DEF GivenInv
  <2>3. Draws(animated, replacement, revealing, selected.revision, p, v0, v1, v3)
    BY <1>2, <2>1, Zenon
  <2>4. /\ IsView(v3) /\ v3.latest = p /\ v3.prepared = v1.prepared
        /\ v3.fields = v1.fields \/ v3.fields = RequestFields(v1.fields, p, now, animated)
    BY <1>6, <2>2, <2>3, ObservedInv
  <2>. QED BY <2>1, <2>4, Zenon
<1>8. SucceedAll(view.fields, v1.fields, now, p)
  BY <1>2, <1>4, GivenSucceeds, Zenon
<1>9. SucceedAll(view.fields, v3.fields, now, p)
  BY <1>6, <1>7, <1>8, LaterRequest
<1>10. Same(v3.prepared, p)
  BY <1>3, <1>5, <1>7 DEF GivenInv
<1>11. ASSUME NEW f \in AllFields
       PROVE  Sprites(v3)[f] = FieldValue(f, p)
  <2>1. CASE f = "status"
    BY <1>4, <1>7, <2>1 DEF Sprites, FieldValue
  <2>2. CASE f # "status"
    <3>1. Sprites(v3)[f] = FieldValue(f, v3.prepared)
      BY <2>2 DEF Sprites
    <3>. QED BY <1>10, <2>2, <3>1, SameValues
  <2>. QED BY <2>1, <2>2
<1>12. PICK sprites : sprites = Sprites(v3)
  OBVIOUS
<1>13. view'.fields = ApplyFields(v3.fields, sprites, p, now, TRUE)
  BY <1>4, <1>7, <1>12, DrawnViewIs
<1>14. FieldsInv(view.fields) /\ GoneBy(view.fields, drawn.at)
  BY DEF ViewInv
<1>15. \A f \in AllFields : NoneObsolete(view.fields[f], ApplyFields(v3.fields, sprites, p, now, TRUE)[f])
  BY <1>6, <1>9, <1>11, <1>12, <1>14, ApplySucceeds
<1>. QED BY <1>13, <1>15

(* The inductive invariant.                                                 *)
ContentAndView == ContentInv /\ ViewInv

LEMMA InitInv == Init => ContentAndView
<1> SUFFICES ASSUME Init
             PROVE  ContentAndView
  OBVIOUS
<1>1. shown = PresentedAt(incoming, 0) /\ displayed = incoming /\ requested = incoming
      /\ ready = None /\ view = None /\ now = 0
  BY DEF Init
<1>2. shown.kind = incoming.content.kind
  BY <1>1, PresentedIs
<1>3. ContentInv
  BY <1>1, <1>2 DEF ContentInv, NowPlaying
<1>4. "at" \in DOMAIN drawn /\ drawn.at = 0
  BY DEF Init, NoFrame
<1>. QED BY <1>1, <1>3, <1>4 DEF ViewInv, ContentAndView

LEMMA NextInv == ContentAndView /\ [Next]_vars => ContentAndView'
<1> SUFFICES ASSUME ContentAndView, [Next]_vars
             PROVE  ContentAndView'
  OBVIOUS
<1>0. ContentInv /\ ViewInv
  BY DEF ContentAndView
<1>1. ASSUME NEW p \in Contents, Receive(p)
      PROVE  ContentAndView'
  <2>1. UNCHANGED <<displayed, shown, installed, view, now, drawn>>
    BY <1>1 DEF Receive
  <2>2. Key(incoming') = Key(requested') /\ (ready' # None => ready'.of = PresentedAt(requested', requested'.at))
    <3>1. CASE Key(incoming') = Key(requested)
      BY <1>0, <1>1, <3>1 DEF Receive, ContentInv
    <3>2. CASE Key(incoming') # Key(requested)
      BY <1>1, <3>2 DEF Receive
    <3>. QED BY <3>1, <3>2
  <2>3. ContentInv'
    BY <1>0, <2>1, <2>2 DEF ContentInv
  <2>4. ViewInv'
    BY <1>0, <2>1 DEF ViewInv
  <2>. QED BY <2>3, <2>4 DEF ContentAndView
<1>2. CASE Prepare
  <2>1. /\ ready' = [of |-> PresentedAt(requested, requested.at), at |-> now]
        /\ UNCHANGED <<incoming, displayed, shown, requested, installed, view, now, drawn>>
    BY <1>2 DEF Prepare
  <2>2. ContentInv'
    BY <1>0, <2>1 DEF ContentInv
  <2>3. ViewInv'
    BY <1>0, <2>1 DEF ViewInv
  <2>. QED BY <2>2, <2>3 DEF ContentAndView
<1>3. ASSUME NEW animated \in BOOLEAN, Render(animated)
      PROVE  ContentAndView'
  <2>1. ContentInv' /\ ViewInv'
    BY <1>0, <1>3, RenderInv
  <2>. QED BY <2>1 DEF ContentAndView
<1>4. CASE Tick
  <2>1. now' = now + 1 /\ UNCHANGED <<incoming, displayed, shown, requested, ready, installed, view, drawn>>
    BY <1>4 DEF Tick
  <2>2. ContentInv'
    BY <1>0, <2>1 DEF ContentInv
  <2>3. ViewInv'
    BY <1>0, <2>1 DEF ViewInv
  <2>. QED BY <2>2, <2>3 DEF ContentAndView
<1>5. CASE UNCHANGED vars
  <2>1. UNCHANGED <<incoming, displayed, shown, requested, ready, installed, view, now, drawn>>
    BY <1>5 DEF vars
  <2>2. ContentInv'
    BY <1>0, <2>1 DEF ContentInv
  <2>3. ViewInv'
    BY <1>0, <2>1 DEF ViewInv
  <2>. QED BY <2>2, <2>3 DEF ContentAndView
<1>. QED BY <1>1, <1>2, <1>3, <1>4, <1>5 DEF Next

(* The texts of the worker are those of what is presented, and the view is   *)
(* that of the frame drawn last.                                           *)
THEOREM ViewFollowsContent == Spec => []ContentAndView
BY InitInv, NextInv, PTL DEF Spec

(* No obsolete destination appears (selective_foreground.rs:90-140,          *)
(* 162-164): from one animated frame to the next, a field counts as replaced *)
(* only when it is drawn so, and what fades in is what was last asked for,   *)
(* unless a frame without animations has left an old text behind.           *)
THEOREM NothingObsoleteAppears == Spec => RevealsWhatIsAskedFor
<1> DEFINE Fresh == (Framed /\ ~drawn.full /\ ~drawn'.full) =>
       \A f \in AllFields :
         /\ view'.fields[f].displayed # view.fields[f].displayed
              => drawn'.fields[f].value \in {None, view'.fields[f].displayed}
         /\ drawn'.fields[f].opacity > drawn.fields[f].opacity
              => \/ drawn'.fields[f].value \in {None, view'.fields[f].target}
                 \/ drawn.fields[f].value \notin {None, view.fields[f].displayed}
<1>1. ContentAndView /\ ContentAndView' /\ [Next]_vars => [Fresh]_vars
  <2> SUFFICES ASSUME ContentAndView, ContentAndView', [Next]_vars, Framed, ~drawn.full, ~drawn'.full
               PROVE  Fresh
    OBVIOUS
  <2>0. ContentInv /\ ViewInv /\ ViewInv'
    BY DEF ContentAndView
  <2>1. view # None /\ view' # None /\ drawn' # drawn /\ drawn'.animated
    BY DEF Framed
  <2>2. PICK animated \in BOOLEAN : Render(animated)
    BY <2>1 DEF Next, Receive, Prepare, Tick, vars
  <2>3. drawn'.animated = animated
    <3>1. PICK replacement \in BOOLEAN, revealing \in BOOLEAN : \E selected, frame, p, v0, v1, v3 :
            /\ Presents(revealing, selected, frame, p)
            /\ Draws(animated, replacement, revealing, selected.revision, p, v0, v1, v3)
            /\ Shows(animated, revealing, selected, p, v1, v3)
      BY <2>0, <2>2, RenderParts, Zenon
    <3>2. PICK selected, p, v1, v3 : Shows(animated, revealing, selected, p, v1, v3)
      BY <3>1, Zenon
    <3>3. drawn' = Frame(v3, view', now, animated)
      BY <2>1, <3>2 DEF Shows
    <3>. QED BY <3>3, FrameIs
  <2>4. Render(TRUE)
    <3>1. animated = TRUE
      BY <2>1, <2>3
    <3>. QED BY <2>2, <3>1, Zenon
  <2>5. NowPlaying(shown) /\ NowPlaying(shown')
    BY <2>0, <2>1 DEF ViewInv
  <2>6. \A f \in AllFields : NoneObsolete(view.fields[f], view'.fields[f])
    BY <2>0, <2>1, <2>4, <2>5, RenderShows
  <2>7. ASSUME NEW f \in AllFields
        PROVE  /\ drawn.fields[f].value = view.fields[f].visible
               /\ drawn.fields[f].opacity = view.fields[f].opacity
               /\ drawn'.fields[f].value = view'.fields[f].visible
               /\ drawn'.fields[f].opacity = view'.fields[f].opacity
    <3>1. drawn.fields[f] = [value |-> view.fields[f].visible, opacity |-> view.fields[f].opacity]
      BY <2>0, <2>1 DEF ViewInv
    <3>2. drawn'.fields[f] = [value |-> view'.fields[f].visible, opacity |-> view'.fields[f].opacity]
      BY <2>0, <2>1 DEF ViewInv
    <3>. QED BY <3>1, <3>2
  <2>8. ASSUME NEW f \in AllFields
        PROVE  /\ view'.fields[f].displayed # view.fields[f].displayed
                    => drawn'.fields[f].value \in {None, view'.fields[f].displayed}
               /\ drawn'.fields[f].opacity > drawn.fields[f].opacity
                    => \/ drawn'.fields[f].value \in {None, view'.fields[f].target}
                       \/ drawn.fields[f].value \notin {None, view.fields[f].displayed}
    BY <2>6, <2>7 DEF NoneObsolete
  <2>. QED BY <2>8
<1>2. Spec => []ContentAndView
  BY ViewFollowsContent
<1>. QED BY <1>1, <1>2, PTL DEF Spec, RevealsWhatIsAskedFor

-----------------------------------------------------------------------------
(* What is drawn was presented                                             *)

(* The values that have been presented, and none.                          *)
Values == {FieldValue(f, p) : f \in AllFields, p \in received} \cup {None}

(* The fields show values of a set.                                         *)
ShownOf(fs, values) == \A f \in AllFields : fs[f].visible \in values

(* No operation but the drawing of a frame shows another value.             *)
LEMMA RequestShows ==
  ASSUME NEW fs, FieldsInv(fs), NEW values, ShownOf(fs, values), NEW p, NEW t, NEW animated \in BOOLEAN
  PROVE  ShownOf(RequestFields(fs, p, t, animated), values)
<1>1. ASSUME NEW f \in AllFields
      PROVE  RequestFields(fs, p, t, animated)[f].visible \in values
  <2>1. PICK s, target : s = fs[f] /\ target = FieldValue(f, p)
    OBVIOUS
  <2>2. RequestFields(fs, p, t, animated)[f] = RequestedField(s, target, t, animated)
    BY <2>1 DEF RequestFields
  <2>3. FieldInv(s) /\ s.visible \in values
    BY <2>1 DEF FieldsInv, ShownOf
  <2>4. PICK r : r = RequestedField(s, target, t, animated)
    OBVIOUS
  <2>5. r.visible = s.visible
    <3>1. CASE animated
      <4>1. r = RequestedField(s, target, t, TRUE)
        BY <2>4, <3>1, Zenon
      <4>2. RequestOf(s, target, t, r)
        BY <2>3, <4>1, RequestedCases, Zenon
      <4>. QED BY <4>2 DEF RequestOf
    <3>2. CASE ~animated
      <4>1. r = [displayed |-> target, target |-> target, departure |-> None, reveal |-> None,
                 opacity |-> Scale, visible |-> s.visible, movement |-> None, reflow |-> s.reflow]
        BY <2>3, <2>4, <3>2, RequestedStill, Zenon
      <4>. QED BY <4>1
    <3>. QED BY <3>1, <3>2
  <2>. QED BY <2>2, <2>3, <2>4, <2>5
<1>. QED BY <1>1 DEF ShownOf

LEMMA RevealedShows ==
  ASSUME NEW fs, FieldsInv(fs), NEW values, ShownOf(fs, values), NEW p, NEW t
  PROVE  ShownOf(RevealPrepared(fs, p, t), values)
<1>1. ASSUME NEW f \in AllFields
      PROVE  Revealed(fs[f], t).visible \in values
  <2>1. PICK s : s = fs[f]
    OBVIOUS
  <2>2. FieldInv(s) /\ s.visible \in values
    BY <2>1 DEF FieldsInv, ShownOf
  <2>3. PICK r : r = Revealed(s, t)
    OBVIOUS
  <2>4. /\ s.departure = None => r = s
        /\ s.departure # None =>
             r = [displayed |-> s.target, target |-> s.target, departure |-> None,
                  reveal |-> [at |-> t, from |-> 0],
                  opacity |-> 0, visible |-> s.visible, movement |-> None, reflow |-> "replacement"]
    BY <2>2, <2>3, RevealedInv
  <2>5. r.visible = s.visible
    BY <2>4
  <2>. QED BY <2>1, <2>2, <2>3, <2>5
<1>2. RevealPrepared(fs, p, t) = fs \/ RevealPrepared(fs, p, t) = [f \in AllFields |-> Revealed(fs[f], t)]
  BY DEF RevealPrepared
<1>. QED BY <1>1, <1>2 DEF ShownOf

LEMMA ReflowedShows ==
  ASSUME NEW fs, FieldsInv(fs), NEW values, ShownOf(fs, values)
  PROVE  ShownOf(Reflowed(fs), values)
<1>1. ASSUME NEW f \in AllFields
      PROVE  Reflowed(fs)[f].visible \in values
  <2>1. Reflowed(fs)[f] = [fs[f] EXCEPT !.reflow = "retained"]
    BY DEF Reflowed
  <2>2. Shape(fs[f]) /\ fs[f].visible \in values
    BY DEF FieldsInv, FieldInv, ShownOf
  <2>. QED BY <2>1, <2>2, ReflowedIs
<1>. QED BY <1>1 DEF ShownOf

LEMMA AppliedShows ==
  ASSUME NEW fs, FieldsInv(fs), NEW values, ShownOf(fs, values), NEW sprites,
         \A f \in AllFields : sprites[f] \in values, NEW p, NEW t, NEW animated
  PROVE  ShownOf(ApplyFields(fs, sprites, p, t, animated), values)
<1>1. PICK revealed : revealed = RevealPrepared(fs, p, t)
  OBVIOUS
<1>2. PICK departing \in BOOLEAN : departing = \E f \in AllFields : revealed[f].departure # None
  OBVIOUS
<1>3. FieldsInv(revealed) /\ ShownOf(revealed, values)
  BY <1>1, RevealPreparedInv, RevealedShows
<1>4. ASSUME NEW f \in AllFields
      PROVE  ApplyFields(fs, sprites, p, t, animated)[f].visible \in values
  <2>1. PICK s, value, sprite : s = revealed[f] /\ value = FieldValue(f, p) /\ sprite = sprites[f]
    OBVIOUS
  <2>2. PICK a : a = AppliedField(s, value, sprite, departing, t, animated)
    OBVIOUS
  <2>3. ApplyFields(fs, sprites, p, t, animated)[f] = a
    BY <1>1, <1>2, <2>1, <2>2, Zenon DEF ApplyFields
  <2>4. FieldInv(s) /\ s.visible \in values /\ sprite \in values
    BY <1>3, <2>1 DEF FieldsInv, ShownOf
  <2>5. a.visible = s.visible \/ a.visible = sprite
    BY <2>2, <2>4, AppliedIs
  <2>. QED BY <2>3, <2>4, <2>5
<1>. QED BY <1>4 DEF ShownOf

LEMMA ReplacedShows ==
  ASSUME NEW v, FieldsInv(v.fields), NEW prepared, NEW p, NEW revision, NEW t, NEW animated \in BOOLEAN,
         animated /\ NowPlaying(v.latest) => AskedFor(v.fields, p),
         NEW values, None \in values, ShownOf(v.fields, values)
  PROVE  ShownOf(Replaced(v, prepared, p, revision, t, animated).fields, values)
<1> DEFINE asked == RequestFields(v.fields, p, t, animated)
<1>1. Replaced(v, prepared, p, revision, t, animated).fields =
        IF NowPlaying(v.latest) /\ NowPlaying(p) THEN RevealPrepared(Reflowed(asked), p, t)
        ELSE IF animated /\ NowPlaying(p) THEN RevealAll(NewForeground(prepared), t)
        ELSE NewForeground(prepared)
  BY ReplacedIs
<1>2. NowPlaying(v.latest) => FieldsInv(asked)
  BY RequestAgainInv
<1>3. ShownOf(asked, values)
  BY RequestShows
<1> HIDE DEF asked
<1>4. NowPlaying(v.latest) => ShownOf(RevealPrepared(Reflowed(asked), p, t), values)
  BY <1>2, <1>3, ReflowedInv, ReflowedShows, RevealedShows
<1>5. ShownOf(RevealAll(NewForeground(prepared), t), values) /\ ShownOf(NewForeground(prepared), values)
  BY NewForegroundInv DEF ShownOf
<1>. QED BY <1>1, <1>4, <1>5

(* Presentations and revisions are those of the states that were received.   *)
HistoryInv ==
  /\ incoming.generation \in Nat /\ generation \in 0..incoming.generation
  /\ incoming.revision \in Nat /\ displayed.revision \in 0..incoming.revision
  /\ {PresentedAt(incoming, incoming.at), PresentedAt(displayed, displayed.at),
      PresentedAt(requested, requested.at)} \subseteq received
  /\ ready # None => ready.at \in 0..now
  /\ view # None => view.prepared \in received /\ ShownOf(view.fields, Values)

(* What the view of a frame shows before it is drawn.                      *)
LEMMA GivenShows ==
  ASSUME ContentInv, ViewInv, HistoryInv,
         NEW animated \in BOOLEAN, NEW replacement \in BOOLEAN, NEW revealing \in BOOLEAN,
         NEW selected, NEW frame, NEW p, NEW v0, NEW v1, NEW v3,
         Presents(revealing, selected, frame, p),
         Draws(animated, replacement, revealing, selected.revision, p, v0, v1, v3),
         v1 # None
  PROVE  v1.prepared \in received /\ ShownOf(v1.fields, Values)
<1>1. v1 = GivenView(v0, replacement, revealing, p, animated)
  BY DEF Draws
<1>2. v0 = IF replacement /\ view # None THEN Departing(view, PresentedAt(incoming, now), now, animated) ELSE view
  BY DEF Draws
<1>3. view # None => /\ IsView(v0) /\ v0.latest = view.latest /\ FieldsInv(v0.fields)
                     /\ animated /\ replacement /\ NowPlaying(view.latest)
                          => AskedFor(v0.fields, PresentedAt(incoming, now))
  BY <1>2, Begun
<1>4. view # None => ShownOf(v0.fields, Values)
  <2>1. SUFFICES ASSUME view # None
                 PROVE  ShownOf(v0.fields, Values)
    OBVIOUS
  <2>2. IsView(view) /\ FieldsInv(view.fields) /\ ShownOf(view.fields, Values)
    BY <2>1 DEF ViewInv, HistoryInv
  <2>3. v0.fields = view.fields \/ v0.fields = RequestFields(view.fields, PresentedAt(incoming, now), now, animated)
    BY <1>2, <2>2, DepartingIs
  <2>4. ShownOf(RequestFields(view.fields, PresentedAt(incoming, now), now, animated), Values)
    BY <2>2, RequestShows
  <2>. QED BY <2>2, <2>3, <2>4
<1>5. v1.prepared \in received
  <2>1. GivenInv(revealing, v1)
    BY Given, Zenon
  <2>. QED BY <2>1 DEF GivenInv, HistoryInv, ContentInv
<1>6. None \in Values
  BY DEF Values
<1>7. CASE ~(revealing /\ ready # None)
  <2>1. v1 = v0
    BY <1>1, <1>7 DEF GivenView
  <2>. QED BY <1>2, <1>4, <1>5, <2>1
<1>8. CASE revealing /\ ready # None /\ view = None
  <2>1. v1 = NewView(ready.of, incoming.revision)
    BY <1>1, <1>8 DEF GivenView
  <2>2. v1.fields = NewForeground(ready.of)
    BY <2>1, NewViewIs
  <2>. QED BY <1>5, <1>6, <2>2, NewForegroundInv DEF ShownOf
<1>9. CASE revealing /\ ready # None /\ view # None /\ replacement
  <2>1. PICK at, q : at = RevealAt(v0, ready.at) /\ q = ready.of
    OBVIOUS
  <2>2. v1 = Replaced(v0, q, p, incoming.revision, at, animated)
    BY <1>1, <1>9, <2>1 DEF GivenView
  <2>3. p = PresentedAt(incoming, now)
    BY <1>9 DEF Presents
  <2>4. animated /\ NowPlaying(v0.latest) => AskedFor(v0.fields, p)
    BY <1>3, <1>9, <2>3
  <2>5. FieldsInv(v0.fields) /\ ShownOf(v0.fields, Values)
    BY <1>3, <1>4, <1>9
  <2>6. ShownOf(v1.fields, Values)
    BY <1>6, <2>2, <2>4, <2>5, ReplacedShows
  <2>. QED BY <1>5, <2>6
<1>10. CASE revealing /\ ready # None /\ view # None /\ ~replacement
  <2>1. v1 = Installed(v0, ready.of, ready.at, animated)
    BY <1>1, <1>10 DEF GivenView
  <2>2. v1.fields = v0.fields \/ v1.fields = Reflowed(v0.fields)
    BY <1>3, <1>10, <2>1, InstalledIs
  <2>. QED BY <1>3, <1>4, <1>5, <1>10, <2>2, ReflowedShows
<1>. QED BY <1>7, <1>8, <1>9, <1>10

(* What is received adds to the values.                                    *)
LEMMA MoreValues ==
  ASSUME received \subseteq received'
  PROVE  Values \subseteq Values'
BY DEF Values

(* A frame draws what was received.                                         *)
LEMMA RenderHistory ==
  ASSUME ContentInv, ViewInv, HistoryInv, NEW animated \in BOOLEAN, Render(animated)
  PROVE  HistoryInv'
<1>1. PICK replacement \in BOOLEAN, revealing \in BOOLEAN : \E selected, frame, p, v0, v1, v3 :
        /\ Presents(revealing, selected, frame, p)
        /\ Draws(animated, replacement, revealing, selected.revision, p, v0, v1, v3)
        /\ Shows(animated, revealing, selected, p, v1, v3)
  BY RenderParts, Zenon
<1>2. PICK selected, frame, p, v0, v1, v3 :
        /\ Presents(revealing, selected, frame, p)
        /\ Draws(animated, replacement, revealing, selected.revision, p, v0, v1, v3)
        /\ Shows(animated, revealing, selected, p, v1, v3)
  BY <1>1, Zenon
<1>3. selected \in {incoming, displayed}
  BY <1>2 DEF Presents
<1>4. UNCHANGED <<incoming, requested, now, received>> /\ displayed' = selected
  BY <1>2 DEF Shows
<1>5. generation' \in {generation, incoming.generation} /\ ready' \in {ready, None}
  BY <1>2 DEF Shows
<1>6. /\ incoming'.generation \in Nat /\ generation' \in 0..incoming'.generation
      /\ incoming'.revision \in Nat /\ displayed'.revision \in 0..incoming'.revision
  BY <1>3, <1>4, <1>5 DEF HistoryInv
<1>7. {PresentedAt(incoming', incoming'.at), PresentedAt(displayed', displayed'.at),
       PresentedAt(requested', requested'.at)} \subseteq received'
  BY <1>3, <1>4 DEF HistoryInv
<1>8. ready' # None => ready'.at \in 0..now'
  BY <1>4, <1>5 DEF HistoryInv
<1>9. ASSUME view' # None
      PROVE  view'.prepared \in received /\ ShownOf(view'.fields, Values)
  <2>1. v1 # None /\ view' = DrawnView(v3, now, animated)
    BY <1>2, <1>9 DEF Shows
  <2>2. v1.prepared \in received /\ ShownOf(v1.fields, Values)
    BY <1>2, <2>1, GivenShows, Zenon
  <2>3. GivenInv(revealing, v1)
    BY <1>2, <2>1, Given, Zenon
  <2>4. IsView(v1) /\ FieldsInv(v1.fields) /\ now \in Int
    BY <2>3 DEF GivenInv, ViewInv
  <2>5. /\ IsView(v3) /\ v3.latest = p /\ v3.prepared = v1.prepared
        /\ v3.fields = v1.fields \/ v3.fields = RequestFields(v1.fields, p, now, animated)
        /\ FieldsInv(v3.fields)
    BY <1>2, <2>4, ObservedInv
  <2>6. ShownOf(v3.fields, Values)
    BY <2>2, <2>4, <2>5, RequestShows
  <2>7. PICK sprites : sprites = Sprites(v3)
    OBVIOUS
  <2>8. PICK w : w = view'
    OBVIOUS
  <2>9. /\ w.prepared = v3.prepared
        /\ w.fields = IF NowPlaying(p) THEN ApplyFields(v3.fields, sprites, p, now, animated) ELSE v3.fields
    BY <2>1, <2>5, <2>7, <2>8, DrawnViewIs
  <2>10. ASSUME NowPlaying(p), NEW f \in AllFields
         PROVE  sprites[f] \in Values
    <3>1. CASE f = "status"
      <4>1. NowPlaying(selected.content) /\ p.status = selected.content.status
        <5>1. /\ NowPlaying(p) <=> NowPlaying(selected.content)
              /\ p.status = selected.content.status
          BY <1>2, PresentedAsPrepared
        <5>. QED BY <2>10, <5>1
      <4>2. PICK q : q = PresentedAt(selected, selected.at)
        OBVIOUS
      <4>3. q.kind = selected.content.kind /\ q.status = selected.content.status
        BY <4>2, PresentedIs
      <4>4. FieldValue("status", q) = p.status
        BY <4>1, <4>3 DEF FieldValue, NowPlaying
      <4>5. q \in received
        BY <1>3, <4>2 DEF HistoryInv
      <4>6. sprites[f] = FieldValue(f, q)
        BY <2>5, <2>7, <3>1, <4>4 DEF Sprites
      <4>. QED BY <4>5, <4>6 DEF Values
    <3>2. CASE f # "status"
      <4>1. sprites[f] = FieldValue(f, v3.prepared)
        BY <2>7, <3>2 DEF Sprites
      <4>2. v3.prepared \in received
        BY <2>2, <2>5
      <4>. QED BY <4>1, <4>2 DEF Values
    <3>. QED BY <3>1, <3>2
  <2>11. NowPlaying(p) => ShownOf(ApplyFields(v3.fields, sprites, p, now, animated), Values)
    BY <2>5, <2>6, <2>10, AppliedShows
  <2>. QED BY <2>2, <2>5, <2>6, <2>8, <2>9, <2>11
<1>10. Values' = Values
  BY <1>4 DEF Values
<1>. QED BY <1>4, <1>6, <1>7, <1>8, <1>9, <1>10 DEF HistoryInv

LEMMA HistoryInit == Init => HistoryInv
<1> SUFFICES ASSUME Init
             PROVE  HistoryInv
  OBVIOUS
<1>1. incoming.at = 0 /\ incoming.generation = 0 /\ incoming.revision = 0
  BY DEF Init
<1>. QED BY <1>1 DEF Init, HistoryInv

LEMMA HistoryNext == ContentAndView /\ HistoryInv /\ [Next]_vars => HistoryInv'
<1> SUFFICES ASSUME ContentAndView, HistoryInv, [Next]_vars
             PROVE  HistoryInv'
  OBVIOUS
<1>0. ContentInv /\ ViewInv /\ now \in Nat
  BY DEF ContentAndView, ViewInv
<1>1. ASSUME NEW p \in Contents, Receive(p)
      PROVE  HistoryInv'
  <2>1. /\ UNCHANGED <<displayed, installed, view, generation, now>>
        /\ received' = received \cup {PresentedAt(incoming', now)}
        /\ incoming'.at = now /\ incoming'.revision = incoming.revision + 1
        /\ incoming'.generation \in {incoming.generation, incoming.generation + 1}
    BY <1>1 DEF Receive, HistoryInv
  <2>2. (requested' = requested /\ ready' = ready) \/ (requested' = incoming' /\ ready' = None)
    BY <1>1 DEF Receive
  <2>3. Values \subseteq Values'
    BY <2>1, MoreValues
  <2>4. view # None => ShownOf(view.fields, Values')
    BY <2>3 DEF HistoryInv, ShownOf
  <2>5. /\ incoming'.generation \in Nat /\ generation' \in 0..incoming'.generation
        /\ incoming'.revision \in Nat /\ displayed'.revision \in 0..incoming'.revision
    BY <2>1 DEF HistoryInv
  <2>6. {PresentedAt(incoming', incoming'.at), PresentedAt(displayed', displayed'.at),
         PresentedAt(requested', requested'.at)} \subseteq received'
    BY <2>1, <2>2 DEF HistoryInv
  <2>. QED BY <2>1, <2>2, <2>4, <2>5, <2>6 DEF HistoryInv
<1>2. CASE Prepare
  <2>1. /\ ready'.at = now
        /\ UNCHANGED <<incoming, displayed, requested, view, generation, now, received>>
    BY <1>2 DEF Prepare
  <2>. QED BY <1>0, <2>1 DEF HistoryInv, Values
<1>3. ASSUME NEW animated \in BOOLEAN, Render(animated)
      PROVE  HistoryInv'
  BY <1>0, <1>3, RenderHistory
<1>4. CASE Tick
  <2>1. now' = now + 1 /\ UNCHANGED <<incoming, displayed, requested, ready, view, generation, received>>
    BY <1>4 DEF Tick
  <2>. QED BY <1>0, <2>1 DEF HistoryInv, Values
<1>5. CASE UNCHANGED vars
  <2>1. UNCHANGED <<incoming, displayed, requested, ready, view, generation, now, received>>
    BY <1>5 DEF vars
  <2>. QED BY <2>1 DEF HistoryInv, Values
<1>. QED BY <1>1, <1>2, <1>3, <1>4, <1>5 DEF Next

(* The invariants imply that of the types.                                  *)
LEMMA HistoryTypes == ContentAndView /\ HistoryInv => TypeOK
<1> SUFFICES ASSUME ContentAndView, HistoryInv
             PROVE  TypeOK
  OBVIOUS
<1>1. ASSUME view # None, NEW f \in AllFields
      PROVE  drawn.fields[f] \in DrawnField
  <2>1. drawn.fields[f] = [value |-> view.fields[f].visible, opacity |-> view.fields[f].opacity]
    BY <1>1 DEF ContentAndView, ViewInv
  <2>2. view.fields[f].opacity \in 0..Scale
    BY <1>1 DEF ContentAndView, ViewInv, FieldsInv, FieldInv
  <2>3. view.fields[f].visible \in Values
    BY <1>1 DEF HistoryInv, ShownOf
  <2>4. DrawnField = [value : Values, opacity : 0..Scale]
    BY DEF DrawnField, Values
  <2>. QED BY <2>1, <2>2, <2>3, <2>4
<1>. QED BY <1>1 DEF HistoryInv, TypeOK

(* What is drawn of a field was presented, and neither the view nor the      *)
(* displayed state is ahead of the incoming one (native_view.rs:180-196).   *)
THEOREM NativeViewTypeOK == Spec => []TypeOK
<1>1. Spec => []ContentAndView
  BY ViewFollowsContent
<1>2. Spec => []HistoryInv
  BY <1>1, HistoryInit, HistoryNext, PTL DEF Spec
<1>. QED BY <1>1, <1>2, HistoryTypes, PTL

=============================================================================
