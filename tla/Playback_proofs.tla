--------------------------- MODULE Playback_proofs ---------------------------
(***************************************************************************)
(* What the Renderer fills into incomplete snapshots is of one track and    *)
(* for a limited time, nothing is dimmed early or late, and what moves on   *)
(* the screen moves by the clock; and while one revision is displayed, its  *)
(* position moves by the clock alone, and space is reserved for absent      *)
(* lyrics only while they may still come: for any snapshots, lyrics, graces *)
(* and durations.                                                           *)
(*                                                                          *)
(* The argument of the first part, PresentationTiming: a grace that runs    *)
(* began when timing became incomplete; a duration or position that was     *)
(* carried on was reported in this generation; and the metadata kept has    *)
(* every line of the metadata seen.                                         *)
(*                                                                          *)
(* Of the second, Playback: a frame's position is that of the displayed     *)
(* timing; a timing of the revision of the incoming state is the incoming   *)
(* state; and a timing that takes over the incoming playback is first       *)
(* carried on to this instant.  A motion that waits for lyrics shows none;  *)
(* one that no longer waits takes space for a cue only.                     *)
(***************************************************************************)
EXTENDS Playback, TLAPS

-----------------------------------------------------------------------------
(* Presentation timing                                                     *)

Shots == Snapshots \cup {DisconnectedSnapshot}
Behaviors == {"dynamic", "static"}

StateInv ==
  /\ state = [snapshot |-> state.snapshot, revision |-> state.revision, timing |-> state.timing,
              generation |-> state.generation, condition |-> state.condition,
              since |-> state.since, behavior |-> state.behavior]
  /\ now \in Nat /\ updates \in Nat
  /\ state.snapshot \in Shots /\ state.behavior \in Behaviors
  /\ state.generation \in 0 .. updates /\ state.revision \in 0 .. updates /\ state.since \in 0 .. now
  /\ state.condition = Condition(state.snapshot)
  /\ idle = IF state.condition = None THEN None ELSE now - state.since

(* A position was taken at an earlier time and is within the track.        *)
PositionInv(t, at) ==
  /\ t.duration \in Nat \cup {None}
  /\ t.position # None =>
       /\ t.position = [seconds |-> t.position.seconds, at |-> t.position.at, basis |-> t.position.basis]
       /\ t.position.seconds \in Nat /\ t.position.at \in 0 .. at
       /\ t.duration # None => t.position.seconds <= t.duration

(* A grace runs for as long as timing has been lacking.                    *)
GraceInv(t, s, behavior, at, lack) ==
  /\ t.grace \in {Ready, Expired} \cup {ActiveGrace(x) : x \in 0 .. at}
  /\ t.grace.kind = "active" => behavior = "dynamic" /\ lack = at - t.grace.at
  /\ t.grace.kind = "ready" => lack = None
  /\ t.awaiting => lack = None /\ (s.playback = "stopped" \/ t.known = None)

(* What was carried on was reported in this generation.                    *)
OriginInv(t, gen, rep) ==
  /\ t.duration # None => rep.duration = gen
  /\ t.position # None /\ t.position.basis = "authoritative" => rep.position = gen

(* The metadata kept has every line of the metadata seen.                  *)
SeenInv(t, metas) == \A a \in metas, f \in Fields : a[f] # None => t.known[f] = a[f]

TInv == /\ StateInv
        /\ PositionInv(state.timing, now)
        /\ GraceInv(state.timing, state.snapshot, state.behavior, now, lacking)
        /\ OriginInv(state.timing, state.generation, reported)
        /\ SeenInv(state.timing, seen)

-----------------------------------------------------------------------------
(* What a snapshot may be, the disconnected one included.                  *)
LEMMA ShotsTyped ==
  \A s \in Shots :
    /\ s.position \in Nat \cup {None} /\ s.duration \in Nat \cup {None} /\ s.age \in Int
    /\ s.meta # None => Known(s) # None
    /\ Known(s) = None => s.meta = None
    /\ Condition(s) = "disconnected" <=> s.availability = "disconnected"
<1>1. ASSUME NEW s \in Snapshots
      PROVE  /\ s.position \in Nat \cup {None} /\ s.duration \in Nat \cup {None} /\ s.age \in Int
             /\ s.meta # None => Known(s) # None
             /\ Condition(s) = "disconnected" <=> s.availability = "disconnected"
  BY SnapshotsAssumption DEF Condition, Conditions
<1>2. /\ DisconnectedSnapshot.position = None /\ DisconnectedSnapshot.duration = None
      /\ DisconnectedSnapshot.age = 0 /\ DisconnectedSnapshot.meta = None
      /\ DisconnectedSnapshot.availability = "disconnected"
      /\ Condition(DisconnectedSnapshot) = "disconnected"
  BY DEF DisconnectedSnapshot, Condition
<1>3. QED  BY <1>1, <1>2 DEF Shots

(* A position is bounded by a known duration.                              *)
LEMMA BoundedTyped ==
  ASSUME NEW x \in Nat, NEW d \in Nat \cup {None}
  PROVE  /\ Bounded(x, d) \in Nat /\ Bounded(x, d) <= x
         /\ d # None => Bounded(x, d) <= d
BY DEF Bounded, Least

(* What a snapshot's position is anchored at.                              *)
LEMMA AnchorTyped ==
  ASSUME NEW s \in Shots, NEW at \in Nat, NEW behavior \in Behaviors, NEW a, a = Anchor(s, at, behavior)
  PROVE  /\ s.position = None => a = None
         /\ s.position # None =>
              /\ a = [seconds |-> a.seconds, at |-> at, basis |-> "authoritative"]
              /\ a.seconds \in Nat
              /\ s.duration # None => a.seconds <= s.duration
<1>1. s.position \in Nat \cup {None} /\ s.duration \in Nat \cup {None} /\ s.age \in Int
  BY ShotsTyped
<1>2. SampleAge(s) \in Nat
  BY <1>1 DEF SampleAge
<1>3. CASE s.position # None
  <2> DEFINE x == s.position + (IF behavior = "dynamic" /\ s.playback = "playing" THEN SampleAge(s) ELSE 0)
  <2>1. x \in Nat
    BY <1>1, <1>2, <1>3
  <2>2. a = [seconds |-> Bounded(x, s.duration), at |-> at, basis |-> "authoritative"]
    BY <1>3 DEF Anchor
  <2> HIDE DEF x
  <2>3. Bounded(x, s.duration) \in Nat /\ (s.duration # None => Bounded(x, s.duration) <= s.duration)
    BY <1>1, <2>1, BoundedTyped
  <2>4. QED  BY <1>3, <2>2, <2>3
<1>4. QED  BY <1>3 DEF Anchor

(* A position that is carried on stays within the track, and its basis.    *)
LEMMA CarriedTyped ==
  ASSUME NEW t, NEW at \in Nat, PositionInv(t, at), NEW s, NEW next, NEW behavior,
         NEW c, c = Carried(t, s, next, at, behavior)
  PROVE  /\ t.position = None => c = None
         /\ t.position # None =>
              /\ c = [seconds |-> Projected(t.position, s.playback, t.duration, at, behavior),
                      at |-> at, basis |-> t.position.basis]
              /\ c.seconds \in Nat
              /\ t.duration # None => c.seconds <= t.duration
<1>1. CASE t.position # None
  <2> DEFINE p == t.position
             x == p.seconds + (IF behavior = "dynamic" /\ s.playback = "playing" THEN at - p.at ELSE 0)
             n == Projected(p, s.playback, t.duration, at, behavior)
  <2>1. x \in Nat /\ t.duration \in Nat \cup {None}
    BY <1>1 DEF PositionInv
  <2>2. n = Bounded(x, t.duration)
    BY DEF Projected
  <2>3. n \in Nat /\ (t.duration # None => n <= t.duration)
    <3> HIDE DEF x, n
    <3>1. QED  BY <2>1, <2>2, BoundedTyped
  <2>4. p = [seconds |-> p.seconds, at |-> p.at, basis |-> p.basis]
    BY <1>1 DEF PositionInv
  <2> HIDE DEF x, n
  <2>5. PICK q : q = [p EXCEPT !.seconds = n]
    OBVIOUS
  <2>6. q = [seconds |-> n, at |-> p.at, basis |-> p.basis]
    BY <2>4, <2>5
  <2>7. [q EXCEPT !.at = at] = [seconds |-> n, at |-> at, basis |-> p.basis]
    BY <2>6
  <2>8. c = [q EXCEPT !.at = at]
    BY <1>1, <2>5, Zenon DEF Carried, n
  <2>9. QED  BY <1>1, <2>3, <2>7, <2>8 DEF n
<1>2. QED  BY <1>1 DEF Carried

(* The position that KeptTiming keeps, before the duration bounds it.      *)
PositionKept(t, s, next, at, behavior) ==
  IF next.position # None THEN Anchor(next, at, behavior)
  ELSE IF TrackChanged(t, s, next) THEN [seconds |-> 0, at |-> at, basis |-> "zero"]
  ELSE Carried(t, s, next, at, behavior)

(* The parts of a timing that is kept, with its position restated.         *)
LEMMA KeptTyped ==
  ASSUME NEW t, NEW at \in Nat, PositionInv(t, at), NEW s, NEW next \in Shots, NEW behavior \in Behaviors,
         NEW k, k = KeptTiming(t, s, next, at, behavior),
         NEW p, p = PositionKept(t, s, next, at, behavior)
  PROVE  /\ k.duration = KeptDuration(t, TrackChanged(t, s, next), next)
         /\ k.grace = NextGrace(t.grace, TrackChanged(t, s, next), next, at, behavior)
         /\ p = None => k.position = None
         /\ p # None => /\ p = [seconds |-> p.seconds, at |-> at, basis |-> p.basis]
                        /\ k.position = [seconds |-> Bounded(p.seconds, k.duration), at |-> at,
                                         basis |-> p.basis]
         /\ PositionInv(k, at)
<1>1. next.position \in Nat \cup {None} /\ next.duration \in Nat \cup {None}
  BY ShotsTyped
<1>2. k = [position |-> IF p = None THEN None
                        ELSE [p EXCEPT !.seconds = Bounded(@, KeptDuration(t, TrackChanged(t, s, next), next))],
           duration |-> KeptDuration(t, TrackChanged(t, s, next), next),
           grace |-> NextGrace(t.grace, TrackChanged(t, s, next), next, at, behavior)]
  BY DEF KeptTiming, PositionKept
<1>3. k.duration \in Nat \cup {None}
  BY <1>1, <1>2 DEF KeptDuration, PositionInv
<1>4. p # None => p = [seconds |-> p.seconds, at |-> at, basis |-> p.basis] /\ p.seconds \in Nat
  BY <1>1, AnchorTyped, CarriedTyped DEF PositionKept
<1>5. p # None => k.position = [seconds |-> Bounded(p.seconds, k.duration), at |-> at, basis |-> p.basis]
  BY <1>2, <1>4
<1>6. p # None => Bounded(p.seconds, k.duration) \in Nat
                  /\ (k.duration # None => Bounded(p.seconds, k.duration) <= k.duration)
  BY <1>3, <1>4, BoundedTyped
<1>7. p = None => k.position = None
  BY <1>2
<1>8. PositionInv(k, at)
  BY <1>3, <1>5, <1>6, <1>7 DEF PositionInv
<1>9. QED  BY <1>2, <1>4, <1>5, <1>7, <1>8

-----------------------------------------------------------------------------
(* A snapshot is observed                                                  *)

LEMMA NewTyped ==
  ASSUME NEW s \in Shots, NEW at \in Nat, NEW behavior \in Behaviors
  PROVE  PositionInv(NewTiming(s, at, behavior), at)
<1>1. s.position \in Nat \cup {None} /\ s.duration \in Nat \cup {None}
  BY ShotsTyped
<1>2. PICK a : a = Anchor(s, at, behavior)
  OBVIOUS
<1>3. NewTiming(s, at, behavior).position = a /\ NewTiming(s, at, behavior).duration = s.duration
  BY <1>2 DEF NewTiming
<1>4. QED  BY <1>1, <1>2, <1>3, AnchorTyped DEF PositionInv

(* The timing after an update, by whether it keeps that of the track.      *)
LEMMA UpdatedParts ==
  ASSUME NEW t, NEW s, NEW next, NEW at, NEW behavior,
         NEW u, u = UpdatedTiming(t, s, next, at, behavior),
         NEW k, k = IF CanObserveTiming(next) /\ (Continues(t, s, next) \/ TrackChanged(t, s, next))
                    THEN KeptTiming(t, s, next, at, behavior) ELSE NewTiming(next, at, behavior)
  PROVE  /\ u.position = k.position /\ u.duration = k.duration /\ u.grace = k.grace
         /\ u.known = IF Continues(t, s, next) THEN EnrichedWith(t.known, Known(next)) ELSE Known(next)
         /\ u.awaiting <=> /\ next.availability = "available"
                           /\ \/ next.playback = "stopped"
                              \/ ZoneContinues(s, next) /\ t.awaiting /\ Known(next) = None
BY DEF UpdatedTiming

(* An update leaves a position that is projected within its duration.      *)
LEMMA UpdatedPosition ==
  ASSUME NEW t, NEW at \in Nat, PositionInv(t, at), NEW s, NEW next \in Shots, NEW behavior \in Behaviors
  PROVE  PositionInv(UpdatedTiming(t, s, next, at, behavior), at)
<1>1. PICK k : k = IF CanObserveTiming(next) /\ (Continues(t, s, next) \/ TrackChanged(t, s, next))
                   THEN KeptTiming(t, s, next, at, behavior) ELSE NewTiming(next, at, behavior)
  OBVIOUS
<1>2. PositionInv(k, at)
  BY <1>1, KeptTyped, NewTyped
<1>3. QED  BY <1>1, <1>2, UpdatedParts DEF PositionInv

(* Durations and positions are carried on within a track only.             *)
LEMMA UpdatedOrigin ==
  ASSUME NEW t, NEW at \in Nat, PositionInv(t, at), NEW s, NEW next \in Shots, NEW behavior \in Behaviors,
         NEW u, u = UpdatedTiming(t, s, next, at, behavior)
  PROVE  /\ u.duration # None =>
              \/ next.duration # None
              \/ Continues(t, s, next) /\ t.duration # None
         /\ u.position # None /\ u.position.basis = "authoritative" =>
              \/ next.position # None
              \/ /\ Continues(t, s, next)
                 /\ t.position # None /\ t.position.basis = "authoritative"
<1> DEFINE keeps == CanObserveTiming(next) /\ (Continues(t, s, next) \/ TrackChanged(t, s, next))
<1>1. CASE keeps
  <2>1. PICK k : k = KeptTiming(t, s, next, at, behavior)
    OBVIOUS
  <2>2. PICK p : p = PositionKept(t, s, next, at, behavior)
    OBVIOUS
  <2>3. u.position = k.position /\ u.duration = k.duration
    BY <1>1, <2>1, UpdatedParts
  <2>4. /\ k.duration = KeptDuration(t, TrackChanged(t, s, next), next)
        /\ p = None => k.position = None
        /\ p # None => k.position = [seconds |-> Bounded(p.seconds, k.duration), at |-> at, basis |-> p.basis]
    BY <2>1, <2>2, KeptTyped
  <2>5. u.position # None => p # None /\ u.position.basis = p.basis
    BY <2>3, <2>4
  <2>6. CASE next.position = None /\ ~TrackChanged(t, s, next)
    <3>1. p = Carried(t, s, next, at, behavior)
      BY <2>2, <2>6 DEF PositionKept
    <3>2. p # None => t.position # None /\ p.basis = t.position.basis
      BY <3>1, CarriedTyped
    <3>3. QED  BY <1>1, <2>3, <2>4, <2>5, <2>6, <3>2 DEF KeptDuration
  <2>7. CASE next.position = None /\ TrackChanged(t, s, next)
    BY <2>2, <2>3, <2>4, <2>5, <2>7 DEF PositionKept, KeptDuration
  <2>8. CASE next.position # None
    BY <1>1, <2>3, <2>4, <2>8 DEF KeptDuration
  <2>9. QED  BY <2>6, <2>7, <2>8
<1>2. CASE ~keeps
  <2>1. u.position = Anchor(next, at, behavior) /\ u.duration = next.duration
    <3>1. PICK k : k = NewTiming(next, at, behavior)
      OBVIOUS
    <3>2. u.position = k.position /\ u.duration = k.duration
      BY <1>2, <3>1, UpdatedParts
    <3>3. QED  BY <3>1, <3>2 DEF NewTiming
  <2>2. QED  BY <2>1 DEF Anchor
<1>3. QED  BY <1>1, <1>2

(* The grace after an update, against how long timing has been lacking.    *)
LackingAfter(same, next, lack) ==
  IF ~CanObserveTiming(next) \/ Complete(next) THEN None
  ELSE IF same /\ lack # None THEN lack ELSE 0

(* How a grace goes on.                                                    *)
LEMMA NextGraceInv ==
  ASSUME NEW g, NEW at \in Nat, NEW behavior \in Behaviors, NEW lack, NEW next, NEW changed \in BOOLEAN,
         NEW same \in BOOLEAN, CanObserveTiming(next), changed \/ same,
         g \in {Ready, Expired} \cup {ActiveGrace(x) : x \in 0 .. at},
         g.kind = "active" => lack = at - g.at,
         g.kind = "ready" => lack = None,
         changed /\ same => lack = None,
         NEW h, h = NextGrace(g, changed, next, at, behavior),
         NEW lack2, lack2 = LackingAfter(same, next, lack)
  PROVE  /\ h \in {Ready, Expired} \cup {ActiveGrace(x) : x \in 0 .. at}
         /\ h.kind = "active" => behavior = "dynamic" /\ lack2 = at - h.at
         /\ h.kind = "ready" => lack2 = None
<1>0. /\ ActiveGrace(at) \in {ActiveGrace(x) : x \in 0 .. at}
      /\ ActiveGrace(at).kind = "active" /\ ActiveGrace(at).at = at
      /\ Ready.kind = "ready" /\ Expired.kind = "expired"
  BY DEF ActiveGrace, Ready, Expired
<1>1. CASE Complete(next)
  BY <1>0, <1>1 DEF NextGrace, LackingAfter
<1>2. CASE ~Complete(next) /\ behavior = "static"
  BY <1>0, <1>2 DEF NextGrace
<1>3. CASE ~Complete(next) /\ behavior # "static" /\ (changed \/ g.kind = "ready")
  <2>1. lack2 = 0
    BY <1>3 DEF LackingAfter
  <2>2. h = ActiveGrace(at)
    BY <1>3 DEF NextGrace
  <2>3. QED  BY <1>0, <1>3, <2>1, <2>2 DEF Behaviors
<1>4. CASE ~Complete(next) /\ behavior # "static" /\ ~changed /\ g.kind # "ready"
  <2>1. h \in {Expired, g}
    BY <1>4 DEF NextGrace
  <2>2. g.kind = "active" => g.at \in 0 .. at
    BY <1>0 DEF ActiveGrace
  <2>3. g.kind = "active" => lack2 = lack
    <3>1. g.kind = "active" => lack # None
      BY <2>2, SnapshotsAssumption
    <3>2. QED  BY <1>4, <3>1 DEF LackingAfter
  <2>4. QED  BY <1>0, <1>4, <2>1, <2>3 DEF Behaviors
<1>5. QED  BY <1>1, <1>2, <1>3, <1>4

(* How one begins.                                                         *)
LEMMA FirstGraceInv ==
  ASSUME NEW at \in Nat, NEW behavior \in Behaviors, NEW lack, NEW next, NEW same \in BOOLEAN,
         ~same \/ ~CanObserveTiming(next),
         NEW h, h = FirstGrace(next, at, behavior),
         NEW lack2, lack2 = LackingAfter(same, next, lack)
  PROVE  /\ h \in {Ready, Expired} \cup {ActiveGrace(x) : x \in 0 .. at}
         /\ h.kind = "active" => behavior = "dynamic" /\ lack2 = at - h.at
         /\ h.kind = "ready" => lack2 = None
<1>0. /\ ActiveGrace(at) \in {ActiveGrace(x) : x \in 0 .. at}
      /\ ActiveGrace(at).kind = "active" /\ ActiveGrace(at).at = at
      /\ Ready.kind = "ready" /\ Expired.kind = "expired"
  BY DEF ActiveGrace, Ready, Expired
<1>1. CASE Complete(next)
  BY <1>0, <1>1 DEF FirstGrace, LackingAfter
<1>2. CASE ~Complete(next) /\ CanObserveTiming(next) /\ behavior = "dynamic"
  BY <1>0, <1>2 DEF FirstGrace, LackingAfter
<1>3. CASE ~Complete(next) /\ ~(CanObserveTiming(next) /\ behavior = "dynamic")
  BY <1>0, <1>3 DEF FirstGrace
<1>4. QED  BY <1>1, <1>2, <1>3

(* An update leaves a grace that says since when timing is lacking.        *)
LEMMA UpdatedGrace ==
  ASSUME NEW t, NEW at \in Nat, NEW s, NEW next \in Shots, NEW behavior \in Behaviors, NEW lack,
         GraceInv(t, s, behavior, at, lack),
         NEW u, u = UpdatedTiming(t, s, next, at, behavior),
         NEW lack2, lack2 = LackingAfter(Continues(t, s, next), next, lack)
  PROVE  GraceInv(u, next, behavior, at, lack2)
<1> DEFINE changed == TrackChanged(t, s, next)
           same == Continues(t, s, next)
<1>0. changed \in BOOLEAN /\ same \in BOOLEAN
  BY DEF TrackChanged, Continues
<1>1. PICK k : k = IF CanObserveTiming(next) /\ (same \/ changed)
                   THEN KeptTiming(t, s, next, at, behavior) ELSE NewTiming(next, at, behavior)
  OBVIOUS
<1>2. /\ u.grace = k.grace
      /\ u.known = IF same THEN EnrichedWith(t.known, Known(next)) ELSE Known(next)
      /\ u.awaiting <=> /\ next.availability = "available"
                        /\ \/ next.playback = "stopped"
                           \/ ZoneContinues(s, next) /\ t.awaiting /\ Known(next) = None
  BY <1>1, UpdatedParts
<1>3. changed /\ same => lack = None
  BY DEF TrackChanged, GraceInv
<1>4. u.awaiting => lack2 = None /\ (next.playback = "stopped" \/ u.known = None)
  <2>1. CASE next.playback = "stopped"
    BY <2>1 DEF LackingAfter, CanObserveTiming
  <2>2. CASE Known(next) = None
    <3>1. ~same
      BY <2>2 DEF Continues
    <3>2. next.meta = None
      BY <2>2, ShotsTyped
    <3>3. QED  BY <1>2, <2>2, <3>1, <3>2 DEF LackingAfter, CanObserveTiming
  <2>3. QED  BY <1>2, <2>1, <2>2
<1> HIDE DEF changed, same
<1>5. /\ k.grace \in {Ready, Expired} \cup {ActiveGrace(x) : x \in 0 .. at}
      /\ k.grace.kind = "active" => behavior = "dynamic" /\ lack2 = at - k.grace.at
      /\ k.grace.kind = "ready" => lack2 = None
  <2>1. CASE CanObserveTiming(next) /\ (same \/ changed)
    <3>1. k.grace = NextGrace(t.grace, changed, next, at, behavior)
      BY <1>1, <2>1 DEF KeptTiming, changed
    <3>2. lack2 = LackingAfter(same, next, lack)
      BY DEF same
    <3>3. /\ t.grace \in {Ready, Expired} \cup {ActiveGrace(x) : x \in 0 .. at}
          /\ t.grace.kind = "active" => lack = at - t.grace.at
          /\ t.grace.kind = "ready" => lack = None
      BY DEF GraceInv
    <3>4. QED  BY <1>0, <1>3, <2>1, <3>1, <3>2, <3>3, NextGraceInv
  <2>2. CASE ~(CanObserveTiming(next) /\ (same \/ changed))
    <3>1. k.grace = FirstGrace(next, at, behavior)
      BY <1>1, <2>2 DEF NewTiming
    <3>2. lack2 = LackingAfter(same, next, lack)
      BY DEF same
    <3>3. ~same \/ ~CanObserveTiming(next)
      BY <2>2
    <3>4. QED  BY <1>0, <3>1, <3>2, <3>3, FirstGraceInv
  <2>3. QED  BY <2>1, <2>2
<1>6. QED  BY <1>2, <1>4, <1>5 DEF GraceInv

(* Metadata that arrives in pieces is kept whole, for one track.           *)
LEMMA UpdatedSeen ==
  ASSUME NEW t, NEW s, NEW next \in Shots, NEW at, NEW behavior, NEW metas, SeenInv(t, metas),
         NEW u, u = UpdatedTiming(t, s, next, at, behavior),
         NEW metas2, metas2 = (IF Continues(t, s, next) THEN metas ELSE {})
                                \cup (IF next.meta = None THEN {} ELSE {Known(next)})
  PROVE  /\ SeenInv(u, metas2)
         /\ (\A a, b \in metas : Compatible(a, b)) => \A a, b \in metas2 : Compatible(a, b)
<1>1. u.known = IF Continues(t, s, next) THEN EnrichedWith(t.known, Known(next)) ELSE Known(next)
  BY UpdatedParts
<1>2. CASE Continues(t, s, next)
  <2>1. \A f \in Fields : u.known[f] = IF Known(next)[f] # None THEN Known(next)[f] ELSE t.known[f]
    BY <1>1, <1>2 DEF EnrichedWith
  <2>2. \A f \in Fields : t.known[f] = None \/ Known(next)[f] = None \/ t.known[f] = Known(next)[f]
    BY <1>2 DEF Continues, Compatible
  <2>3. \A a \in metas2 : a \in metas \/ a = Known(next)
    OBVIOUS
  <2>4. SeenInv(u, metas2)
    BY <2>1, <2>2, <2>3 DEF SeenInv
  <2>5. \A a \in metas : Compatible(a, Known(next)) /\ Compatible(Known(next), a)
    BY <2>2 DEF SeenInv, Compatible
  <2>6. Compatible(Known(next), Known(next))
    BY DEF Compatible
  <2>7. QED  BY <2>3, <2>4, <2>5, <2>6
<1>3. CASE ~Continues(t, s, next)
  <2>1. \A a \in metas2 : a = Known(next)
    BY <1>3
  <2>2. Compatible(Known(next), Known(next))
    BY DEF Compatible
  <2>3. QED  BY <1>1, <1>3, <2>1, <2>2 DEF SeenInv
<1>4. QED  BY <1>2, <1>3

(* The fields of an updated state.                                         *)
ConditionSince(st, condition, restart, at) ==
  IF st.condition # condition \/ (restart /\ condition # None) THEN at ELSE st.since

(* What a change of condition leaves alone ...                             *)
LEMMA ConditionFields ==
  ASSUME NEW st, NEW condition, NEW restart, NEW at,
         st = [snapshot |-> st.snapshot, revision |-> st.revision, timing |-> st.timing,
               generation |-> st.generation, condition |-> st.condition,
               since |-> st.since, behavior |-> st.behavior]
  PROVE  WithCondition(st, condition, restart, at)
           = [snapshot |-> st.snapshot, revision |-> st.revision, timing |-> st.timing,
              generation |-> st.generation, condition |-> condition,
              since |-> ConditionSince(st, condition, restart, at), behavior |-> st.behavior]
<1>1. PICK q : q = [st EXCEPT !.condition = condition]
  OBVIOUS
<1>2. q = [snapshot |-> st.snapshot, revision |-> st.revision, timing |-> st.timing,
           generation |-> st.generation, condition |-> condition,
           since |-> st.since, behavior |-> st.behavior]
  BY <1>1
<1>3. PICK r : r = [q EXCEPT !.since = at]
  OBVIOUS
<1>4. r = [snapshot |-> st.snapshot, revision |-> st.revision, timing |-> st.timing,
           generation |-> st.generation, condition |-> condition,
           since |-> at, behavior |-> st.behavior]
  BY <1>2, <1>3
<1>5. WithCondition(st, condition, restart, at)
        = IF st.condition # condition \/ (restart /\ condition # None) THEN r ELSE st
  BY <1>1, <1>3, Zenon DEF WithCondition
<1>6. QED  BY <1>4, <1>5 DEF ConditionSince

(* ... what a snapshot changes ...                                         *)
LEMMA UpdatedFields ==
  ASSUME NEW st, NEW s, NEW revision, NEW at, NEW restart,
         st = [snapshot |-> st.snapshot, revision |-> st.revision, timing |-> st.timing,
               generation |-> st.generation, condition |-> st.condition,
               since |-> st.since, behavior |-> st.behavior]
  PROVE  UpdateSnapshot(st, s, revision, at, restart)
           = [snapshot |-> s, revision |-> revision,
              timing |-> UpdatedTiming(st.timing, st.snapshot, s, at, st.behavior),
              generation |-> IF Continues(st.timing, st.snapshot, s) THEN st.generation ELSE st.generation + 1,
              condition |-> Condition(s),
              since |-> ConditionSince(st, Condition(s), restart, at), behavior |-> st.behavior]
<1>1. PICK w : w = WithCondition(st, Condition(s), restart, at)
  OBVIOUS
<1>2. w = [snapshot |-> st.snapshot, revision |-> st.revision, timing |-> st.timing,
           generation |-> st.generation, condition |-> Condition(s),
           since |-> ConditionSince(st, Condition(s), restart, at), behavior |-> st.behavior]
  BY <1>1, ConditionFields
<1>3. PICK q : q = [w EXCEPT !.snapshot = s]
  OBVIOUS
<1>4. PICK r : r = [q EXCEPT !.revision = revision]
  OBVIOUS
<1>5. PICK x : x = [r EXCEPT !.timing = UpdatedTiming(st.timing, st.snapshot, s, at, st.behavior)]
  OBVIOUS
<1>6. PICK y : y = [x EXCEPT !.generation = IF Continues(st.timing, st.snapshot, s) THEN @ ELSE @ + 1]
  OBVIOUS
<1>7. q = [snapshot |-> s, revision |-> st.revision, timing |-> st.timing,
           generation |-> st.generation, condition |-> Condition(s), since |-> w.since, behavior |-> st.behavior]
  BY <1>2, <1>3
<1>8. r = [snapshot |-> s, revision |-> revision, timing |-> st.timing,
           generation |-> st.generation, condition |-> Condition(s), since |-> w.since, behavior |-> st.behavior]
  BY <1>4, <1>7
<1>9. x = [snapshot |-> s, revision |-> revision,
           timing |-> UpdatedTiming(st.timing, st.snapshot, s, at, st.behavior),
           generation |-> st.generation, condition |-> Condition(s), since |-> w.since, behavior |-> st.behavior]
  BY <1>5, <1>8
<1>10. y = [snapshot |-> s, revision |-> revision,
            timing |-> UpdatedTiming(st.timing, st.snapshot, s, at, st.behavior),
            generation |-> IF Continues(st.timing, st.snapshot, s) THEN st.generation ELSE st.generation + 1,
            condition |-> Condition(s), since |-> w.since, behavior |-> st.behavior]
  BY <1>6, <1>9
<1>11. UpdateSnapshot(st, s, revision, at, restart) = y
  BY <1>1, <1>3, <1>4, <1>5, <1>6, Zenon DEF UpdateSnapshot
<1>12. QED  BY <1>2, <1>10, <1>11

(* ... and what a disconnection does.                                      *)
LEMMA DisconnectedFields ==
  ASSUME NEW st, NEW at,
         st = [snapshot |-> st.snapshot, revision |-> st.revision, timing |-> st.timing,
               generation |-> st.generation, condition |-> st.condition,
               since |-> st.since, behavior |-> st.behavior]
  PROVE  DisconnectState(st, at)
           = [snapshot |-> DisconnectedSnapshot, revision |-> st.revision, timing |-> Discarded,
              generation |-> st.generation + 1, condition |-> "disconnected",
              since |-> ConditionSince(st, "disconnected", FALSE, at), behavior |-> st.behavior]
<1>1. PICK w : w = WithCondition(st, "disconnected", FALSE, at)
  OBVIOUS
<1>2. w = [snapshot |-> st.snapshot, revision |-> st.revision, timing |-> st.timing,
           generation |-> st.generation, condition |-> "disconnected",
           since |-> ConditionSince(st, "disconnected", FALSE, at), behavior |-> st.behavior]
  <2>1. PICK q : q = [st EXCEPT !.condition = "disconnected"]
    OBVIOUS
  <2>2. PICK r : r = [q EXCEPT !.since = at]
    OBVIOUS
  <2>3. q = [snapshot |-> st.snapshot, revision |-> st.revision, timing |-> st.timing,
             generation |-> st.generation, condition |-> "disconnected",
             since |-> st.since, behavior |-> st.behavior]
    BY <2>1
  <2>4. r = [snapshot |-> st.snapshot, revision |-> st.revision, timing |-> st.timing,
             generation |-> st.generation, condition |-> "disconnected",
             since |-> at, behavior |-> st.behavior]
    BY <2>2, <2>3
  <2>5. w = IF st.condition # "disconnected" THEN r ELSE st
    BY <1>1, <2>1, <2>2, Zenon DEF WithCondition
  <2>6. QED  BY <2>4, <2>5 DEF ConditionSince
<1>3. PICK q : q = [w EXCEPT !.snapshot = DisconnectedSnapshot]
  OBVIOUS
<1>4. PICK x : x = [q EXCEPT !.timing = Discarded]
  OBVIOUS
<1>5. PICK y : y = [x EXCEPT !.generation = @ + 1]
  OBVIOUS
<1>6. q = [snapshot |-> DisconnectedSnapshot, revision |-> st.revision, timing |-> st.timing,
           generation |-> st.generation, condition |-> "disconnected", since |-> w.since, behavior |-> st.behavior]
  BY <1>2, <1>3
<1>7. x = [snapshot |-> DisconnectedSnapshot, revision |-> st.revision, timing |-> Discarded,
           generation |-> st.generation, condition |-> "disconnected", since |-> w.since, behavior |-> st.behavior]
  BY <1>4, <1>6
<1>8. y = [snapshot |-> DisconnectedSnapshot, revision |-> st.revision, timing |-> Discarded,
           generation |-> st.generation + 1, condition |-> "disconnected", since |-> w.since, behavior |-> st.behavior]
  BY <1>5, <1>7
<1>9. DisconnectState(st, at) = y
  BY <1>1, <1>3, <1>4, <1>5, Zenon DEF DisconnectState
<1>10. QED  BY <1>2, <1>8, <1>9

-----------------------------------------------------------------------------
FullInv == TInv /\ SameTrackCompatible

(* The invariant holds at first, connected or not ...                      *)
LEMMA InitInv == Init => FullInv
<1> SUFFICES ASSUME Init PROVE FullInv
  OBVIOUS
<1>1. PICK behavior \in Behaviors :
        state = DisconnectedState(0, behavior) \/ \E s \in Snapshots : state = NewState(s, 0, behavior)
  BY DEF Init, Behaviors
<1>2. state.snapshot \in Shots /\ state.behavior = behavior /\ state.generation = 0 /\ state.revision = 0
      /\ state.condition = Condition(state.snapshot) /\ state.since = 0
      /\ state = [snapshot |-> state.snapshot, revision |-> state.revision, timing |-> state.timing,
                  generation |-> state.generation, condition |-> state.condition,
                  since |-> state.since, behavior |-> state.behavior]
  BY <1>1 DEF DisconnectedState, NewState, Shots, Condition, DisconnectedSnapshot
<1>3. StateInv
  BY <1>2 DEF Init, StateInv
<1>4. \A a, b \in seen : Compatible(a, b)
  BY DEF Init, Compatible
<1>5. CASE state = DisconnectedState(0, behavior)
  <2>1. state.timing = Discarded /\ state.snapshot = DisconnectedSnapshot
    BY <1>5 DEF DisconnectedState
  <2>2. seen = {} /\ lacking = None
    BY <2>1 DEF Init, DisconnectedSnapshot, CanObserveTiming
  <2>3. /\ PositionInv(Discarded, 0) /\ OriginInv(Discarded, 0, reported)
        /\ GraceInv(Discarded, DisconnectedSnapshot, behavior, 0, None)
    BY DEF PositionInv, OriginInv, GraceInv, Discarded, Ready, Expired
  <2>4. QED  BY <1>2, <1>3, <1>4, <2>1, <2>2, <2>3 DEF Init, FullInv, TInv, SeenInv, SameTrackCompatible
<1>6. ASSUME NEW s \in Snapshots, state = NewState(s, 0, behavior) PROVE FullInv
  <2>1. state.timing = NewTiming(s, 0, behavior) /\ state.snapshot = s /\ s \in Shots
    BY <1>6 DEF NewState, Shots
  <2>2. PICK t : t = NewTiming(s, 0, behavior)
    OBVIOUS
  <2>3. PositionInv(t, 0)
    BY <2>1, <2>2, NewTyped
  <2>4. t.grace = FirstGrace(s, 0, behavior) /\ t.known = Known(s)
        /\ (t.awaiting <=> s.availability = "available" /\ s.playback = "stopped")
    BY <2>2 DEF NewTiming
  <2>0. PICK same \in BOOLEAN : ~same
    OBVIOUS
  <2>5. PICK lack : ~same /\ lack = LackingAfter(same, s, None)
    BY <2>0
  <2>6. lacking = lack
    BY <2>1, <2>5 DEF Init, LackingAfter
  <2>7. GraceInv(t, s, behavior, 0, lack)
    <3>1. /\ t.grace \in {Ready, Expired} \cup {ActiveGrace(x) : x \in 0 .. 0}
          /\ t.grace.kind = "active" => behavior = "dynamic" /\ lack = 0 - t.grace.at
          /\ t.grace.kind = "ready" => lack = None
      <4>1. 0 \in Nat /\ t.grace = FirstGrace(s, 0, behavior)
        BY <2>4
      <4>2. QED  BY <2>5, <4>1, FirstGraceInv
    <3>2. s.playback = "stopped" => lack = None
      BY <2>5 DEF LackingAfter, CanObserveTiming
    <3>3. QED  BY <2>4, <3>1, <3>2 DEF GraceInv
  <2>8. OriginInv(t, 0, reported)
    BY DEF Init, OriginInv
  <2>9. SeenInv(t, seen)
    BY <2>1, <2>4 DEF Init, SeenInv
  <2>10. QED
    BY <1>2, <1>3, <1>4, <2>1, <2>2, <2>3, <2>6, <2>7, <2>8, <2>9 DEF Init, FullInv, TInv, SameTrackCompatible
<1>7. QED  BY <1>1, <1>5, <1>6

(* A condition that goes on, or begins.                                    *)
LEMMA IdleKeeps ==
  ASSUME StateInv, NEW s \in Shots, NEW restart \in BOOLEAN,
         NEW i, i = IF Condition(s) = None THEN None
                    ELSE IF restart \/ Condition(s) # Condition(state.snapshot) THEN 0 ELSE idle
  PROVE  /\ ConditionSince(state, Condition(s), restart, now) \in 0 .. now
         /\ i = IF Condition(s) = None THEN None ELSE now - ConditionSince(state, Condition(s), restart, now)
BY DEF StateInv, ConditionSince

(* ... after a snapshot, whoever brings it ...                             *)
LEMMA ObserveKeeps ==
  ASSUME FullInv, NEW s \in Snapshots, NEW restart \in BOOLEAN, Observe(s, restart)
  PROVE  FullInv'
<1> DEFINE same == Continues(state.timing, state.snapshot, s)
           gen == IF same THEN state.generation ELSE state.generation + 1
           since == ConditionSince(state, Condition(s), restart, now)
<1>0. s \in Shots /\ state.snapshot \in Shots /\ state.behavior \in Behaviors /\ now \in Nat /\ updates \in Nat
      /\ state.generation \in 0 .. updates
  BY DEF FullInv, TInv, StateInv, Shots
<1>1. PICK u : u = UpdatedTiming(state.timing, state.snapshot, s, now, state.behavior)
  OBVIOUS
<1>2. state' = [snapshot |-> s, revision |-> updates + 1, timing |-> u, generation |-> gen,
                condition |-> Condition(s), since |-> since, behavior |-> state.behavior]
  BY <1>1, UpdatedFields DEF Observe, FullInv, TInv, StateInv
<1>3. state'.generation = state.generation <=> same
  BY <1>0, <1>2
<1>4. now' = now /\ updates' = updates + 1
  BY DEF Observe
<1>5. StateInv'
  <2>1. idle' = IF Condition(s) = None THEN None ELSE now - since
    BY <1>0, IdleKeeps DEF Observe, FullInv, TInv
  <2>2. since \in 0 .. now
    BY <1>0, IdleKeeps DEF FullInv, TInv
  <2>3. gen \in 0 .. updates + 1 /\ updates + 1 \in 0 .. updates + 1 /\ updates + 1 \in Nat
    BY <1>0
  <2> HIDE DEF gen, since
  <2>4. QED  BY <1>0, <1>2, <1>4, <2>1, <2>2, <2>3 DEF StateInv
<1>6. PositionInv(u, now)
  BY <1>0, <1>1, UpdatedPosition DEF FullInv, TInv
<1>7. GraceInv(u, s, state.behavior, now, lacking')
  <2>1. lacking' = LackingAfter(same, s, lacking)
    BY <1>3 DEF Observe, LackingAfter
  <2>2. QED  BY <1>0, <1>1, <2>1, UpdatedGrace DEF FullInv, TInv
<1>8. OriginInv(u, gen, reported')
  <2>1. /\ u.duration # None => s.duration # None \/ (same /\ state.timing.duration # None)
        /\ u.position # None /\ u.position.basis = "authoritative" =>
              \/ s.position # None
              \/ same /\ state.timing.position # None /\ state.timing.position.basis = "authoritative"
    <3>0. PICK behavior \in Behaviors : behavior = state.behavior
      BY <1>0
    <3>1. PICK t, prev : t = state.timing /\ prev = state.snapshot
      OBVIOUS
    <3>2. /\ u.duration # None => s.duration # None \/ (Continues(t, prev, s) /\ t.duration # None)
          /\ u.position # None /\ u.position.basis = "authoritative" =>
                \/ s.position # None
                \/ Continues(t, prev, s) /\ t.position # None /\ t.position.basis = "authoritative"
      <4>1. u = UpdatedTiming(t, prev, s, now, behavior)
        BY <1>1, <3>0, <3>1
      <4>2. now \in Nat /\ s \in Shots /\ PositionInv(t, now)
        BY <1>0, <3>1 DEF FullInv, TInv
      <4>3. /\ u.duration # None => s.duration # None \/ (Continues(t, prev, s) /\ t.duration # None)
        BY <4>1, <4>2, UpdatedOrigin
      <4>4. /\ u.position # None /\ u.position.basis = "authoritative" =>
                \/ s.position # None
                \/ Continues(t, prev, s) /\ t.position # None /\ t.position.basis = "authoritative"
        BY <4>1, <4>2, UpdatedOrigin
      <4>5. QED  BY <4>3, <4>4
    <3>3. QED  BY <3>1, <3>2
  <2>2. reported' = [position |-> IF s.position # None THEN gen ELSE reported.position,
                     duration |-> IF s.duration # None THEN gen ELSE reported.duration]
    BY <1>2 DEF Observe
  <2>3. QED  BY <2>1, <2>2 DEF OriginInv, FullInv, TInv
<1>9. SeenInv(u, seen') /\ SameTrackCompatible'
  <2>1. seen' = (IF same THEN seen ELSE {}) \cup (IF s.meta = None THEN {} ELSE {Known(s)})
    BY <1>3 DEF Observe
  <2>2. QED  BY <1>0, <1>1, <2>1, UpdatedSeen DEF FullInv, TInv, SameTrackCompatible
<1> HIDE DEF same, gen, since
<1>10. QED  BY <1>2, <1>4, <1>5, <1>6, <1>7, <1>8, <1>9 DEF FullInv, TInv

(* ... after a disconnection ...                                           *)
LEMMA DisconnectKeeps == ASSUME FullInv, Disconnect PROVE FullInv'
<1> DEFINE since == ConditionSince(state, "disconnected", FALSE, now)
<1>0. state.behavior \in Behaviors /\ now \in Nat /\ updates \in Nat
      /\ state.generation \in 0 .. updates /\ state.revision \in 0 .. updates /\ state.snapshot \in Shots
  BY DEF FullInv, TInv, StateInv
<1>1. state' = [snapshot |-> DisconnectedSnapshot, revision |-> state.revision, timing |-> Discarded,
                generation |-> state.generation + 1, condition |-> "disconnected",
                since |-> since, behavior |-> state.behavior]
  BY DisconnectedFields DEF Disconnect, FullInv, TInv, StateInv
<1>2. /\ Condition(DisconnectedSnapshot) = "disconnected" /\ DisconnectedSnapshot \in Shots
      /\ "disconnected" # None
  BY SnapshotsAssumption DEF Condition, DisconnectedSnapshot, Shots, Conditions
<1>3. StateInv'
  <2>1. since \in 0 .. now
    BY <1>2, IdleKeeps DEF FullInv, TInv
  <2>2. idle' = now - since
    <3>1. idle' = IF Condition(DisconnectedSnapshot) = None THEN None
                  ELSE IF FALSE \/ Condition(DisconnectedSnapshot) # Condition(state.snapshot) THEN 0 ELSE idle
      BY <1>0, <1>2, ShotsTyped DEF Disconnect
    <3>2. QED  BY <1>2, <3>1, IdleKeeps DEF FullInv, TInv
  <2> HIDE DEF since
  <2>3. QED  BY <1>0, <1>1, <1>2, <2>1, <2>2 DEF Disconnect, StateInv
<1>4. /\ PositionInv(Discarded, now) /\ OriginInv(Discarded, state.generation + 1, reported)
      /\ GraceInv(Discarded, DisconnectedSnapshot, state.behavior, now, None) /\ SeenInv(Discarded, {})
  BY DEF PositionInv, OriginInv, GraceInv, SeenInv, Discarded, Ready, Expired
<1> HIDE DEF since
<1>5. QED  BY <1>1, <1>3, <1>4 DEF Disconnect, FullInv, TInv, SameTrackCompatible

(* ... and as time passes.                                                 *)
LEMMA TickKeeps == ASSUME FullInv, Tick PROVE FullInv'
<1>0. now \in Nat /\ now' = now + 1 /\ UNCHANGED <<state, updates, seen, reported>>
  BY DEF Tick, FullInv, TInv, StateInv
<1>1. StateInv'
  <2>1. state.condition # None => idle # None
    BY SnapshotsAssumption DEF FullInv, TInv, StateInv
  <2>2. QED  BY <1>0, <2>1 DEF Tick, FullInv, TInv, StateInv
<1>2. PositionInv(state.timing, now + 1)
  BY <1>0 DEF FullInv, TInv, PositionInv
<1>3. GraceInv(state.timing, state.snapshot, state.behavior, now + 1, lacking')
  <2>1. {ActiveGrace(x) : x \in 0 .. now} \subseteq {ActiveGrace(x) : x \in 0 .. now + 1}
    BY <1>0
  <2>2. state.timing.grace.kind = "active" => lacking = now - state.timing.grace.at
                                             /\ state.timing.grace.at \in 0 .. now
    BY DEF FullInv, TInv, GraceInv, ActiveGrace, Ready, Expired
  <2>3. state.timing.grace.kind = "active" => lacking # None
    BY <1>0, <2>2, SnapshotsAssumption
  <2>4. QED  BY <1>0, <2>1, <2>2, <2>3 DEF Tick, FullInv, TInv, GraceInv
<1>4. QED  BY <1>0, <1>1, <1>2, <1>3 DEF FullInv, TInv, SameTrackCompatible

(* Every step keeps the invariant.                                         *)
LEMMA InvNext == FullInv /\ [Next]_timingVars => FullInv'
<1> SUFFICES ASSUME FullInv, [Next]_timingVars PROVE FullInv'
  OBVIOUS
<1>1. CASE UNCHANGED timingVars
  BY <1>1 DEF timingVars, FullInv, TInv, StateInv, SameTrackCompatible
<1>2. QED  BY <1>1, ObserveKeeps, DisconnectKeeps, TickKeeps DEF Next

-----------------------------------------------------------------------------
(* It says that a retained timing is of the track shown ...                *)
LEMMA InvOneTrack == FullInv => OfOneTrack
BY DEF FullInv, TInv, OriginInv, OfOneTrack, TimingOfThisTrack, Resolved

(* ... and that no grace lasts longer than it may.                         *)
LEMMA InvGraces == FullInv => GracesRunOut
<1> SUFFICES ASSUME FullInv PROVE GracesRunOut
  OBVIOUS
<1>1. ProvisionalOnlyInGrace
  <2>1. IsActive(state.timing.grace, now) => lacking # None /\ lacking < ProvisionalGrace
    <3>1. state.timing.grace.kind = "active" => lacking = now - state.timing.grace.at
                                               /\ state.timing.grace.at \in 0 .. now
      BY DEF FullInv, TInv, GraceInv, ActiveGrace, Ready, Expired
    <3>2. now \in Nat
      BY DEF FullInv, TInv, StateInv
    <3>3. QED  BY <3>1, <3>2, SnapshotsAssumption DEF IsActive
  <2>2. QED  BY <2>1 DEF ProvisionalOnlyInGrace, Resolved
<1>2. DimmedAfterGrace
  <2> DEFINE quiet == now - state.since
  <2>1. quiet \in Nat /\ idle = IF state.condition = None THEN None ELSE quiet
    BY DEF FullInv, TInv, StateInv
  <2>2. idle # None <=> state.condition # None
    BY <2>1, SnapshotsAssumption
  <2>3. InactivityGrace \in Nat /\ Cadence \in Nat \ {0}
    BY TimingAssumption
  <2>4. quiet >= InactivityGrace => ((quiet - InactivityGrace) \div Cadence) % Positions # None
    <3> HIDE DEF quiet
    <3>1. ASSUME quiet >= InactivityGrace PROVE ((quiet - InactivityGrace) \div Cadence) \in Int
      BY <2>1, <2>3, <3>1
    <3>2. ASSUME NEW x \in Int PROVE x % Positions \in Int
      BY DEF Positions
    <3>3. QED  BY <3>1, <3>2, SnapshotsAssumption
  <2>5. state.behavior \in Behaviors
    BY DEF FullInv, TInv, StateInv
  <2>6. Inactivity(state, now) = IF state.behavior = "static" \/ state.condition = None \/ quiet < InactivityGrace
                                 THEN None ELSE ((quiet - InactivityGrace) \div Cadence) % Positions
    BY DEF Inactivity
  <2> HIDE DEF quiet
  <2>7. QED  BY <2>1, <2>2, <2>3, <2>4, <2>5, <2>6 DEF DimmedAfterGrace, Behaviors
<1>3. QED  BY <1>1, <1>2 DEF GracesRunOut

(* Metadata and timing put together from incomplete snapshots are one       *)
(* track's, for any snapshots.                                             *)
THEOREM CarriedWithinTrack == Spec => []OfOneTrack
BY InitInv, InvNext, InvOneTrack, PTL DEF Spec

(* A provisional value is shown for no longer than its grace since timing   *)
(* became incomplete, and what has not played for the inactivity grace, and *)
(* nothing else, is dimmed: for any snapshots and graces.                   *)
THEOREM GracesEnd == Spec => []GracesRunOut
BY InitInv, InvNext, InvGraces, PTL DEF Spec

-----------------------------------------------------------------------------
(* Time and snapshots, and the position on the screen                      *)

(* A position on the screen is the one kept, carried on to this instant.   *)
LEMMA ShownPosition ==
  ASSUME NEW st, NEW at \in Nat, PositionInv(st.timing, at),
         NEW x, x = Resolved(st, at).position, x # None
  PROVE  /\ st.timing.position # None
         /\ x = Projected(st.timing.position, st.snapshot.playback, st.timing.duration, at, st.behavior)
<1> DEFINE t == st.timing
           c == Projected(t.position, st.snapshot.playback, t.duration, at, st.behavior)
<1>1. t.position # None
  BY DEF Resolved
<1>2. PICK d \in {t.duration, None} : x = Bounded(c, d)
  BY DEF Resolved
<1>3. c \in Nat /\ (t.duration # None => c <= t.duration) /\ t.duration \in Nat \cup {None}
  <2>1. PICK k : k = Carried(t, st.snapshot, None, at, st.behavior)
    OBVIOUS
  <2>2. k.seconds = c /\ k.seconds \in Nat /\ (t.duration # None => k.seconds <= t.duration)
    BY <1>1, <2>1, CarriedTyped
  <2>3. QED  BY <2>2 DEF PositionInv
<1> HIDE DEF c
<1>4. Bounded(c, d) = c
  BY <1>3 DEF Bounded, Least
<1>5. QED  BY <1>1, <1>2, <1>4 DEF c

(* StaticFixtureIsStill's and PositionContinuous's steps.                  *)
Still == now' # now /\ state.behavior = "static"
           => PresentationAt(state, now)' = PresentationAt(state, now) /\ Inactivity(state', now') = None

PositionHolds ==
  LET before == Resolved(state, now)
      after  == Resolved(state, now)'
  IN (/\ state'.generation = state.generation
      /\ updates' = updates \/ state'.snapshot.position = None
      /\ state.snapshot.playback # "stopped"
      /\ before.position # None /\ after.position # None)
     => IF now' = now THEN after.position = Bounded(before.position, state'.timing.duration)
        ELSE after.position - before.position \in
               IF state.snapshot.playback = "playing" THEN {0, 1} ELSE {0}

(* A static presentation does not move with the clock.                     *)
LEMMA StepStill == FullInv /\ [Next]_timingVars => [Still]_timingVars
<1> SUFFICES ASSUME FullInv, [Next]_timingVars, now' # now, state.behavior = "static"
             PROVE  PresentationAt(state, now)' = PresentationAt(state, now) /\ Inactivity(state', now') = None
  BY DEF Still
<1>1. state' = state
  BY DEF Next, Observe, Disconnect, Tick, timingVars
<1>2. state.timing.grace.kind # "active"
  BY DEF FullInv, TInv, GraceInv
<1>3. \A at : ~IsActive(state.timing.grace, at)
  BY <1>2 DEF IsActive
<1>4. Resolved(state, now') = Resolved(state, now)
  BY <1>3 DEF Resolved, Projected
<1>5. PresentationAt(state, now') = PresentationAt(state, now)
  <2>1. IsActive(state.timing.grace, now') = FALSE /\ IsActive(state.timing.grace, now) = FALSE
    BY <1>2 DEF IsActive
  <2>2. QED  BY <1>4, <2>1, Zenon DEF PresentationAt
<1>6. QED  BY <1>1, <1>5 DEF Inactivity

(* Time moves the position with the clock, or not at all.                  *)
LEMMA TickContinuous == ASSUME FullInv, Tick PROVE PositionHolds
<1> DEFINE p == state.timing.position
           d == state.timing.duration
           plays == state.behavior = "dynamic" /\ state.snapshot.playback = "playing"
           x == p.seconds + (IF plays THEN now - p.at ELSE 0)
           y == p.seconds + (IF plays THEN now + 1 - p.at ELSE 0)
<1> SUFFICES ASSUME NEW b, b = Resolved(state, now).position, b # None,
                    NEW a, a = Resolved(state, now)'.position, a # None
             PROVE  a - b \in IF state.snapshot.playback = "playing" THEN {0, 1} ELSE {0}
  BY DEF PositionHolds, Tick, FullInv, TInv, StateInv
<1>1. now' = now + 1 /\ state' = state /\ now \in Nat /\ now + 1 \in Nat
      /\ PositionInv(state.timing, now) /\ PositionInv(state.timing, now + 1)
  BY DEF Tick, FullInv, TInv, StateInv, PositionInv
<1>2. b = Bounded(x, d) /\ p # None
  BY <1>1, ShownPosition DEF Projected
<1>3. a = Bounded(y, d)
  <2>1. a = Resolved(state, now + 1).position
    BY <1>1
  <2>2. a = Projected(p, state.snapshot.playback, d, now + 1, state.behavior)
    BY <1>1, ShownPosition
  <2>3. p.at \in Nat
    BY <1>1, <1>2 DEF PositionInv
  <2>4. QED  BY <1>1, <2>2, <2>3 DEF Projected
<1>4. p.seconds \in Nat /\ p.at \in 0 .. now /\ d \in Nat \cup {None}
  BY <1>2 DEF FullInv, TInv, PositionInv
<1>5. x \in Nat /\ y \in Nat /\ y - x \in IF state.snapshot.playback = "playing" THEN {0, 1} ELSE {0}
  BY <1>1, <1>4
<1> HIDE DEF x, y, d, p
<1>6. QED  BY <1>2, <1>3, <1>4, <1>5 DEF Bounded, Least

(* Timing that is kept without a new position keeps the one carried on.    *)
LEMMA CarriedKept ==
  ASSUME NEW t, NEW at \in Nat, PositionInv(t, at), NEW s, NEW next \in Shots, NEW behavior \in Behaviors,
         t.position # None, next.position = None, ~TrackChanged(t, s, next),
         NEW k, k = KeptTiming(t, s, next, at, behavior), k.position # None,
         NEW b, b = Projected(t.position, s.playback, t.duration, at, behavior)
  PROVE  b \in Nat /\ k.position.seconds = Bounded(b, k.duration) /\ k.position.at = at
<1>1. PICK p : p = PositionKept(t, s, next, at, behavior)
  OBVIOUS
<1>2. p = Carried(t, s, next, at, behavior)
  BY <1>1 DEF PositionKept
<1>3. p.seconds = b /\ b \in Nat
  <2>1. /\ p = [seconds |-> Projected(t.position, s.playback, t.duration, at, behavior),
                at |-> at, basis |-> t.position.basis]
        /\ p.seconds \in Nat
    BY <1>2, CarriedTyped
  <2>2. QED  BY <2>1
<1>4. /\ p = None => k.position = None
      /\ p # None => k.position = [seconds |-> Bounded(p.seconds, k.duration), at |-> at, basis |-> p.basis]
  BY <1>1, KeptTyped
<1>5. QED  BY <1>3, <1>4

(* A snapshot that gives no position leaves it where it is, but for the     *)
(* track's end, when that is learnt.                                       *)
LEMMA ObserveContinuous ==
  ASSUME FullInv, NEW s \in Snapshots, NEW restart \in BOOLEAN, Observe(s, restart)
  PROVE  PositionHolds
<1> DEFINE t == state.timing
<1>0. /\ s \in Shots /\ state.snapshot \in Shots /\ state.behavior \in Behaviors
      /\ now \in Nat /\ updates \in Nat /\ state.generation \in Nat
      /\ PositionInv(t, now)
  BY DEF FullInv, TInv, StateInv, Shots
<1> SUFFICES ASSUME state'.generation = state.generation, state'.snapshot.position = None,
                    state.snapshot.playback # "stopped",
                    NEW b, b = Resolved(state, now).position, b # None,
                    NEW a, a = Resolved(state, now)'.position, a # None
             PROVE  a = Bounded(b, state'.timing.duration)
  BY <1>0 DEF PositionHolds, Observe
<1>1. PICK u : u = UpdatedTiming(t, state.snapshot, s, now, state.behavior)
  OBVIOUS
<1>2. /\ state'.snapshot = s /\ state'.timing = u /\ state'.behavior = state.behavior
      /\ Continues(t, state.snapshot, s)
  BY <1>0, <1>1, UpdatedFields DEF Observe, FullInv, TInv, StateInv
<1>3. PositionInv(u, now)
  BY <1>0, <1>1, UpdatedPosition
<1>4. s.position = None /\ now' = now
  BY <1>2 DEF Observe
<1>5. b = Projected(t.position, state.snapshot.playback, t.duration, now, state.behavior) /\ t.position # None
  BY <1>0, ShownPosition
<1>6. u.position # None /\ a = Projected(u.position, s.playback, u.duration, now, state.behavior)
  <2>1. PICK st : st = state'
    OBVIOUS
  <2>2. a = Resolved(st, now).position /\ st.timing = u /\ st.snapshot = s /\ st.behavior = state.behavior
    BY <1>2, <1>4, <2>1
  <2>3. QED  BY <1>0, <1>3, <2>2, ShownPosition
<1>7. CanObserveTiming(s)
  <2>1. ~CanObserveTiming(s) => u.position = Anchor(s, now, state.behavior)
    BY <1>1 DEF UpdatedTiming, NewTiming
  <2>2. QED  BY <1>4, <1>6, <2>1 DEF Anchor
<1>8. ~TrackChanged(t, state.snapshot, s)
  BY <1>2 DEF TrackChanged, Continues, FullInv, TInv, GraceInv
<1>9. PICK k : k = KeptTiming(t, state.snapshot, s, now, state.behavior)
  OBVIOUS
<1>10. u.position = k.position /\ u.duration = k.duration
  BY <1>1, <1>2, <1>7, <1>9, UpdatedParts
<1>11. b \in Nat /\ k.position.seconds = Bounded(b, k.duration) /\ k.position.at = now
  BY <1>0, <1>4, <1>5, <1>6, <1>8, <1>9, <1>10, CarriedKept
<1>12. u.position.seconds = Bounded(b, u.duration) /\ u.position.at = now
  BY <1>10, <1>11
<1>13. u.duration \in Nat \cup {None}
  BY <1>3 DEF PositionInv
<1>14. Bounded(b, u.duration) \in Nat /\ (u.duration # None => Bounded(b, u.duration) <= u.duration)
  BY <1>11, <1>13, BoundedTyped
<1>15. a = Bounded(Bounded(b, u.duration), u.duration)
  <2>1. PICK v : v = Bounded(b, u.duration)
    OBVIOUS
  <2>2. v + (IF state.behavior = "dynamic" /\ s.playback = "playing" THEN now - now ELSE 0) = v
    BY <1>0, <1>14, <2>1
  <2>3. QED  BY <1>6, <1>12, <2>1, <2>2 DEF Projected
<1>16. a = Bounded(b, u.duration)
  <2>1. PICK v : v = Bounded(b, u.duration)
    OBVIOUS
  <2>2. Bounded(v, u.duration) = v
    BY <1>13, <1>14, <2>1 DEF Bounded, Least
  <2>3. QED  BY <1>15, <2>1, <2>2
<1>17. QED  BY <1>2, <1>16

(* A position jumps only where a snapshot reports another.                 *)
LEMMA StepContinuous == FullInv /\ [Next]_timingVars => [PositionHolds]_timingVars
<1> SUFFICES ASSUME FullInv, Next PROVE PositionHolds
  BY DEF timingVars
<1>1. CASE Disconnect
  <2>1. state'.generation = state.generation + 1
    <3>1. PICK st : st = state'
      OBVIOUS
    <3>2. st = [snapshot |-> DisconnectedSnapshot, revision |-> state.revision, timing |-> Discarded,
                generation |-> state.generation + 1, condition |-> "disconnected",
                since |-> ConditionSince(state, "disconnected", FALSE, now), behavior |-> state.behavior]
      BY <1>1, <3>1, DisconnectedFields DEF Disconnect, FullInv, TInv, StateInv
    <3>3. QED  BY <3>1, <3>2
  <2>2. QED  BY <2>1 DEF PositionHolds, FullInv, TInv, StateInv
<1>2. QED  BY <1>1, ObserveContinuous, TickContinuous DEF Next

(* Unless a snapshot of the same track gives a position, the position on    *)
(* the screen advances with the clock or rests, and a static fixture is     *)
(* still: for any snapshots.                                               *)
THEOREM ClockMoves == Spec => MovesByTheClock
<1>1. Spec => [][Still]_timingVars
  BY InitInv, InvNext, StepStill, PTL DEF Spec
<1>2. Spec => [][PositionHolds]_timingVars
  BY InitInv, InvNext, StepContinuous, PTL DEF Spec
<1>3. QED
  BY <1>1, <1>2 DEF MovesByTheClock, PositionContinuous, StaticFixtureIsStill, Still, PositionHolds

-----------------------------------------------------------------------------
(* Playback                                                                *)

(* The states' records.                                                     *)
ShotRecord(s) ==
  s = [availability |-> s.availability, playback |-> s.playback, zone |-> s.zone, meta |-> s.meta,
       art |-> s.art, position |-> s.position, age |-> s.age, duration |-> s.duration, song |-> s.song]

TimingRecord(t) ==
  t = [position |-> t.position, duration |-> t.duration, grace |-> t.grace, known |-> t.known,
       awaiting |-> t.awaiting]

StateRecord(st) ==
  /\ st = [snapshot |-> st.snapshot, revision |-> st.revision, timing |-> st.timing,
           generation |-> st.generation, condition |-> st.condition,
           since |-> st.since, behavior |-> st.behavior]
  /\ ShotRecord(st.snapshot) /\ TimingRecord(st.timing)
  /\ st.behavior \in Behaviors

(* A state that can be displayed at a time.                                 *)
Sound(st, at) == StateRecord(st) /\ PositionInv(st.timing, at)

(* A snapshot of a song.                                                    *)
OfSong(s) == /\ s.availability = "available" /\ s.playback # "stopped"
             /\ ~(Shown(Known(s)) = Nothing /\ s.art = None)

(* What is displayed against the incoming state: it is no newer, and of one *)
(* revision and generation there is one state.                              *)
DisplayedInv(d, st) ==
  /\ d = [state |-> d.state, timing |-> d.timing]
  /\ d.state.revision \in 0 .. st.revision /\ d.state.generation \in 0 .. st.generation
  /\ d.timing.revision \in 0 .. d.state.revision /\ d.timing.generation = d.state.generation
  /\ d.state.revision = st.revision =>
       IF d.state.generation = st.generation THEN d.state = st ELSE st.snapshot = DisconnectedSnapshot
  /\ d.timing.revision = d.state.revision => d.timing = d.state
  /\ OfSong(d.state.snapshot) => OfSong(d.timing.snapshot)

(* The frame drawn shows the position of the displayed timing.              *)
DrawnInv(w, d) ==
  w.position # None => /\ w.revision = d.timing.revision
                       /\ w.position = Resolved(d.timing, w.at).position

FrameRecord(w) == w = [at |-> w.at, cues |-> w.cues, anchors |-> w.anchors, composition |-> w.composition,
                       position |-> w.position, revision |-> w.revision, animated |-> w.animated]

PInv == /\ FullInv /\ StateRecord(state)
        /\ DisplayedInv(displayed, state) /\ Sound(displayed.timing, drawn.at)
        /\ drawn.at \in 0 .. now /\ FrameRecord(drawn) /\ DrawnInv(drawn, displayed)
        /\ viewed \in BOOLEAN /\ (~viewed => drawn.position = None)

-----------------------------------------------------------------------------
(* What a state presents is a song if its snapshot is of one, and has the   *)
(* position its timing resolves to.                                         *)
LEMMA Presented ==
  ASSUME NEW st, NEW at, NEW p, p = PresentationAt(st, at)
  PROVE  /\ NowPlaying(p) <=> OfSong(st.snapshot)
         /\ NowPlaying(p) =>
              p = [kind |-> "now_playing", fields |-> p.fields, zone |-> p.zone, status |-> p.status,
                   position |-> Resolved(st, at).position, grace |-> p.grace, progress |-> p.progress,
                   activity |-> p.activity, art |-> p.art, lyrics |-> p.lyrics, lyricsKnown |-> p.lyricsKnown]
<1> DEFINE s == st.snapshot
<1>1. PICK r : r = Resolved(st, at)
  OBVIOUS
<1>2. PICK g : g = IsActive(st.timing.grace, at)
  OBVIOUS
<1>3. p = PresentationOf(s, r, g)
  BY <1>1, <1>2, Zenon DEF PresentationAt
<1>4. CASE OfSong(s)
  <2> DEFINE fields == Shown(Known(s))
             progress == IF r.position = None THEN None ELSE r.duration
             activity == s.playback = "playing" /\ ~g /\ ~Complete(r)
             lyrics == IF r.position = None \/ s.song = None THEN None ELSE LyricAt(s.song, r.position)
  <2>1. p = [kind |-> "now_playing", fields |-> fields, zone |-> s.zone, status |-> s.playback,
             position |-> r.position, grace |-> g, progress |-> progress, activity |-> activity,
             art |-> s.art, lyrics |-> lyrics, lyricsKnown |-> s.song # None]
    BY <1>3, <1>4 DEF PresentationOf, OfSong
  <2> HIDE DEF fields, progress, activity, lyrics
  <2>2. QED  BY <1>1, <1>4, <2>1 DEF NowPlaying
<1>5. CASE ~OfSong(s)
  <2>1. p.kind = "full_field"
    BY <1>3, <1>5 DEF PresentationOf, OfSong, FullField, Trackless
  <2>2. QED  BY <1>5, <2>1 DEF NowPlaying
<1>6. QED  BY <1>4, <1>5

SongRecord(p) ==
  p = [kind |-> "now_playing", fields |-> p.fields, zone |-> p.zone, status |-> p.status,
       position |-> p.position, grace |-> p.grace, progress |-> p.progress,
       activity |-> p.activity, art |-> p.art, lyrics |-> p.lyrics, lyricsKnown |-> p.lyricsKnown]

(* The timing of another revision brings its position ...                   *)
LEMMA TimingTaken ==
  ASSUME NEW p, SongRecord(p), NEW timing, NowPlaying(timing), NEW q, q = WithTiming(p, timing)
  PROVE  SongRecord(q) /\ q.position = timing.position /\ q.fields = p.fields /\ q.zone = p.zone
<1>1. NowPlaying(p)
  BY DEF SongRecord, NowPlaying
<1>2. PICK a : a = [p EXCEPT !.lyrics = timing.lyrics]
  OBVIOUS
<1>3. PICK b : b = [a EXCEPT !.lyricsKnown = timing.lyricsKnown]
  OBVIOUS
<1>4. PICK c : c = [b EXCEPT !.grace = timing.grace]
  OBVIOUS
<1>5. PICK e : e = [c EXCEPT !.progress = timing.progress]
  OBVIOUS
<1>6. PICK f : f = [e EXCEPT !.position = timing.position]
  OBVIOUS
<1>7. q = f
  BY <1>1, <1>2, <1>3, <1>4, <1>5, <1>6, Zenon DEF WithTiming
<1>8. SongRecord(a) /\ a.fields = p.fields /\ a.zone = p.zone
  BY <1>2 DEF SongRecord
<1>9. SongRecord(b) /\ b.fields = p.fields /\ b.zone = p.zone
  BY <1>3, <1>8 DEF SongRecord
<1>10. SongRecord(c) /\ c.fields = p.fields /\ c.zone = p.zone
  BY <1>4, <1>9 DEF SongRecord
<1>11. SongRecord(e) /\ e.fields = p.fields /\ e.zone = p.zone
  BY <1>5, <1>10 DEF SongRecord
<1>12. SongRecord(f) /\ f.fields = p.fields /\ f.zone = p.zone /\ f.position = timing.position
  BY <1>6, <1>11 DEF SongRecord
<1>13. QED  BY <1>7, <1>12

(* ... and the text that is kept leaves it.                                 *)
LEMMA TextRetained ==
  ASSUME NEW p, NEW assets \in BOOLEAN, NEW q, q = Retained(p, assets), SongRecord(p)
  PROVE  NowPlaying(q) /\ q.position = p.position
<1>1. PICK a : a = [p EXCEPT !.fields = shown.fields]
  OBVIOUS
<1>2. PICK b : b = [a EXCEPT !.zone = shown.zone]
  OBVIOUS
<1>3. SongRecord(a) /\ a.position = p.position
  BY <1>1 DEF SongRecord
<1>4. SongRecord(b) /\ b.position = p.position
  BY <1>2, <1>3 DEF SongRecord
<1>5. q = b \/ q = p
  BY <1>1, <1>2, Zenon DEF Retained
<1>6. QED  BY <1>4, <1>5 DEF SongRecord, NowPlaying

-----------------------------------------------------------------------------
(* A kept position moves by the clock, within the track.                    *)
LEMMA ProjectedMoves ==
  ASSUME NEW t, NEW a \in Nat, NEW b \in Nat, a <= b, PositionInv(t, a), t.position # None,
         NEW playback, NEW behavior,
         NEW x, x = Projected(t.position, playback, t.duration, a, behavior),
         NEW y, y = Projected(t.position, playback, t.duration, b, behavior)
  PROVE  x \in Nat /\ y \in Nat /\ y - x \in 0 .. (b - a)
<1> DEFINE p == t.position
           plays == behavior = "dynamic" /\ playback = "playing"
           u == p.seconds + (IF plays THEN a - p.at ELSE 0)
           v == p.seconds + (IF plays THEN b - p.at ELSE 0)
           d == t.duration
<1>1. p.seconds \in Nat /\ p.at \in 0 .. a /\ d \in Nat \cup {None}
  BY DEF PositionInv
<1>2. u \in Nat /\ v \in Nat /\ v - u \in 0 .. (b - a)
  BY <1>1
<1>3. x = Bounded(u, d) /\ y = Bounded(v, d)
  BY DEF Projected
<1> HIDE DEF u, v, d, p
<1>4. QED  BY <1>1, <1>2, <1>3 DEF Bounded, Least

LEMMA PositionLater ==
  ASSUME NEW t, NEW a \in Nat, NEW b \in Nat, a <= b, PositionInv(t, a)
  PROVE  PositionInv(t, b)
BY DEF PositionInv

(* A displayed timing that takes over the playback of the incoming state is *)
(* carried on: it is where it would have been.                              *)
LEMMA Synchronized ==
  ASSUME NEW st, NEW incoming, NEW at \in Nat, StateRecord(st), PositionInv(st.timing, at),
         incoming.generation = st.generation, OfSong(incoming.snapshot),
         NEW s, s = SynchronizePlayback(st, incoming, at)
  PROVE  /\ Sound(s, at) /\ s.revision = st.revision /\ s.generation = st.generation
         /\ OfSong(st.snapshot) => OfSong(s.snapshot)
         /\ st.snapshot.playback = incoming.snapshot.playback => s = st
         /\ Resolved(s, at).position # None =>
              /\ st.timing.position # None
              /\ Resolved(s, at).position
                   = Projected(st.timing.position, st.snapshot.playback, st.timing.duration, at, st.behavior)
<1> DEFINE playback == incoming.snapshot.playback
<1>1. CASE st.snapshot.playback = playback
  <2>1. s = st
    BY <1>1 DEF SynchronizePlayback
  <2>2. Resolved(st, at).position # None =>
          /\ st.timing.position # None
          /\ Resolved(st, at).position
               = Projected(st.timing.position, st.snapshot.playback, st.timing.duration, at, st.behavior)
    BY ShownPosition
  <2>3. QED  BY <2>1, <2>2 DEF Sound
<1>2. CASE st.snapshot.playback # playback
  <2>1. PICK c : c = Carried(st.timing, st.snapshot, st.snapshot, at, st.behavior)
    OBVIOUS
  <2>2. PICK t : t = [st.timing EXCEPT !.position = c]
    OBVIOUS
  <2>3. PICK shot : shot = [st.snapshot EXCEPT !.playback = playback]
    OBVIOUS
  <2>4. PICK a : a = [st EXCEPT !.timing = t]
    OBVIOUS
  <2>5. PICK b : b = [a EXCEPT !.snapshot = shot]
    OBVIOUS
  <2>6. TimingRecord(t) /\ t.position = c /\ t.duration = st.timing.duration
    BY <2>2 DEF StateRecord, TimingRecord
  <2>7. /\ ShotRecord(shot) /\ shot.playback = playback /\ shot.availability = st.snapshot.availability
        /\ shot.meta = st.snapshot.meta /\ shot.art = st.snapshot.art
    BY <2>3 DEF StateRecord, ShotRecord
  <2>8. a = [snapshot |-> st.snapshot, revision |-> st.revision, timing |-> t,
             generation |-> st.generation, condition |-> st.condition,
             since |-> st.since, behavior |-> st.behavior]
    BY <2>4 DEF StateRecord
  <2>9. b = [snapshot |-> shot, revision |-> st.revision, timing |-> t,
             generation |-> st.generation, condition |-> st.condition,
             since |-> st.since, behavior |-> st.behavior]
    BY <2>5, <2>8
  <2>10. s = b
    <3>1. PICK st2 : st2 = [st EXCEPT !.timing.position = c]
      OBVIOUS
    <3>2. st2 = a
      BY <2>2, <2>4, <3>1 DEF StateRecord
    <3>3. s = [st EXCEPT !.timing.position = c, !.snapshot.playback = playback]
      BY <1>2, <2>1, Zenon DEF SynchronizePlayback
    <3>4. s = [st2 EXCEPT !.snapshot.playback = playback]
      BY <3>1, <3>3, Zenon
    <3>5. a.snapshot = st.snapshot
      BY <2>8
    <3>6. QED  BY <2>3, <2>5, <2>8, <3>2, <3>4, <3>5
  <2>11. StateRecord(s)
    BY <2>6, <2>7, <2>9, <2>10 DEF StateRecord
  <2>12. st.timing.position = None => c = None
    BY <2>1 DEF Carried
  <2>13. ASSUME st.timing.position # None
         PROVE  /\ c = [seconds |-> Projected(st.timing.position, st.snapshot.playback, st.timing.duration,
                                              at, st.behavior),
                         at |-> at, basis |-> st.timing.position.basis]
                /\ c.seconds \in Nat
                /\ st.timing.duration # None => c.seconds <= st.timing.duration
    BY <2>1, <2>13, CarriedTyped
  <2>14. PositionInv(t, at)
    <3>1. st.timing.duration \in Nat \cup {None}
      BY DEF PositionInv
    <3>2. QED  BY <2>6, <2>12, <2>13, <3>1 DEF PositionInv
  <2>15. s.timing = t /\ s.snapshot = shot /\ s.revision = st.revision /\ s.generation = st.generation
         /\ s.behavior = st.behavior
    BY <2>9, <2>10
  <2>16. OfSong(st.snapshot) => OfSong(s.snapshot)
    BY <2>7, <2>15 DEF OfSong, Known
  <2>17. ASSUME Resolved(s, at).position # None
         PROVE  /\ st.timing.position # None
                /\ Resolved(s, at).position
                     = Projected(st.timing.position, st.snapshot.playback, st.timing.duration, at, st.behavior)
    <3>1. PICK x : x = Resolved(s, at).position
      OBVIOUS
    <3>2. t.position # None /\ x = Projected(c, playback, t.duration, at, st.behavior)
      BY <2>6, <2>7, <2>14, <2>15, <2>17, <3>1, ShownPosition
    <3>3. st.timing.position # None
      BY <2>6, <2>12, <3>2
    <3>4. c.at = at /\ c.seconds \in Nat /\ (t.duration # None => c.seconds <= t.duration)
          /\ t.duration \in Nat \cup {None}
      BY <2>6, <2>13, <2>14, <3>3 DEF PositionInv
    <3>5. Projected(c, playback, t.duration, at, st.behavior) = Bounded(c.seconds, t.duration)
      <4>1. c.seconds + (IF st.behavior = "dynamic" /\ playback = "playing" THEN at - c.at ELSE 0) = c.seconds
        BY <3>4
      <4>2. QED  BY <4>1 DEF Projected
    <3>6. Bounded(c.seconds, t.duration) = c.seconds
      BY <3>4 DEF Bounded, Least
    <3>7. QED  BY <2>13, <3>1, <3>2, <3>3, <3>5, <3>6
  <2>18. QED  BY <1>2, <2>11, <2>14, <2>15, <2>16, <2>17 DEF Sound
<1>3. QED  BY <1>1, <1>2

-----------------------------------------------------------------------------
(* What a frame displays is consistent with the incoming state again ...    *)
LEMMA SelectedDisplayed ==
  ASSUME PInv, NEW assets \in BOOLEAN, NEW lyrics \in BOOLEAN,
         NEW next, next = Selected(state, assets, lyrics, now)
  PROVE  /\ DisplayedInv(next, state) /\ Sound(next.timing, now)
         /\ next.state = IF Displays(state, assets, now) THEN state ELSE displayed.state
<1> DEFINE d == displayed
<1>1. /\ d = [state |-> d.state, timing |-> d.timing] /\ now \in Nat
      /\ state.revision \in Nat /\ state.generation \in Nat
      /\ d.state.revision \in 0 .. state.revision /\ d.state.generation \in 0 .. state.generation
      /\ d.timing.revision \in 0 .. d.state.revision /\ d.timing.generation = d.state.generation
  BY DEF PInv, DisplayedInv, FullInv, TInv, StateInv
<1>2. Sound(d.timing, now)
  <2>1. drawn.at \in Nat /\ drawn.at <= now /\ Sound(d.timing, drawn.at)
    BY <1>1 DEF PInv
  <2>2. QED  BY <1>1, <2>1, PositionLater DEF Sound
<1>3. Sound(state, now)
  BY DEF PInv, FullInv, TInv, Sound
<1>4. CASE ~Displays(state, assets, now)
  <2>1. next = d
    BY <1>4 DEF Selected
  <2>2. QED  BY <1>2, <1>4, <2>1 DEF PInv
<1>5. CASE Displays(state, assets, now)
  <2>1. /\ next = [state |-> next.state, timing |-> next.timing]
        /\ next.state = IF state.revision # d.state.revision \/ state.generation # d.state.generation
                        THEN state ELSE d.state
        /\ next.timing = IF assets \/ lyrics THEN state ELSE SynchronizePlayback(d.timing, state, now)
    BY <1>5 DEF Selected
  <2>2. next.state = state
    BY <2>1 DEF PInv, DisplayedInv
  <2>3. CASE assets \/ lyrics
    <3>1. next.timing = state
      BY <2>1, <2>3
    <3>2. DisplayedInv(next, state)
      BY <1>1, <2>1, <2>2, <3>1 DEF DisplayedInv
    <3>3. QED  BY <1>3, <1>5, <2>2, <3>1, <3>2
  <2>4. CASE ~assets /\ ~lyrics
    <3>1. PICK s : s = SynchronizePlayback(d.timing, state, now)
      OBVIOUS
    <3>2. next.timing = s
      BY <2>1, <2>4, <3>1
    <3>3. state.generation = d.state.generation /\ OfSong(state.snapshot) /\ OfSong(d.state.snapshot)
      BY <1>5, <2>4, Presented DEF Displays
    <3>4. /\ Sound(s, now) /\ s.revision = d.timing.revision /\ s.generation = d.timing.generation
          /\ OfSong(d.timing.snapshot) => OfSong(s.snapshot)
          /\ d.timing.snapshot.playback = state.snapshot.playback => s = d.timing
      BY <1>1, <1>2, <3>1, <3>3, Synchronized DEF Sound
    <3>5. OfSong(s.snapshot)
      BY <3>3, <3>4 DEF PInv, DisplayedInv
    <3>6. s.revision = state.revision => s = state
      <4>1. SUFFICES ASSUME s.revision = state.revision  PROVE s = state
        OBVIOUS
      <4>2. d.timing.revision = d.state.revision /\ d.state.revision = state.revision
        BY <1>1, <3>4, <4>1
      <4>3. d.timing = state
        BY <3>3, <4>2 DEF PInv, DisplayedInv
      <4>4. QED  BY <3>4, <4>3
    <3>7. DisplayedInv(next, state)
      BY <1>1, <2>1, <2>2, <3>2, <3>3, <3>4, <3>5, <3>6 DEF DisplayedInv
    <3>8. QED  BY <1>5, <2>2, <3>2, <3>4, <3>7
  <2>5. QED  BY <2>3, <2>4
<1>6. QED  BY <1>4, <1>5

(* ... and its frame shows the position of the displayed timing.            *)
LEMMA FramePosition ==
  ASSUME PInv, NEW assets \in BOOLEAN, NEW lyrics \in BOOLEAN,
         NEW next, next = Selected(state, assets, lyrics, now),
         NEW p, p = Retained(SelectedFrame(state, next, assets, now), assets), NowPlaying(p)
  PROVE  p.position = Resolved(next.timing, now).position /\ OfSong(next.timing.snapshot)
<1>1. PICK frame : frame = PresentationAt(next.state, now)
  OBVIOUS
<1>2. PICK timing : timing = PresentationAt(next.timing, now)
  OBVIOUS
<1>3. /\ DisplayedInv(next, state)
      /\ next.state = IF Displays(state, assets, now) THEN state ELSE displayed.state
  BY SelectedDisplayed
<1>4. PICK q : q = SelectedFrame(state, next, assets, now)
  OBVIOUS
<1>5. q = IF next.timing.revision # next.state.revision THEN WithTiming(frame, timing) ELSE frame
  <2>1. next.state = displayed.state \/ next.state = state
    BY <1>3
  <2>2. (IF Displays(state, assets, now) THEN state ELSE next.state) = next.state
    BY <1>3
  <2>3. QED  BY <1>1, <1>2, <1>4, <2>2, Zenon DEF SelectedFrame
<1>6. p = Retained(q, assets)
  BY <1>4
<1>7. NowPlaying(q)
  BY <1>6 DEF Retained
<1>8. NowPlaying(frame)
  BY <1>5, <1>7 DEF WithTiming
<1>9. OfSong(next.state.snapshot) /\ SongRecord(frame) /\ frame.position = Resolved(next.state, now).position
  BY <1>1, <1>8, Presented DEF SongRecord
<1>10. NowPlaying(timing) /\ timing.position = Resolved(next.timing, now).position
  BY <1>2, <1>3, <1>9, Presented DEF DisplayedInv
<1>11. SongRecord(q) /\ q.position = Resolved(next.timing, now).position
  <2>1. CASE next.timing.revision # next.state.revision
    BY <1>5, <1>9, <1>10, <2>1, TimingTaken
  <2>2. CASE next.timing.revision = next.state.revision
    BY <1>3, <1>5, <1>9, <2>2 DEF DisplayedInv
  <2>3. QED  BY <2>1, <2>2
<1>12. QED  BY <1>2, <1>6, <1>10, <1>11, Presented, TextRetained

(* Within one revision, the position has moved by the clock since the frame *)
(* that was drawn last.                                                     *)
LEMMA PositionDrawn ==
  ASSUME PInv, NEW assets \in BOOLEAN, NEW lyrics \in BOOLEAN,
         NEW next, next = Selected(state, assets, lyrics, now), OfSong(next.timing.snapshot),
         next.timing.revision = drawn.revision, drawn.position # None,
         NEW y, y = Resolved(next.timing, now).position, y # None
  PROVE  y - drawn.position \in 0 .. (now - drawn.at)
<1> DEFINE d == displayed
<1>1. PICK x : x = Resolved(d.timing, drawn.at).position
  OBVIOUS
<1>2. drawn.position = x /\ drawn.revision = d.timing.revision /\ x # None
  BY <1>1 DEF PInv, DrawnInv
<1>3. /\ now \in Nat /\ drawn.at \in Nat /\ drawn.at <= now
      /\ StateRecord(d.timing) /\ PositionInv(d.timing.timing, drawn.at)
  <2>1. now \in Nat
    BY DEF PInv, FullInv, TInv, StateInv
  <2>2. drawn.at \in 0 .. now /\ Sound(d.timing, drawn.at)
    BY DEF PInv
  <2>3. QED  BY <2>1, <2>2 DEF Sound
<1>4. /\ d.timing.timing.position # None
      /\ x = Projected(d.timing.timing.position, d.timing.snapshot.playback, d.timing.timing.duration,
                       drawn.at, d.timing.behavior)
  BY <1>1, <1>2, <1>3, ShownPosition
<1>5. PositionInv(d.timing.timing, now)
  BY <1>3, PositionLater
<1>6. PICK z : z = Projected(d.timing.timing.position, d.timing.snapshot.playback, d.timing.timing.duration,
                             now, d.timing.behavior)
  OBVIOUS
<1>7. z - x \in 0 .. (now - drawn.at)
  BY <1>3, <1>4, <1>6, ProjectedMoves
<1>8. CASE next.timing = d.timing
  <2>1. y = z
    BY <1>3, <1>5, <1>6, <1>8, ShownPosition
  <2>2. QED  BY <1>2, <1>7, <2>1
<1>9. CASE Displays(state, assets, now) /\ (assets \/ lyrics)
  <2>1. next.timing = state
    BY <1>9 DEF Selected
  <2>2. /\ state.revision \in Nat /\ d.state.revision \in 0 .. state.revision
        /\ d.timing.revision \in 0 .. d.state.revision
    BY DEF PInv, DisplayedInv, FullInv, TInv, StateInv
  <2>3. d.timing.revision = d.state.revision /\ d.state.revision = state.revision
    BY <1>2, <2>1, <2>2
  <2>4. state.snapshot # DisconnectedSnapshot
    BY <2>1 DEF OfSong, DisconnectedSnapshot
  <2>5. d.timing = state
    BY <2>3, <2>4 DEF PInv, DisplayedInv
  <2>6. QED  BY <1>8, <2>1, <2>5
<1>10. CASE Displays(state, assets, now) /\ ~assets /\ ~lyrics
  <2>1. next.timing = SynchronizePlayback(d.timing, state, now)
    BY <1>10 DEF Selected
  <2>2. state.generation = d.state.generation /\ OfSong(state.snapshot) /\ d.timing.generation = d.state.generation
    BY <1>10, Presented DEF Displays, PInv, DisplayedInv
  <2>3. y = z
    BY <1>3, <1>5, <1>6, <2>1, <2>2, Synchronized
  <2>4. QED  BY <1>2, <1>7, <2>3
<1>11. CASE ~Displays(state, assets, now)
  BY <1>8, <1>11 DEF Selected
<1>12. QED  BY <1>9, <1>10, <1>11

-----------------------------------------------------------------------------
(* The states that are made are records.                                    *)
LEMMA FirstState == Init => StateRecord(state)
<1> SUFFICES ASSUME Init PROVE StateRecord(state)
  OBVIOUS
<1>1. PICK behavior \in Behaviors : \/ state = DisconnectedState(0, behavior)
                                    \/ \E s \in Snapshots : state = NewState(s, 0, behavior)
  BY DEF Init, Behaviors
<1>2. CASE state = DisconnectedState(0, behavior)
  BY <1>2 DEF DisconnectedState, DisconnectedSnapshot, Discarded, StateRecord, ShotRecord, TimingRecord
<1>3. ASSUME NEW s \in Snapshots, state = NewState(s, 0, behavior)
      PROVE  StateRecord(state)
  <2>1. PICK t : t = NewTiming(s, 0, behavior)
    OBVIOUS
  <2>2. TimingRecord(t)
    BY <2>1 DEF NewTiming, TimingRecord
  <2>3. ShotRecord(s)
    BY SnapshotsAreRecords DEF ShotRecord
  <2>4. state = [snapshot |-> s, revision |-> 0, timing |-> t, generation |-> 0,
                 condition |-> Condition(s), since |-> 0, behavior |-> behavior]
    BY <1>3, <2>1 DEF NewState
  <2>5. QED  BY <2>2, <2>3, <2>4 DEF StateRecord
<1>4. QED  BY <1>1, <1>2, <1>3

(* At first one state is displayed and comes.                               *)
LEMMA PlaybackFirst == PlaybackInit => PInv
<1> SUFFICES ASSUME PlaybackInit PROVE PInv
  OBVIOUS
<1>1. FullInv /\ StateRecord(state) /\ now = 0
  BY InitInv, FirstState DEF PlaybackInit, Init
<1>2. PositionInv(state.timing, 0) /\ state.revision \in Nat /\ state.generation \in Nat
  BY <1>1 DEF FullInv, TInv, StateInv
<1>3. displayed.state = state /\ displayed.timing = state
      /\ displayed = [state |-> displayed.state, timing |-> displayed.timing]
  BY DEF PlaybackInit
<1>4. DisplayedInv(displayed, state) /\ Sound(displayed.timing, 0)
  BY <1>1, <1>2, <1>3 DEF DisplayedInv, Sound
<1>5. drawn.at = 0 /\ drawn.position = None /\ FrameRecord(drawn) /\ viewed = FALSE
  BY DEF PlaybackInit, NoFrame, FrameRecord
<1>6. Sound(displayed.timing, drawn.at) /\ drawn.at \in 0 .. now
  BY <1>1, <1>4, <1>5
<1>7. DrawnInv(drawn, displayed)
  BY <1>5 DEF DrawnInv
<1>8. QED  BY <1>1, <1>4, <1>5, <1>6, <1>7 DEF PInv

(* What arrives leaves what is displayed older than it.                     *)
LEMMA ReceiveKeeps == ASSUME PInv, Receive PROVE PInv'
<1>0. /\ now' = now /\ displayed' = displayed /\ drawn' = drawn /\ viewed' = viewed
  BY DEF Receive, Observe, Disconnect
<1>1. FullInv'
  BY ObserveKeeps, DisconnectKeeps DEF PInv, Receive
<1>2. /\ state.revision \in 0 .. updates /\ updates \in Nat
      /\ state.generation \in Nat /\ state.behavior \in Behaviors
  BY DEF PInv, FullInv, TInv, StateInv
<1>3. StateRecord(state') /\ DisplayedInv(displayed, state')
  <2>1. CASE \E s \in Snapshots : Observe(s, FALSE)
    <3>1. PICK s \in Snapshots, restart \in BOOLEAN : Observe(s, restart)
      BY <2>1
    <3>2. PICK t : t = UpdatedTiming(state.timing, state.snapshot, s, now, state.behavior)
      OBVIOUS
    <3>3. PICK st : st = state'
      OBVIOUS
    <3>4. st = [snapshot |-> s, revision |-> updates + 1, timing |-> t,
                generation |-> IF Continues(state.timing, state.snapshot, s)
                               THEN state.generation ELSE state.generation + 1,
                condition |-> Condition(s),
                since |-> ConditionSince(state, Condition(s), restart, now), behavior |-> state.behavior]
      <4>1. st = UpdateSnapshot(state, s, updates + 1, now, restart)
        BY <3>1, <3>3 DEF Observe
      <4>2. QED  BY <3>2, <4>1, UpdatedFields DEF PInv, StateRecord
    <3>5. TimingRecord(t)
      BY <3>2 DEF UpdatedTiming, TimingRecord
    <3>6. ShotRecord(s)
      BY SnapshotsAreRecords DEF ShotRecord
    <3>7. StateRecord(st)
      BY <1>2, <3>4, <3>5, <3>6 DEF StateRecord
    <3>8. st.revision = updates + 1 /\ st.generation \in {state.generation, state.generation + 1}
      BY <3>4
    <3>9. DisplayedInv(displayed, st)
      <4>1. /\ displayed.state.revision \in 0 .. state.revision
            /\ displayed.state.generation \in 0 .. state.generation
        BY DEF PInv, DisplayedInv
      <4>2. /\ displayed.state.revision \in 0 .. st.revision /\ displayed.state.revision # st.revision
            /\ displayed.state.generation \in 0 .. st.generation
        BY <1>2, <3>8, <4>1
      <4>3. QED  BY <4>2 DEF PInv, DisplayedInv
    <3>10. QED  BY <3>3, <3>7, <3>9
  <2>2. CASE Disconnect
    <3>1. PICK st : st = state'
      OBVIOUS
    <3>2. st = [snapshot |-> DisconnectedSnapshot, revision |-> state.revision, timing |-> Discarded,
                generation |-> state.generation + 1, condition |-> "disconnected",
                since |-> ConditionSince(state, "disconnected", FALSE, now), behavior |-> state.behavior]
      BY <2>2, <3>1, DisconnectedFields DEF Disconnect, PInv, StateRecord
    <3>3. TimingRecord(Discarded) /\ ShotRecord(DisconnectedSnapshot)
      BY DEF Discarded, DisconnectedSnapshot, TimingRecord, ShotRecord
    <3>4. StateRecord(st)
      BY <1>2, <3>2, <3>3 DEF StateRecord
    <3>5. st.revision = state.revision /\ st.generation = state.generation + 1 /\ st.snapshot = DisconnectedSnapshot
      BY <3>2
    <3>6. DisplayedInv(displayed, st)
      <4>1. displayed.state.generation \in 0 .. state.generation
        BY DEF PInv, DisplayedInv
      <4>2. displayed.state.generation \in 0 .. st.generation /\ displayed.state.generation # st.generation
        BY <1>2, <3>5, <4>1
      <4>3. QED  BY <3>5, <4>2 DEF PInv, DisplayedInv
    <3>7. QED  BY <3>1, <3>4, <3>6
  <2>3. QED  BY <2>1, <2>2 DEF Receive
<1>4. QED  BY <1>0, <1>1, <1>3 DEF PInv

(* What is drawn is what is displayed, at this instant.                     *)
LEMMA RenderKeeps ==
  ASSUME PInv, NEW assets \in BOOLEAN, NEW lyrics \in BOOLEAN, NEW animated \in BOOLEAN,
         Render(assets, lyrics, animated)
  PROVE  PInv'
<1>1. UNCHANGED timingVars
  BY DEF Render
<1>2. FullInv' /\ state' = state /\ now' = now
  BY <1>1, InvNext DEF PInv, timingVars
<1>3. PICK next : next = Selected(state, assets, lyrics, now)
  OBVIOUS
<1>4. PICK p : p = Retained(SelectedFrame(state, next, assets, now), assets)
  OBVIOUS
<1>5. displayed' = next /\ viewed' = (viewed \/ assets)
  BY <1>3 DEF Render
<1>6. now \in Nat /\ viewed \in BOOLEAN /\ viewed' \in BOOLEAN
  BY <1>5 DEF PInv, FullInv, TInv, StateInv
<1>7. DisplayedInv(next, state) /\ Sound(next.timing, now)
  BY <1>3, SelectedDisplayed
<1>8. CASE viewed'
  <2>1. PICK w : w = drawn'
    OBVIOUS
  <2>2. PICK frame : frame = MotionFrame(motion', now)
    OBVIOUS
  <2>3. w = [at |-> now, cues |-> frame.cues, anchors |-> frame.anchors,
             composition |-> frame.composition, animated |-> animated,
             position |-> IF NowPlaying(p) THEN p.position ELSE None,
             revision |-> next.timing.revision]
    BY <1>3, <1>4, <1>8, <2>1, <2>2, Zenon DEF Render
  <2>4. FrameRecord(w) /\ w.at = now /\ w.revision = next.timing.revision
        /\ w.position = IF NowPlaying(p) THEN p.position ELSE None
    BY <2>3 DEF FrameRecord
  <2>5. DrawnInv(w, next)
    BY <1>3, <1>4, <2>4, FramePosition DEF DrawnInv
  <2>6. QED  BY <1>2, <1>5, <1>6, <1>7, <1>8, <2>1, <2>4, <2>5 DEF PInv
<1>9. CASE ~viewed'
  <2>1. drawn' = [drawn EXCEPT !.at = now]
    BY <1>9 DEF Render
  <2>2. FrameRecord(drawn') /\ drawn'.at = now /\ drawn'.position = drawn.position
    BY <2>1 DEF PInv, FrameRecord
  <2>3. drawn.position = None
    BY <1>5, <1>9 DEF PInv
  <2>4. QED  BY <1>2, <1>5, <1>6, <1>7, <2>2, <2>3 DEF PInv, DrawnInv
<1>10. QED  BY <1>6, <1>8, <1>9

(* Time leaves it.                                                          *)
LEMMA ElapseKeeps == ASSUME PInv, Elapse PROVE PInv'
<1>1. FullInv' /\ state' = state /\ now' = now + 1 /\ now \in Nat
  BY TickKeeps DEF PInv, Elapse, Tick, FullInv, TInv, StateInv
<1>2. displayed' = displayed /\ drawn' = drawn /\ viewed' = viewed
  BY DEF Elapse
<1>3. drawn.at \in 0 .. now'
  BY <1>1 DEF PInv
<1>4. QED  BY <1>1, <1>2, <1>3 DEF PInv

LEMMA PlaybackKeeps == PInv /\ [PlaybackNext]_vars => PInv'
<1> SUFFICES ASSUME PInv, [PlaybackNext]_vars PROVE PInv'
  OBVIOUS
<1>1. CASE UNCHANGED vars
  <2>1. FullInv'
    BY <1>1, InvNext DEF vars, PInv
  <2>2. QED  BY <1>1, <2>1 DEF vars, timingVars, PInv
<1>2. QED  BY <1>1, ReceiveKeeps, RenderKeeps, ElapseKeeps DEF PlaybackNext

-----------------------------------------------------------------------------
(* The space of the lyrics                                                  *)

(* A motion that waits for lyrics shows none, and one that does not takes   *)
(* space only for a cue; what is no longer current leaves.                  *)
MotionRecord(m) ==
  m = [revision |-> m.revision, semantic |-> m.semantic, displayed |-> m.displayed, cause |-> m.cause,
       cue |-> m.cue, comp |-> m.comp, sample |-> m.sample, jump |-> m.jump, discovery |-> m.discovery]

MotionInv(m) ==
  /\ MotionRecord(m)
  /\ m.discovery # None => m.semantic = None /\ m.displayed = None
  /\ m.discovery = None /\ m.semantic = None => m.comp.target = 0
  /\ m.displayed # m.semantic => m.semantic = None /\ m.comp.target = 0

(* A motion that does not wait, before the next lyrics reach it.            *)
MotionBefore(m, next) ==
  /\ MotionRecord(m) /\ m.discovery = None
  /\ m.semantic = None /\ next = None => m.comp.target = 0
  /\ m.displayed # m.semantic => m.semantic = None /\ m.comp.target = 0

LEMMA RetargetTarget ==
  ASSUME NEW c, NEW target, NEW t, NEW animated \in BOOLEAN
  PROVE  Retarget(c, target, t, animated).target = target
BY DEF Retarget, Settled

(* A new motion, and one that goes on from the frame last painted.          *)
LEMMA NewMotionInv == ASSUME NEW revision, NEW lyric PROVE MotionInv(NewMotion(revision, lyric))
<1>1. PICK c : c = Settled(Share(lyric))
  OBVIOUS
<1>2. lyric = None => c.target = 0
  BY <1>1 DEF Settled, Share
<1>3. PICK m : m = NewMotion(revision, lyric)
  OBVIOUS
<1>4. m = [revision |-> revision, semantic |-> lyric, displayed |-> lyric, cause |-> "settled", cue |-> None,
           comp |-> c, sample |-> None, jump |-> FALSE, discovery |-> None]
  BY <1>1, <1>3 DEF NewMotion
<1>5. QED  BY <1>2, <1>3, <1>4 DEF MotionInv, MotionRecord

LEMMA InheritedInv ==
  ASSUME NEW m, NEW at, NEW t \in Nat
  PROVE  MotionInv(Inherited(m, at, t)) /\ Inherited(m, at, t).discovery = t
<1>1. PICK n : n = NewMotion(0, None)
  OBVIOUS
<1>2. MotionInv(n) /\ n.semantic = None /\ n.displayed = None
  BY <1>1, NewMotionInv DEF NewMotion
<1>3. PICK c : c = IF m.comp.at = None THEN m.comp ELSE [m.comp EXCEPT !.at = @ + (t - at)]
  OBVIOUS
<1>4. PICK a : a = [n EXCEPT !.comp = c]
  OBVIOUS
<1>5. PICK b : b = [a EXCEPT !.discovery = t]
  OBVIOUS
<1>6. MotionRecord(a) /\ a.semantic = None /\ a.displayed = None
  BY <1>2, <1>4 DEF MotionInv, MotionRecord
<1>7. MotionRecord(b) /\ b.semantic = None /\ b.displayed = None /\ b.discovery = t
  BY <1>5, <1>6 DEF MotionRecord
<1>8. Inherited(m, at, t) = b
  BY <1>1, <1>3, <1>4, <1>5, Zenon DEF Inherited
<1>9. t # None
  BY SnapshotsAssumption
<1>10. QED  BY <1>7, <1>8, <1>9 DEF MotionInv

(* Observing playback touches neither lyrics nor composition.               *)
LEMMA ObservedInv ==
  ASSUME NEW m, MotionInv(m), NEW revision, NEW position, NEW advancing, NEW t
  PROVE  MotionInv(ObservePlayback(m, revision, position, advancing, t))
<1>1. PICK a : a = [m EXCEPT !.jump = Relocated(m.sample, revision, position, advancing, t)]
  OBVIOUS
<1>2. PICK b : b = [a EXCEPT !.sample = [revision |-> revision, position |-> position,
                                         advancing |-> advancing, at |-> t]]
  OBVIOUS
<1>3. /\ MotionRecord(a) /\ a.semantic = m.semantic /\ a.displayed = m.displayed
      /\ a.comp = m.comp /\ a.discovery = m.discovery
  BY <1>1 DEF MotionInv, MotionRecord
<1>4. /\ MotionRecord(b) /\ b.semantic = m.semantic /\ b.displayed = m.displayed
      /\ b.comp = m.comp /\ b.discovery = m.discovery
  BY <1>2, <1>3 DEF MotionRecord
<1>5. ObservePlayback(m, revision, position, advancing, t) = b
  BY <1>1, <1>2, Zenon DEF ObservePlayback
<1>6. QED  BY <1>4, <1>5 DEF MotionInv

(* Lyrics that come take the space, and lyrics that go leave it.            *)
LEMMA EnterInv ==
  ASSUME NEW m, NEW next, MotionBefore(m, next), NEW changed \in BOOLEAN,
         (m.semantic = None) # (next = None), NEW t, NEW animated \in BOOLEAN
  PROVE  MotionInv(Enter(m, changed, next, t, animated)) /\ Enter(m, changed, next, t, animated).discovery = None
<1>1. PICK c : c = Retarget(m.comp, Share(next), t, animated)
  OBVIOUS
<1>2. next = None => c.target = 0
  BY <1>1, RetargetTarget DEF Share
<1>3. PICK lyric \in {next, m.displayed} :
        lyric = IF next # None \/ (changed /\ m.jump) \/ ~animated THEN next ELSE m.displayed
  OBVIOUS
<1>4. PICK a : a = [m EXCEPT !.cue = None]
  OBVIOUS
<1>5. PICK b : b = [a EXCEPT !.comp = c]
  OBVIOUS
<1>6. PICK d : d = [b EXCEPT !.semantic = next]
  OBVIOUS
<1>7. PICK e : e = [d EXCEPT !.displayed = IF next # None \/ (changed /\ m.jump) \/ ~animated THEN next ELSE @]
  OBVIOUS
<1>8. PICK f : f = [e EXCEPT !.cause = IF next # None THEN "entry" ELSE "exit"]
  OBVIOUS
<1>9. MotionRecord(a) /\ a.displayed = m.displayed /\ a.discovery = None /\ a.comp = m.comp /\ a.jump = m.jump
  BY <1>4 DEF MotionBefore, MotionRecord
<1>10. MotionRecord(b) /\ b.displayed = m.displayed /\ b.discovery = None /\ b.comp = c
  BY <1>5, <1>9 DEF MotionRecord
<1>11. /\ MotionRecord(d) /\ d.displayed = m.displayed /\ d.discovery = None /\ d.comp = c
       /\ d.semantic = next
  BY <1>6, <1>10 DEF MotionRecord
<1>12. MotionRecord(e) /\ e.displayed = lyric /\ e.discovery = None /\ e.comp = c /\ e.semantic = next
  BY <1>3, <1>7, <1>11 DEF MotionRecord
<1>13. MotionRecord(f) /\ f.displayed = lyric /\ f.discovery = None /\ f.comp = c /\ f.semantic = next
  BY <1>8, <1>12 DEF MotionRecord
<1>14. Enter(m, changed, next, t, animated) = f
  <2>1. f = [m EXCEPT !.cue = None, !.comp = c, !.semantic = next,
               !.displayed = IF next # None \/ (changed /\ m.jump) \/ ~animated THEN next ELSE @,
               !.cause = IF next # None THEN "entry" ELSE "exit"]
    BY <1>4, <1>5, <1>6, <1>7, <1>8, Zenon
  <2>2. [m EXCEPT !.cue = None, !.comp = c] = [m EXCEPT !.cue = None, !.comp = Retarget(@, Share(next), t, animated)]
    BY <1>1 DEF MotionBefore, MotionRecord
  <2>3. Enter(m, changed, next, t, animated)
          = [m EXCEPT !.cue = None, !.comp = Retarget(@, Share(next), t, animated), !.semantic = next,
               !.displayed = IF next # None \/ (changed /\ m.jump) \/ ~animated THEN next ELSE @,
               !.cause = IF next # None THEN "entry" ELSE "exit"]
    BY Zenon DEF Enter
  <2>4. QED  BY <2>1, <2>2, <2>3, Zenon
<1>15. next # None => lyric = next
  BY <1>3
<1>16. QED  BY <1>2, <1>13, <1>14, <1>15 DEF MotionInv

(* One cue follows another: what is shown is what is current.               *)
LEMMA FollowInv ==
  ASSUME NEW m, NEW next, MotionBefore(m, next), next # None, NEW changed \in BOOLEAN,
         NEW t, NEW animated \in BOOLEAN
  PROVE  MotionInv(Follow(m, changed, next, t, animated)) /\ Follow(m, changed, next, t, animated).discovery = None
<1> DEFINE source == m.semantic
           revised == source.song # next.song
           sought == changed /\ (m.jump \/ m.sample = None)
           natural == ~revised /\ ~sought /\ Adjacent(source, next)
           kind == IF ~natural THEN None ELSE IF IsBlank(next) THEN "blank_entry"
                   ELSE IF IsBlank(source) THEN "blank_exit" ELSE "natural"
           cause == CASE revised -> "revised" [] ~revised /\ sought -> "sought"
                      [] ~revised /\ ~sought /\ ~natural -> "skipped" [] OTHER -> kind
           cue == HandOver(m, kind, source, next, t, animated)
           blank == natural /\ IsBlank(source) /\ IsBlank(next)
<1>1. PICK a : a = [m EXCEPT !.semantic = next]
  OBVIOUS
<1>2. PICK current : current = [a EXCEPT !.displayed = next]
  OBVIOUS
<1>3. PICK b : b = [current EXCEPT !.cause = "blank"]
  OBVIOUS
<1>4. PICK c : c = [b EXCEPT !.cue = IF animated /\ CueActive(m, t) THEN @ ELSE None]
  OBVIOUS
<1>5. PICK d : d = [current EXCEPT !.cue = cue]
  OBVIOUS
<1>6. PICK e : e = [d EXCEPT !.cause = cause]
  OBVIOUS
<1>7. Follow(m, changed, next, t, animated) = IF blank THEN c ELSE e
  BY <1>1, <1>2, <1>3, <1>4, <1>5, <1>6, Zenon DEF Follow
<1> HIDE DEF cue, cause, blank
<1>8. MotionRecord(a) /\ a.semantic = next /\ a.discovery = None
  BY <1>1 DEF MotionBefore, MotionRecord
<1>9. MotionRecord(current) /\ current.semantic = next /\ current.displayed = next /\ current.discovery = None
  BY <1>2, <1>8 DEF MotionRecord
<1>10. MotionRecord(b) /\ b.semantic = next /\ b.displayed = next /\ b.discovery = None
  BY <1>3, <1>9 DEF MotionRecord
<1>11. MotionInv(c) /\ c.discovery = None
  <2>1. PICK x : c = [b EXCEPT !.cue = x]
    BY <1>4
  <2>2. MotionRecord(c) /\ c.semantic = next /\ c.displayed = next /\ c.discovery = None
    BY <1>10, <2>1 DEF MotionRecord
  <2>3. QED  BY <2>2 DEF MotionInv
<1>12. MotionRecord(d) /\ d.semantic = next /\ d.displayed = next /\ d.discovery = None
  BY <1>5, <1>9 DEF MotionRecord
<1>13. MotionInv(e) /\ e.discovery = None
  <2>1. MotionRecord(e) /\ e.semantic = next /\ e.displayed = next /\ e.discovery = None
    BY <1>6, <1>12 DEF MotionRecord
  <2>2. QED  BY <2>1 DEF MotionInv
<1>14. QED  BY <1>7, <1>11, <1>13

(* An update that no longer waits leaves it so.                             *)
LEMMA UpdateInv ==
  ASSUME NEW m0, NEW next, MotionBefore(m0, next), NEW revision, NEW t, NEW animated \in BOOLEAN
  PROVE  /\ MotionInv(Update(m0, revision, next, t, animated))
         /\ Update(m0, revision, next, t, animated).discovery = None
<1>1. PICK m : m = [m0 EXCEPT !.revision = revision]
  OBVIOUS
<1>2. PICK changed \in BOOLEAN : changed = (revision # m0.revision)
  OBVIOUS
<1>3. PICK r : r = Update(m0, revision, next, t, animated)
  OBVIOUS
<1>4. MotionBefore(m, next)
  <2>1. /\ MotionRecord(m) /\ m.semantic = m0.semantic /\ m.displayed = m0.displayed
        /\ m.comp = m0.comp /\ m.discovery = m0.discovery
    BY <1>1 DEF MotionBefore, MotionRecord
  <2>2. QED  BY <2>1 DEF MotionBefore
<1>5. CASE m.semantic = next /\ ~animated
  <2>1. PICK a : a = [m EXCEPT !.displayed = next]
    OBVIOUS
  <2>2. PICK b : b = [a EXCEPT !.cue = None]
    OBVIOUS
  <2>3. PICK c : c = Settled(Share(next))
    OBVIOUS
  <2>4. PICK d : d = [b EXCEPT !.comp = c]
    OBVIOUS
  <2>5. r = d
    BY <1>1, <1>3, <1>5, <2>1, <2>2, <2>3, <2>4, Zenon DEF Update
  <2>6. MotionRecord(a) /\ a.semantic = next /\ a.displayed = next /\ a.discovery = None
    BY <1>4, <1>5, <2>1 DEF MotionBefore, MotionRecord
  <2>7. MotionRecord(b) /\ b.semantic = next /\ b.displayed = next /\ b.discovery = None
    BY <2>2, <2>6 DEF MotionRecord
  <2>8. MotionRecord(d) /\ d.semantic = next /\ d.displayed = next /\ d.discovery = None /\ d.comp = c
    BY <2>4, <2>7 DEF MotionRecord
  <2>9. next = None => c.target = 0
    BY <2>3 DEF Settled, Share
  <2>10. QED  BY <1>3, <2>5, <2>8, <2>9 DEF MotionInv
<1>6. CASE m.semantic = next /\ animated /\ changed /\ m.jump
  <2>1. PICK a : a = [m EXCEPT !.displayed = next]
    OBVIOUS
  <2>2. PICK b : b = [a EXCEPT !.cue = None]
    OBVIOUS
  <2>3. PICK d : d = [b EXCEPT !.cause = "sought"]
    OBVIOUS
  <2>4. r = d
    BY <1>1, <1>2, <1>3, <1>6, <2>1, <2>2, <2>3, Zenon DEF Update
  <2>5. MotionRecord(a) /\ a.semantic = next /\ a.displayed = next /\ a.discovery = None /\ a.comp = m.comp
    BY <1>4, <1>6, <2>1 DEF MotionBefore, MotionRecord
  <2>6. MotionRecord(b) /\ b.semantic = next /\ b.displayed = next /\ b.discovery = None /\ b.comp = m.comp
    BY <2>2, <2>5 DEF MotionRecord
  <2>7. MotionRecord(d) /\ d.semantic = next /\ d.displayed = next /\ d.discovery = None /\ d.comp = m.comp
    BY <2>3, <2>6 DEF MotionRecord
  <2>8. QED  BY <1>3, <1>4, <1>6, <2>4, <2>7 DEF MotionInv, MotionBefore
<1>7. CASE m.semantic = next /\ animated /\ ~(changed /\ m.jump)
  <2>1. r = m
    BY <1>1, <1>2, <1>3, <1>7, Zenon DEF Update
  <2>2. QED  BY <1>3, <1>4, <1>7, <2>1 DEF MotionInv, MotionBefore
<1>8. CASE m.semantic # next /\ ((m.semantic = None) # (next = None))
  <2>1. r = Enter(m, changed, next, t, animated)
    BY <1>1, <1>2, <1>3, <1>8 DEF Update
  <2>2. QED  BY <1>3, <1>4, <1>8, <2>1, EnterInv
<1>9. CASE m.semantic # next /\ ~((m.semantic = None) # (next = None))
  <2>1. r = Follow(m, changed, next, t, animated)
    BY <1>1, <1>2, <1>3, <1>9 DEF Update
  <2>2. QED  BY <1>3, <1>4, <1>9, <2>1, FollowInv
<1>10. QED  BY <1>5, <1>6, <1>7, <1>8, <1>9

(* A motion waits for lyrics for no longer than it may.                     *)
LEMMA InformedInv ==
  ASSUME NEW m, MotionInv(m), NEW revision, NEW next, NEW known, NEW t, NEW animated \in BOOLEAN,
         NEW r, r = UpdateWithInformation(m, revision, next, known, t, animated)
  PROVE  MotionInv(r) /\ (r.discovery # None => t - r.discovery < DiscoveryGrace)
<1>1. CASE Discovering(m, next, known, t)
  <2>1. PICK c : c = Settled(m.comp.target)
    OBVIOUS
  <2>2. PICK a : a = [m EXCEPT !.comp = c]
    OBVIOUS
  <2>3. [m EXCEPT !.comp = Settled(@.target)] = a
    BY <2>1, <2>2 DEF MotionInv, MotionRecord
  <2>4. r = IF animated THEN m ELSE a
    BY <1>1, <2>3, Zenon DEF UpdateWithInformation
  <2>5. c.target = m.comp.target
    BY <2>1 DEF Settled
  <2>6. /\ MotionRecord(a) /\ a.semantic = m.semantic /\ a.displayed = m.displayed
        /\ a.discovery = m.discovery /\ a.comp = c
    BY <2>2 DEF MotionInv, MotionRecord
  <2>7. MotionInv(a)
    BY <2>5, <2>6 DEF MotionInv
  <2>8. QED  BY <1>1, <2>4, <2>6, <2>7 DEF Discovering
<1>2. CASE ~Discovering(m, next, known, t) /\ m.discovery = None
  <2>1. r = Update(m, revision, next, t, animated)
    BY <1>2 DEF UpdateWithInformation
  <2>2. MotionBefore(m, next)
    BY <1>2 DEF MotionInv, MotionBefore
  <2>3. QED  BY <2>1, <2>2, UpdateInv
<1>3. CASE ~Discovering(m, next, known, t) /\ m.discovery # None
  <2>1. PICK c : c = Retarget(m.comp, Share(next), t, animated)
    OBVIOUS
  <2>2. PICK a : a = [m EXCEPT !.discovery = None]
    OBVIOUS
  <2>3. PICK b : b = [a EXCEPT !.comp = c]
    OBVIOUS
  <2>4. MotionRecord(a) /\ a.semantic = None /\ a.displayed = None /\ a.discovery = None /\ a.comp = m.comp
    BY <1>3, <2>2 DEF MotionInv, MotionRecord
  <2>5. MotionRecord(b) /\ b.semantic = None /\ b.displayed = None /\ b.discovery = None /\ b.comp = c
    BY <2>3, <2>4 DEF MotionRecord
  <2>6. b = [m EXCEPT !.discovery = None, !.comp = Retarget(@, Share(next), t, animated)]
    BY <2>1, <2>2, <2>3, <2>4
  <2>7. r = Update(b, revision, next, t, animated)
    BY <1>3, <2>6, Zenon DEF UpdateWithInformation
  <2>8. MotionBefore(b, next)
    BY <2>1, <2>5, RetargetTarget DEF MotionBefore, Share
  <2>9. QED  BY <2>7, <2>8, UpdateInv
<1>4. QED  BY <1>1, <1>2, <1>3

-----------------------------------------------------------------------------
(* DisplayedPositionContinuous's steps.                                     *)
Moves == (/\ drawn'.revision = drawn.revision
          /\ drawn.position # None /\ drawn'.position # None)
         => drawn'.position - drawn.position \in 0 .. (drawn'.at - drawn.at)

LEMMA StepMoves == PInv /\ [PlaybackNext]_vars => [Moves]_vars
<1> SUFFICES ASSUME PInv, PlaybackNext, drawn'.revision = drawn.revision,
                    drawn.position # None, drawn'.position # None
             PROVE  drawn'.position - drawn.position \in 0 .. (drawn'.at - drawn.at)
  BY DEF Moves
<1>1. drawn.at \in Nat /\ drawn.position \in Nat
  <2>1. now \in Nat /\ drawn.at \in 0 .. now /\ PositionInv(displayed.timing.timing, drawn.at)
    BY DEF PInv, FullInv, TInv, StateInv, Sound
  <2>2. PICK x : x = Resolved(displayed.timing, drawn.at).position
    OBVIOUS
  <2>3. drawn.position = x
    BY <2>2 DEF PInv, DrawnInv
  <2>4. /\ displayed.timing.timing.position # None
        /\ x = Projected(displayed.timing.timing.position, displayed.timing.snapshot.playback,
                         displayed.timing.timing.duration, drawn.at, displayed.timing.behavior)
    BY <2>1, <2>2, <2>3, ShownPosition
  <2>5. x \in Nat
    <3>1. drawn.at \in Nat /\ drawn.at <= drawn.at
      BY <2>1
    <3>2. QED  BY <2>1, <2>4, <3>1, ProjectedMoves
  <2>6. QED  BY <2>1, <2>3, <2>5
<1>2. CASE drawn' = drawn
  BY <1>1, <1>2
<1>3. ASSUME NEW assets \in BOOLEAN, NEW lyrics \in BOOLEAN, NEW animated \in BOOLEAN,
             Render(assets, lyrics, animated)
      PROVE  drawn'.position - drawn.position \in 0 .. (drawn'.at - drawn.at)
  <2>1. PICK next : next = Selected(state, assets, lyrics, now)
    OBVIOUS
  <2>2. PICK p : p = Retained(SelectedFrame(state, next, assets, now), assets)
    OBVIOUS
  <2>3. PICK frame : frame = MotionFrame(motion', now)
    OBVIOUS
  <2>4. CASE ~viewed'
    <3>1. drawn' = [drawn EXCEPT !.at = now]
      BY <1>3, <2>4 DEF Render
    <3>2. drawn'.position = drawn.position
      BY <3>1 DEF PInv, FrameRecord
    <3>3. ~viewed
      BY <1>3, <2>4 DEF Render
    <3>4. QED  BY <3>3 DEF PInv
  <2>5. CASE viewed'
    <3>1. drawn' = [at |-> now, cues |-> frame.cues, anchors |-> frame.anchors,
                    composition |-> frame.composition, animated |-> animated,
                    position |-> IF NowPlaying(p) THEN p.position ELSE None,
                    revision |-> next.timing.revision]
      BY <1>3, <2>1, <2>2, <2>3, <2>5, Zenon DEF Render
    <3>2. /\ drawn'.at = now /\ drawn'.revision = next.timing.revision
          /\ drawn'.position = IF NowPlaying(p) THEN p.position ELSE None
      BY <3>1
    <3>3. NowPlaying(p) /\ drawn'.position = p.position
      BY <3>2
    <3>4. PICK y : y = Resolved(next.timing, now).position
      OBVIOUS
    <3>5. drawn'.position = y
      BY <2>1, <2>2, <3>3, <3>4, FramePosition
    <3>6. OfSong(next.timing.snapshot)
      BY <2>1, <2>2, <3>3, FramePosition
    <3>7. QED  BY <2>1, <3>2, <3>4, <3>5, <3>6, PositionDrawn
  <2>6. QED  BY <1>3, <2>4, <2>5 DEF Render
<1>4. QED  BY <1>2, <1>3 DEF PlaybackNext, Receive, Elapse

(* What the screen shows is made of the presentation state: receiving, the  *)
(* clock and drawing are its steps, and nothing else.                       *)
LEMMA TimingSteps == [PlaybackNext]_vars => [Next]_timingVars
BY DEF PlaybackNext, Receive, Render, Elapse, Next, vars, timingVars

(* The playback on the screen implements the presentation state: all that   *)
(* is proved of the timing of snapshots holds while destinations are being  *)
(* prepared and drawn.                                                      *)
THEOREM PlaybackRunsTiming == PlaybackSpec => Spec
BY TimingSteps, PTL DEF PlaybackSpec, Spec, PlaybackInit

(* While one revision is displayed, its position advances with the clock or *)
(* rests, however many snapshots arrive and whatever is prepared meanwhile: *)
(* for any snapshots, durations and graces.                                 *)
THEOREM DisplayedPositionMoves == PlaybackSpec => DisplayedPositionContinuous
<1>1. PlaybackSpec => [][Moves]_vars
  BY PlaybackFirst, PlaybackKeeps, StepMoves, PTL DEF PlaybackSpec
<1>2. QED  BY <1>1 DEF DisplayedPositionContinuous, Moves

-----------------------------------------------------------------------------
SpaceInv == /\ MotionInv(motion)
            /\ viewed /\ NowPlaying(shown) /\ motion.discovery # None
                 => drawn.at - motion.discovery < DiscoveryGrace

(* Whatever is drawn, lyrics take the space they may.                       *)
LEMMA RenderSpace ==
  ASSUME PInv, SpaceInv, NEW assets \in BOOLEAN, NEW lyrics \in BOOLEAN, NEW animated \in BOOLEAN,
         Render(assets, lyrics, animated)
  PROVE  SpaceInv'
<1>1. PICK next : next = Selected(state, assets, lyrics, now)
  OBVIOUS
<1>2. PICK p : p = Retained(SelectedFrame(state, next, assets, now), assets)
  OBVIOUS
<1> DEFINE replacement == generation # state.generation \/ ~InPlace(shown, PresentationAt(state, now))
<1>3. PICK base : base = IF assets THEN Adopted(p, replacement, next.timing.revision, animated) ELSE motion
  OBVIOUS
<1>4. MotionInv(base)
  <2>1. now \in Nat
    BY DEF PInv, FullInv, TInv, StateInv
  <2>2. base \in {motion, Inherited(motion, drawn.at, now), NewMotion(next.timing.revision, Lyrics(p))}
    BY <1>3 DEF Adopted
  <2>3. QED  BY <2>1, <2>2, InheritedInv, NewMotionInv DEF SpaceInv
<1>5. /\ shown' = p /\ viewed' = (viewed \/ assets)
      /\ motion' = IF viewed' THEN MotionAfter(base, p, next.timing.revision, now, animated) ELSE motion
  BY <1>1, <1>2, <1>3, Zenon DEF Render
<1>6. CASE ~viewed'
  BY <1>5, <1>6 DEF SpaceInv
<1>7. CASE viewed' /\ ~NowPlaying(p)
  <2>1. motion' = base
    BY <1>5, <1>7 DEF MotionAfter
  <2>2. QED  BY <1>4, <1>5, <1>7, <2>1 DEF SpaceInv
<1>8. CASE viewed' /\ NowPlaying(p)
  <2>1. PICK advancing \in BOOLEAN : advancing = (p.status = "playing")
    OBVIOUS
  <2>2. PICK m : m = ObservePlayback(base, next.timing.revision, p.position, advancing, now)
    OBVIOUS
  <2>3. motion' = UpdateWithInformation(m, next.timing.revision, p.lyrics, p.lyricsKnown, now, animated)
    BY <1>5, <1>8, <2>1, <2>2, Zenon DEF MotionAfter
  <2>4. MotionInv(m)
    BY <1>4, <2>2, ObservedInv
  <2>5. MotionInv(motion') /\ (motion'.discovery # None => now - motion'.discovery < DiscoveryGrace)
    BY <2>3, <2>4, InformedInv
  <2>6. drawn'.at = now
    <3>1. PICK frame : frame = MotionFrame(motion', now)
      OBVIOUS
    <3>2. drawn' = [at |-> now, cues |-> frame.cues, anchors |-> frame.anchors,
                    composition |-> frame.composition, animated |-> animated,
                    position |-> IF NowPlaying(p) THEN p.position ELSE None,
                    revision |-> next.timing.revision]
      BY <1>1, <1>2, <1>8, <3>1, Zenon DEF Render
    <3>3. QED  BY <3>2
  <2>7. QED  BY <2>5, <2>6 DEF SpaceInv
<1>9. QED  BY <1>5, <1>6, <1>7, <1>8

LEMMA SpaceKeeps == PInv /\ SpaceInv /\ [PlaybackNext]_vars => SpaceInv'
<1> SUFFICES ASSUME PInv, SpaceInv, [PlaybackNext]_vars PROVE SpaceInv'
  OBVIOUS
<1>1. CASE UNCHANGED <<motion, viewed, shown, drawn>>
  BY <1>1 DEF SpaceInv
<1>2. QED  BY <1>1, RenderSpace DEF PlaybackNext, Receive, Elapse, vars

LEMMA SpaceFirst == PlaybackInit => SpaceInv
BY NewMotionInv DEF PlaybackInit, SpaceInv

LEMMA SpaceTaken == SpaceInv => ReservedOnlyWhileDiscovering
BY DEF SpaceInv, MotionInv, ReservedOnlyWhileDiscovering

(* Space is reserved for lyrics that are not there only while they may      *)
(* still be discovered, and a reel that is no longer current only leaves:   *)
(* for any lyrics, however frames, snapshots and replacements interleave.   *)
THEOREM SpaceReserved == PlaybackSpec => []ReservedOnlyWhileDiscovering
BY PlaybackFirst, PlaybackKeeps, SpaceFirst, SpaceKeeps, SpaceTaken, PTL DEF PlaybackSpec
=============================================================================
