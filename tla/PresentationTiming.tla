------------------------- MODULE PresentationTiming -------------------------
(***************************************************************************)
(* The presentation state of the Renderer (presentation.rs): the snapshot   *)
(* it presents, the timing it carries on between snapshots, and how long    *)
(* nothing has played. Snapshots come with incomplete metadata and timing;  *)
(* the state fills the gaps for a while, from the same track only.          *)
(*                                                                         *)
(* Time is counted in ticks. A snapshot is a record: availability,          *)
(* playback, zone, meta (None, or a value or None per metadata field), art, *)
(* position and the age of its sample, duration, and the timeline (song) of *)
(* its lyrics. The Bridge's clock may be ahead: an age may be negative.     *)
(***************************************************************************)
EXTENDS PresentationValues, Integers, Sequences, FiniteSets

CONSTANTS Snapshots, \* what the Bridge may publish
          Cues,      \* for each song with lyrics, a sequence of [at, blank]
          ProvisionalGrace, \* PROVISIONAL_TIMING_GRACE
          InactivityGrace, Cadence, \* the inactivity configuration
          EntryLead, FinalHold,     \* of a lyric timeline
          MaxTime,   \* bound: ticks
          MaxUpdates \* bound: snapshots and disconnections

ASSUME TimingAssumption ==
  /\ {ProvisionalGrace, InactivityGrace, EntryLead, FinalHold, MaxTime, MaxUpdates} \subseteq Nat
  /\ Cadence \in Nat \ {0}

VARIABLES state,    \* PresentationState
          now,      \* the monotonic clock
          updates,  \* bound: snapshots and disconnections so far
          seen,     \* history: the metadata presented as the current track
          reported, \* history: the generation the duration was reported in
          lacking,  \* history: for how long timing has been incomplete
          idle      \* history: for how long nothing has played

timingVars == <<state, now, updates, seen, reported, lacking, idle>>

Least(a, b) == IF a <= b THEN a ELSE b

\* mutant: a position runs past the end of the track
Unbounded(seconds, duration) == seconds

(* min(duration.unwrap_or(INFINITY)), and ResolvedTiming::clamped          *)
Bounded(seconds, duration) == IF duration = None THEN seconds ELSE Least(seconds, duration)

-----------------------------------------------------------------------------
(* What a snapshot says                                                    *)

Complete(s) == s.position # None /\ s.duration # None

CanObserveTiming(s) == s.availability = "available" /\ s.playback # "stopped" /\ s.meta # None

(* inactivity_condition                                                    *)
Condition(s) == IF s.availability # "available" THEN s.availability
                ELSE IF s.playback \in {"paused", "stopped"} THEN s.playback ELSE None

DisconnectedSnapshot ==
  [availability |-> "disconnected", playback |-> None, zone |-> None, meta |-> None, art |-> None,
   position |-> None, age |-> 0, duration |-> None, song |-> None]

(* A blank line is no metadata.                                            *)
Usable(value) == IF value = "" THEN None ELSE value

Known(s) == IF s.meta = None THEN None ELSE [f \in Fields |-> Usable(s.meta[f])]

Conditions == {"paused", "stopped", "disconnected", "output_unavailable", "pairing_required"}

(* Positions and durations are not negative; None is no value of anything. *)
ASSUME SnapshotsAssumption ==
  /\ None \notin Int /\ None \notin Conditions
  /\ \A s \in Snapshots :
       /\ s.availability = "available" \/ s.availability \in Conditions
       /\ {s.position, s.duration} \subseteq Nat \cup {None} /\ s.age \in Int
       /\ s.meta # None => Known(s) # None

(* A snapshot has these fields (PlaybackSnapshot).                          *)
ASSUME SnapshotsAreRecords ==
  \A s \in Snapshots :
    s = [availability |-> s.availability, playback |-> s.playback, zone |-> s.zone, meta |-> s.meta,
         art |-> s.art, position |-> s.position, age |-> s.age, duration |-> s.duration, song |-> s.song]

Shown(known) == IF known = None THEN Nothing ELSE known

\* mutant: only the latest observation is remembered
LatestKnown(known, next) == next

EnrichedWith(known, next) == [f \in Fields |-> IF next[f] # None THEN next[f] ELSE known[f]]

-----------------------------------------------------------------------------
(* TimingContinuity                                                        *)

(* source_sample_age: a sample from the future is taken as fresh.          *)
SampleAge(s) == IF s.age < 0 THEN 0 ELSE s.age

(* authoritative_position_anchor                                           *)
Anchor(s, at, behavior) ==
  IF s.position = None THEN None
  ELSE [seconds |-> Bounded(s.position + (IF behavior = "dynamic" /\ s.playback = "playing"
                                          THEN SampleAge(s) ELSE 0), s.duration),
        at |-> at, basis |-> "authoritative"]

(* projected_position                                                      *)
Projected(anchor, playback, duration, at, behavior) ==
  Bounded(anchor.seconds + (IF behavior = "dynamic" /\ playback = "playing" THEN at - anchor.at ELSE 0),
          duration)

ActiveGrace(at) == [kind |-> "active", at |-> at]
Ready   == [kind |-> "ready", at |-> None]
Expired == [kind |-> "expired", at |-> None]

IsActive(grace, at)   == grace.kind = "active" /\ at - grace.at < ProvisionalGrace
HasExpired(grace, at) == grace.kind = "active" /\ at - grace.at >= ProvisionalGrace

\* mutant: a static fixture gets a grace too
FirstGraceAnyBehavior(s, at, behavior) ==
  IF Complete(s) THEN Ready ELSE IF CanObserveTiming(s) THEN ActiveGrace(at) ELSE Expired

(* The grace of timing that begins with a snapshot.                        *)
FirstGrace(s, at, behavior) ==
  IF Complete(s) THEN Ready
  ELSE IF CanObserveTiming(s) /\ behavior = "dynamic" THEN ActiveGrace(at) ELSE Expired

(* TimingContinuity::new and ::discarded                                   *)
NewTiming(s, at, behavior) ==
  [position |-> Anchor(s, at, behavior), duration |-> s.duration, grace |-> FirstGrace(s, at, behavior),
   known |-> Known(s), awaiting |-> s.availability = "available" /\ s.playback = "stopped"]

Discarded == [position |-> None, duration |-> None, grace |-> Expired, known |-> None, awaiting |-> FALSE]

ZoneContinues(previous, next) == /\ previous.availability = "available"
                                 /\ next.availability = "available"
                                 /\ previous.zone = next.zone

Continues(timing, previous, next) ==
  /\ ZoneContinues(previous, next)
  /\ timing.known # None /\ Known(next) # None
  /\ Compatible(timing.known, Known(next))

TrackChanged(timing, previous, next) ==
  /\ ZoneContinues(previous, next) /\ Known(next) # None
  /\ \/ timing.awaiting
     \/ timing.known # None /\ ~Continues(timing, previous, next)

\* mutant: the previous track's duration outlives it
KeptDurationAlways(timing, changed, next) ==
  IF next.duration # None THEN next.duration ELSE timing.duration

KeptDuration(timing, changed, next) ==
  IF next.duration # None THEN next.duration ELSE IF changed THEN None ELSE timing.duration

\* mutant: the position is carried on under the new playback
CarriedByNext(timing, previous, next, at, behavior) ==
  IF timing.position = None THEN None
  ELSE [timing.position EXCEPT
          !.seconds = Projected(timing.position, next.playback, timing.duration, at, behavior), !.at = at]

(* The retained position, carried on to this instant.                      *)
Carried(timing, previous, next, at, behavior) ==
  IF timing.position = None THEN None
  ELSE [timing.position EXCEPT
          !.seconds = Projected(timing.position, previous.playback, timing.duration, at, behavior),
          !.at = at]

\* mutant: every incomplete snapshot begins another grace
GraceAgain(grace, changed, next, at, behavior) ==
  IF Complete(next) THEN Ready ELSE IF behavior = "static" THEN Expired ELSE ActiveGrace(at)

NextGrace(grace, changed, next, at, behavior) ==
  CASE Complete(next)                    -> Ready
    [] ~Complete(next) /\ behavior = "static" -> Expired
    [] OTHER -> IF changed \/ grace.kind = "ready" THEN ActiveGrace(at)
                ELSE IF HasExpired(grace, at) THEN Expired ELSE grace

(* The part of TimingContinuity::update that keeps the timing of a track.  *)
KeptTiming(timing, previous, next, at, behavior) ==
  LET changed  == TrackChanged(timing, previous, next)
      duration == KeptDuration(timing, changed, next)
      kept     == IF next.position # None THEN Anchor(next, at, behavior)
                  ELSE IF changed THEN [seconds |-> 0, at |-> at, basis |-> "zero"]
                  ELSE Carried(timing, previous, next, at, behavior)
  IN [position |-> IF kept = None THEN None ELSE [kept EXCEPT !.seconds = Bounded(@, duration)],
      duration |-> duration,
      grace |-> NextGrace(timing.grace, changed, next, at, behavior)]

(* TimingContinuity::update                                                *)
UpdatedTiming(timing, previous, next, at, behavior) ==
  LET continues == Continues(timing, previous, next)
      keeps == CanObserveTiming(next) /\ (continues \/ TrackChanged(timing, previous, next))
      fresh == NewTiming(next, at, behavior)
      kept  == IF keeps THEN KeptTiming(timing, previous, next, at, behavior) ELSE fresh
  IN [position |-> kept.position, duration |-> kept.duration, grace |-> kept.grace,
      known |-> IF continues THEN EnrichedWith(timing.known, Known(next)) ELSE Known(next),
      awaiting |-> /\ next.availability = "available"
                   /\ \/ next.playback = "stopped"
                      \/ ZoneContinues(previous, next) /\ timing.awaiting /\ Known(next) = None]

(* resolved_at: what the snapshot says, and for the grace what was known.  *)
Resolved(st, at) ==
  LET t == st.timing
      provisional == IsActive(t.grace, at)
      positioned == /\ t.position # None
                    /\ \/ st.snapshot.position # None
                       \/ provisional /\ (t.position.basis = "authoritative" \/ t.duration # None)
      duration == IF st.snapshot.duration # None \/ provisional THEN t.duration ELSE None
  IN [position |-> IF positioned
                   THEN Bounded(Projected(t.position, st.snapshot.playback, t.duration, at, st.behavior),
                                duration)
                   ELSE None,
      duration |-> duration]

-----------------------------------------------------------------------------
(* What a state presents                                                   *)

(* lyric_presentation: the cue at a position, from EntryLead before the     *)
(* first line to FinalHold after the last cue.                             *)
LyricAt(song, position) ==
  LET cues  == Cues[song]
      lines == {i \in DOMAIN cues : ~cues[i].blank}
      first == CHOOSE i \in lines : \A j \in lines : i <= j
      begun == {i \in DOMAIN cues : cues[i].at <= position}
  IN IF \/ lines = {} \/ position + EntryLead < cues[first].at
        \/ position > cues[Len(cues)].at + FinalHold
     THEN None
     ELSE IF position < cues[first].at
     THEN [song |-> song, index |-> first, preparing |-> TRUE]
     ELSE [song |-> song, index |-> CHOOSE i \in begun : \A j \in begun : j <= i, preparing |-> FALSE]

(* previous_index and next_index of a LyricPresentation                    *)
PreviousLine(lyric) ==
  LET lines == IF lyric.preparing THEN {}
               ELSE {i \in 1 .. (lyric.index - 1) : ~Cues[lyric.song][i].blank}
  IN IF lines = {} THEN None ELSE CHOOSE i \in lines : \A j \in lines : j <= i

NextLine(lyric) ==
  LET from  == IF lyric.preparing THEN lyric.index ELSE lyric.index + 1
      lines == {i \in from .. Len(Cues[lyric.song]) : ~Cues[lyric.song][i].blank}
  IN IF lines = {} THEN None ELSE CHOOSE i \in lines : \A j \in lines : i <= j

FullField(heading, zone, status) == [kind |-> "full_field", heading |-> heading, zone |-> zone,
                                     status |-> status]

(* trackless_full_field                                                    *)
Trackless(s) == FullField(IF s.playback = "loading" THEN "preparing" ELSE "no_details", s.zone, s.playback)

(* presentation_from_snapshot_with_timing                                  *)
PresentationOf(s, timing, graceActive) ==
  LET fields == Shown(Known(s))
  IN CASE s.availability # "available" -> FullField(s.availability, None, s.availability)
       [] s.availability = "available" /\ s.playback = "stopped" ->
            FullField("nothing_playing", s.zone, s.playback)
       [] OTHER ->
            IF fields = Nothing /\ s.art = None THEN Trackless(s)
            ELSE [kind |-> "now_playing", fields |-> fields, zone |-> s.zone, status |-> s.playback,
                  position |-> timing.position, grace |-> graceActive,
                  progress |-> IF timing.position = None THEN None ELSE timing.duration,
                  activity |-> s.playback = "playing" /\ ~graceActive /\ ~Complete(timing),
                  art |-> s.art,
                  lyrics |-> IF timing.position = None \/ s.song = None THEN None
                             ELSE LyricAt(s.song, timing.position),
                  lyricsKnown |-> s.song # None]

(* presentation_at                                                         *)
PresentationAt(st, at) == PresentationOf(st.snapshot, Resolved(st, at), IsActive(st.timing.grace, at))

(* inactivity_transform_at: FALSE, or the position of the dimmed display.  *)
Positions == 8
Inactivity(st, at) ==
  LET quiet == at - st.since
  IN IF st.behavior = "static" \/ st.condition = None \/ quiet < InactivityGrace THEN None
     ELSE ((quiet - InactivityGrace) \div Cadence) % Positions

-----------------------------------------------------------------------------
(* Operations on a PresentationState                                       *)

(* disconnected_with_behavior                                              *)
DisconnectedState(at, behavior) ==
  [snapshot |-> DisconnectedSnapshot, revision |-> 0, timing |-> Discarded, generation |-> 0,
   condition |-> "disconnected", since |-> at, behavior |-> behavior]

(* new_with_behavior                                                       *)
NewState(s, at, behavior) ==
  [snapshot |-> s, revision |-> 0, timing |-> NewTiming(s, at, behavior), generation |-> 0,
   condition |-> Condition(s), since |-> at, behavior |-> behavior]

\* mutant: every snapshot is a sign of life
WakesOnEverySnapshot(st, condition, restart, at) == [st EXCEPT !.condition = condition, !.since = at]

(* The inactivity anchor moves only when the condition changes.            *)
WithCondition(st, condition, restart, at) ==
  IF st.condition # condition \/ (restart /\ condition # None)
  THEN [st EXCEPT !.condition = condition, !.since = at] ELSE st

(* update and update_for_fixture_selection                                 *)
UpdateSnapshot(st, s, revision, at, restart) ==
  [WithCondition(st, Condition(s), restart, at) EXCEPT
     !.snapshot = s, !.revision = revision,
     !.timing = UpdatedTiming(st.timing, st.snapshot, s, at, st.behavior),
     !.generation = IF Continues(st.timing, st.snapshot, s) THEN @ ELSE @ + 1]

(* disconnect: the revision of the last snapshot stays.                    *)
DisconnectState(st, at) ==
  [WithCondition(st, "disconnected", FALSE, at) EXCEPT
     !.snapshot = DisconnectedSnapshot, !.timing = Discarded, !.generation = @ + 1]

\* mutant: the playback changes and the anchor stays behind
PlaybackOnly(st, incoming, at) ==
  IF st.generation # incoming.generation THEN st
  ELSE [st EXCEPT !.snapshot.playback = incoming.snapshot.playback]

(* synchronize_playback                                                    *)
SynchronizePlayback(st, incoming, at) ==
  IF st.generation # incoming.generation \/ st.snapshot.playback = incoming.snapshot.playback THEN st
  ELSE [st EXCEPT !.timing.position = Carried(st.timing, st.snapshot, st.snapshot, at, st.behavior),
                  !.snapshot.playback = incoming.snapshot.playback]

-----------------------------------------------------------------------------
Init ==
  /\ \E behavior \in {"dynamic", "static"} :
       \/ state = DisconnectedState(0, behavior)
       \/ \E s \in Snapshots : state = NewState(s, 0, behavior)
  /\ now = 0 /\ updates = 0
  /\ seen = IF state.snapshot.meta = None THEN {} ELSE {Known(state.snapshot)}
  /\ reported = [position |-> 0, duration |-> 0]
  /\ lacking = IF CanObserveTiming(state.snapshot) /\ ~Complete(state.snapshot) THEN 0 ELSE None
  /\ idle = IF state.condition = None THEN None ELSE 0

(* A snapshot arrives; a fixture is selected when inactivity restarts.     *)
Observe(s, restart) ==
  /\ updates < MaxUpdates /\ updates' = updates + 1
  /\ state' = UpdateSnapshot(state, s, updates + 1, now, restart)
  /\ LET same == state'.generation = state.generation
     IN /\ seen' = (IF same THEN seen ELSE {}) \cup (IF s.meta = None THEN {} ELSE {Known(s)})
        /\ lacking' = IF ~CanObserveTiming(s) \/ Complete(s) THEN None
                      ELSE IF same /\ lacking # None THEN lacking ELSE 0
  /\ reported' = [position |-> IF s.position # None THEN state'.generation ELSE reported.position,
                  duration |-> IF s.duration # None THEN state'.generation ELSE reported.duration]
  /\ idle' = IF Condition(s) = None THEN None
             ELSE IF restart \/ Condition(s) # Condition(state.snapshot) THEN 0 ELSE idle
  /\ UNCHANGED now

(* The connection to the Bridge is lost.                                   *)
Disconnect ==
  /\ updates < MaxUpdates /\ updates' = updates + 1
  /\ state' = DisconnectState(state, now)
  /\ seen' = {} /\ lacking' = None
  /\ idle' = IF state.snapshot.availability = "disconnected" THEN idle ELSE 0
  /\ UNCHANGED <<now, reported>>

Tick ==
  /\ now < MaxTime /\ now' = now + 1
  /\ lacking' = IF lacking = None THEN None ELSE lacking + 1
  /\ idle' = IF idle = None THEN None ELSE idle + 1
  /\ UNCHANGED <<state, updates, seen, reported>>

Next == \/ \E s \in Snapshots, restart \in BOOLEAN : Observe(s, restart)
        \/ Disconnect
        \/ Tick

Spec == Init /\ [][Next]_timingVars

-----------------------------------------------------------------------------
(* The presentation state is well formed, and no position is past the      *)
(* duration that is known (presentation.rs:446-451).                       *)
TypeOK ==
  /\ state.snapshot \in Snapshots \cup {DisconnectedSnapshot}
  /\ state.generation \in 0 .. updates /\ state.revision \in 0 .. updates
  /\ state.since \in 0 .. now
  /\ state.timing.grace \in {Ready, Expired} \cup {ActiveGrace(t) : t \in 0 .. now}
  /\ state.timing.position # None =>
       /\ state.timing.position.at \in 0 .. now
       /\ state.timing.duration # None => state.timing.position.seconds \in 0 .. state.timing.duration

(* A generation presents one track: no two of the snapshots it was made     *)
(* from contradict each other in a line both give. Metadata arrives in      *)
(* pieces, and compatibility with the latest piece alone would let one      *)
(* track become another through a snapshot that says little                 *)
(* (presentation.rs:376-379, 459-465).                                      *)
SameTrackCompatible == \A a, b \in seen : Compatible(a, b)

(* A duration or a position carried on from earlier snapshots was reported  *)
(* for the track on screen, never for the one before (presentation.rs:      *)
(* 428-444): the other tracks' values are dropped when the track changes.   *)
TimingOfThisTrack ==
  LET t == Resolved(state, now)
  IN /\ t.duration # None => reported.duration = state.generation
     /\ t.position # None /\ state.timing.position.basis = "authoritative"
          => reported.position = state.generation

(* Metadata and timing put together from incomplete snapshots are one       *)
(* track's.                                                                *)
OfOneTrack == SameTrackCompatible /\ TimingOfThisTrack

(* A value the current snapshot does not give is shown for at most the      *)
(* provisional grace since timing became incomplete, however many more      *)
(* incomplete snapshots arrive meanwhile (presentation.rs:449-457, 470-506).         *)
ProvisionalOnlyInGrace ==
  LET t == Resolved(state, now) s == state.snapshot
  IN (\/ t.position # None /\ s.position = None
      \/ t.duration # None /\ s.duration = None)
     => (lacking # None /\ lacking < ProvisionalGrace)

(* Something that has not played for the whole inactivity grace is dimmed,  *)
(* and nothing else is: neither snapshots that repeat the condition nor     *)
(* changes of the track restart the grace (presentation.rs:678-683, 767).   *)
DimmedAfterGrace ==
  (Inactivity(state, now) # None) <=> /\ state.behavior = "dynamic"
                                      /\ idle # None /\ idle >= InactivityGrace

(* Each grace runs from the moment it is for, and runs out once.            *)
GracesRunOut == ProvisionalOnlyInGrace /\ DimmedAfterGrace

(* Unless a snapshot of the same track gives a position, the position on    *)
(* screen advances with the clock or rests: no snapshot, and no change of   *)
(* the playback in one, moves it, except that a duration learnt later       *)
(* bounds it (presentation.rs:404-414, 432).                                     *)
PositionContinuous ==
  [][LET before == Resolved(state, now)
         after  == Resolved(state, now)'
     IN (/\ state'.generation = state.generation
         /\ updates' = updates \/ state'.snapshot.position = None
         /\ state.snapshot.playback # "stopped"
         /\ before.position # None /\ after.position # None)
        => IF now' = now THEN after.position = Bounded(before.position, state'.timing.duration)
           ELSE after.position - before.position \in
                  IF state.snapshot.playback = "playing" THEN {0, 1} ELSE {0}]_timingVars

(* A static fixture presents the same frame at every time: no grace runs    *)
(* out, no position advances, nothing is dimmed (presentation.rs:338, 998). *)
StaticFixtureIsStill ==
  [][now' # now /\ state.behavior = "static"
       => PresentationAt(state, now)' = PresentationAt(state, now) /\ Inactivity(state', now') = None]_timingVars

(* What moves on the screen moves by the clock alone.                       *)
MovesByTheClock == PositionContinuous /\ StaticFixtureIsStill

=============================================================================
