---------------------------- MODULE LyricMotion ----------------------------
(***************************************************************************)
(* How the Renderer moves lyrics (lyric_motion.rs): which cue a frame        *)
(* emphasises, how one cue hands over to the next, how the lyrics enter and  *)
(* leave the composition, and what it takes for a seek rather than for the   *)
(* natural course of a song.                                                *)
(*                                                                         *)
(* A LyricMotion is a record; its operations are operators.                *)
(***************************************************************************)
EXTENDS PresentationTiming, Easing

CONSTANTS Handoff,        \* CUE_HANDOFF_DURATION
          BlankHandoff,   \* BLANK_TRANSITION_DURATION
          Composition,    \* COMPOSITION_TRANSITION_DURATION
          DiscoveryGrace, \* LYRIC_DISCOVERY_GRACE
          Tolerance       \* SEEK_DISCONTINUITY_SECONDS

ASSUME MotionAssumption ==
  /\ {Handoff, BlankHandoff, Composition} \subseteq Nat \ {0}
  /\ {DiscoveryGrace, Tolerance} \subseteq Nat

-----------------------------------------------------------------------------
(* ScalarMotion: the share of the composition the lyrics have.              *)

Settled(value) == [from |-> value, target |-> value, at |-> None]

ScalarValue(c, t) ==
  IF c.at = None THEN c.target ELSE Mix(c.from, c.target, Level(t - c.at, Composition))

ScalarActive(c, t) == c.at # None /\ t - c.at < Composition

\* mutant: a movement starts from where the last one was to end
RetargetFromTarget(c, target, t, animated) ==
  IF ~animated \/ c.target = target THEN Settled(target)
  ELSE [from |-> c.target, target |-> target, at |-> t]

Retarget(c, target, t, animated) ==
  IF ~animated \/ ScalarValue(c, t) = target THEN Settled(target)
  ELSE [from |-> ScalarValue(c, t), target |-> target, at |-> t]

Share(lyric) == IF lyric = None THEN 0 ELSE Scale

-----------------------------------------------------------------------------
(* Cues as drawn: for each row its emphasis, opacity, extent and colours.   *)

IsBlank(lyric) == lyric.preparing \/ Cues[lyric.song][lyric.index].blank

\* mutant: a blank is its own row, also in the middle of a run
AnchorAtCue(lyric) == IF lyric.preparing THEN lyric.index - 1 ELSE lyric.index

(* anchor_index: a run of blanks is the row of its first one.               *)
AnchorIndex(lyric) ==
  IF lyric.preparing THEN lyric.index - 1
  ELSE IF ~IsBlank(lyric) THEN lyric.index
  ELSE IF PreviousLine(lyric) = None THEN 1 ELSE PreviousLine(lyric) + 1

Roles == {"earlier", "focal", "upcoming"}

Row(role, visible) ==
  [emphasis |-> IF role = "focal" THEN Scale ELSE 0, opacity |-> IF visible THEN Scale ELSE 0,
   extent |-> Scale, colors |-> [r \in Roles |-> IF r = role THEN Scale ELSE 0], line |-> visible]

(* stable_cues: leading blanks have no row, and a run of blanks has one.    *)
StableCues(lyric) ==
  IF lyric = None THEN <<>>
  ELSE LET cues   == Cues[lyric.song]
           anchor == AnchorIndex(lyric)
           rows   == {i \in DOMAIN cues : cues[i].blank => i > 1 /\ ~cues[i - 1].blank}
                       \cup (IF lyric.preparing THEN {anchor} ELSE {})
       IN [i \in rows |-> Row(IF i < anchor THEN "earlier" ELSE IF i = anchor THEN "focal" ELSE "upcoming",
                              i \in DOMAIN cues /\ ~cues[i].blank)]

StableAnchors(lyric) == IF lyric = None THEN <<>> ELSE [i \in {AnchorIndex(lyric)} |-> Scale]

MotionTime(motion) == IF motion.kind = "blank_entry" THEN BlankHandoff ELSE Handoff

CueActive(m, t) == m.cue # None /\ t - m.cue.at < MotionTime(m.cue)

(* One row between two sets of rows; a row that only one of them has comes   *)
(* or goes with its own colours, and a line keeps its extent.               *)
MixedRow(before, after, i, level) ==
  LET row == IF i \in DOMAIN after THEN after[i] ELSE before[i]
      b   == IF i \in DOMAIN before THEN before[i]
             ELSE [row EXCEPT !.emphasis = 0, !.opacity = 0, !.extent = 0]
      a   == IF i \in DOMAIN after THEN after[i]
             ELSE [row EXCEPT !.emphasis = 0, !.opacity = 0, !.extent = 0]
  IN [emphasis |-> Mix(b.emphasis, a.emphasis, level), opacity |-> Mix(b.opacity, a.opacity, level),
      extent |-> IF row.line THEN Scale ELSE Mix(b.extent, a.extent, level),
      colors |-> [r \in Roles |-> Mix(b.colors[r], a.colors[r], level)], line |-> row.line]

(* cue_motion_frame; the anchors of one row are added up.                   *)
MovingCues(motion, t) ==
  LET level  == Level(t - motion.at, MotionTime(motion))
      source == IF motion.from # None THEN motion.from.cues ELSE StableCues(motion.source)
      target == StableCues(motion.target)
      held   == IF motion.from # None THEN motion.from.anchors ELSE StableAnchors(motion.source)
      goal   == AnchorIndex(motion.target)
      Weight(i) == (IF i \in DOMAIN held THEN Mix(held[i], 0, level) ELSE 0)
                   + (IF i = goal THEN level ELSE 0)
  IN [cues |-> [i \in DOMAIN source \cup DOMAIN target |-> MixedRow(source, target, i, level)],
      anchors |-> [i \in DOMAIN held \cup {goal} |-> Weight(i)]]

(* frame_at                                                                *)
MotionFrame(m, t) ==
  LET drawn == IF CueActive(m, t) THEN MovingCues(m.cue, t)
               ELSE [cues |-> StableCues(m.displayed), anchors |-> StableAnchors(m.displayed)]
  IN [cues |-> drawn.cues, anchors |-> drawn.anchors, composition |-> ScalarValue(m.comp, t)]

MotionActive(m, t) == ScalarActive(m.comp, t) \/ CueActive(m, t)

-----------------------------------------------------------------------------
NewMotion(revision, lyric) ==
  [revision |-> revision, semantic |-> lyric, displayed |-> lyric, cause |-> "settled", cue |-> None,
   comp |-> Settled(Share(lyric)), sample |-> None, jump |-> FALSE, discovery |-> None]

\* mutant: the movement runs on unseen while a replacement is prepared
InheritedUnseen(m, shown, t) == [NewMotion(0, None) EXCEPT !.comp = m.comp, !.discovery = t]

(* inherit_composition: go on from the frame last painted.                  *)
Inherited(m, shown, t) ==
  [NewMotion(0, None) EXCEPT
     !.comp = IF m.comp.at = None THEN m.comp ELSE [m.comp EXCEPT !.at = @ + (t - shown)],
     !.discovery = t]

\* mutant: the position is compared with the one last seen
MovedAtAll(sample, revision, position, advancing, t) ==
  /\ sample # None /\ sample.revision # revision
  /\ sample.position # None /\ position # None
  /\ Distance(position, sample.position) > Tolerance

(* Whether a snapshot relocated playback, as observe_playback sees it.      *)
Relocated(sample, revision, position, advancing, t) ==
  /\ sample # None /\ sample.revision # revision
  /\ ~(sample.advancing /\ ~advancing)
  /\ sample.position # None /\ position # None
  /\ Distance(position, sample.position + (IF sample.advancing THEN t - sample.at ELSE 0)) > Tolerance

(* observe_playback                                                        *)
ObservePlayback(m, revision, position, advancing, t) ==
  [m EXCEPT !.jump = Relocated(m.sample, revision, position, advancing, t),
            !.sample = [revision |-> revision, position |-> position, advancing |-> advancing, at |-> t]]

(* Whether a lyric is what naturally follows another, blanks included.      *)
Adjacent(source, target) ==
  \/ target.index = source.index + 1
  \/ ~IsBlank(target) /\ PreviousLine(target) = source.index
  \/ /\ IsBlank(source) /\ ~IsBlank(target) /\ target.index >= source.index
     /\ PreviousLine(target) = None \/ PreviousLine(target) < source.index

(* The lyrics come or go.                                                  *)
Enter(m, changed, next, t, animated) ==
  [m EXCEPT !.cue = None, !.comp = Retarget(@, Share(next), t, animated), !.semantic = next,
            !.displayed = IF next # None \/ (changed /\ m.jump) \/ ~animated THEN next ELSE @,
            !.cause = IF next # None THEN "entry" ELSE "exit"]

\* mutant: an interrupted handover starts from the cue it was to reach
HandOverFromCue(m, kind, source, target, t, animated) ==
  IF kind = None \/ ~animated THEN None
  ELSE [kind |-> kind, source |-> source, target |-> target, at |-> t, from |-> None]

(* The handover to an adjacent cue starts from what is on the screen.       *)
HandOver(m, kind, source, target, t, animated) ==
  IF kind = None \/ ~animated THEN None
  ELSE [kind |-> kind, source |-> source, target |-> target, at |-> t,
        from |-> IF CueActive(m, t) THEN [cues |-> MotionFrame(m, t).cues, anchors |-> MotionFrame(m, t).anchors]
                 ELSE None]

(* One cue follows another: naturally, or as a cut.                        *)
Follow(m, changed, next, t, animated) ==
  LET source == m.semantic
      revised == source.song # next.song
      sought == changed /\ (m.jump \/ m.sample = None)
      natural == ~revised /\ ~sought /\ Adjacent(source, next)
      moved == [m EXCEPT !.semantic = next, !.displayed = next]
      kind == IF ~natural THEN None ELSE IF IsBlank(next) THEN "blank_entry"
              ELSE IF IsBlank(source) THEN "blank_exit" ELSE "natural"
  IN IF natural /\ IsBlank(source) /\ IsBlank(next)
     THEN [moved EXCEPT !.cause = "blank", !.cue = IF animated /\ CueActive(m, t) THEN @ ELSE None]
     ELSE [moved EXCEPT !.cue = HandOver(m, kind, source, next, t, animated),
             !.cause = CASE revised -> "revised" [] ~revised /\ sought -> "sought"
                         [] ~revised /\ ~sought /\ ~natural -> "skipped" [] OTHER -> kind]

(* update                                                                  *)
Update(m0, revision, next, t, animated) ==
  LET m == [m0 EXCEPT !.revision = revision]
      changed == revision # m0.revision
  IN IF m.semantic = next
     THEN IF ~animated
          THEN [m EXCEPT !.displayed = next, !.cue = None, !.comp = Settled(Share(next))]
          ELSE IF changed /\ m.jump
          THEN [m EXCEPT !.displayed = next, !.cue = None, !.cause = "sought"]
          ELSE m
     ELSE IF (m.semantic = None) # (next = None) THEN Enter(m, changed, next, t, animated)
     ELSE Follow(m, changed, next, t, animated)

\* mutant: the wait has no end
DiscoveringForever(m, next, known, t) == m.discovery # None /\ ~known /\ next = None

(* After a replacement, lyrics that are not known yet may still come: the   *)
(* composition waits for them for DiscoveryGrace.                          *)
Discovering(m, next, known, t) ==
  /\ m.discovery # None /\ ~known /\ next = None
  /\ t - m.discovery < DiscoveryGrace

(* update_with_information                                                 *)
UpdateWithInformation(m, revision, next, known, t, animated) ==
  IF Discovering(m, next, known, t)
  THEN IF animated THEN m ELSE [m EXCEPT !.comp = Settled(@.target)]
  ELSE Update(IF m.discovery = None THEN m
              ELSE [m EXCEPT !.discovery = None, !.comp = Retarget(@, Share(next), t, animated)],
              revision, next, t, animated)

=============================================================================
