------------------------------ MODULE Playback ------------------------------
(***************************************************************************)
(* The song on the screen: the presentation state the Bridge's snapshots     *)
(* make (PresentationTiming), the one that is displayed while a destination  *)
(* is being prepared (displayed_state.rs), and the motion of its lyrics      *)
(* (LyricMotion), as native_runtime.rs and native_view.rs connect them.      *)
(*                                                                         *)
(* Whether the destination is prepared and the outgoing text has left, and   *)
(* whether the lyrics' textures are ready, is chosen freely for each frame.  *)
(* What a prepared presentation looked like when it was requested is that    *)
(* of the frame that adopts it. Frames are faster than ticks: time passes    *)
(* only when every event has been drawn, and while something moves each      *)
(* tick has its frame.                                                     *)
(***************************************************************************)
EXTENDS LyricMotion, Functions

VARIABLES displayed,  \* DisplayedState: state and timing, two presentation states
          generation, \* the generation of the view
          shown,      \* the presentation last drawn, resolved
          viewed,     \* there is a view
          motion,     \* its LyricMotion
          drawn,      \* the frame last drawn
          dirty,      \* an event has not been drawn yet
          moving,     \* frames are drawn continuously
          moved       \* history: how far snapshots have moved the position since it was displayed

vars == <<timingVars, displayed, generation, shown, viewed, motion, drawn, dirty, moving, moved>>

(* Lyrics and timing of another revision than the rest of the frame.        *)
WithTiming(p, timing) ==
  IF NowPlaying(p) /\ NowPlaying(timing)
  THEN [p EXCEPT !.lyrics = timing.lyrics, !.lyricsKnown = timing.lyricsKnown, !.grace = timing.grace,
                 !.progress = timing.progress, !.position = timing.position]
  ELSE p

(* DisplayedState::frame_at: whether the incoming state is displayed, the   *)
(* displayed states after it, and their frame.                             *)
Displays(incoming, assets, t) ==
  \/ assets
  \/ /\ incoming.generation = displayed.state.generation
     /\ NowPlaying(PresentationAt(incoming, t)) /\ NowPlaying(PresentationAt(displayed.state, t))

Selected(incoming, assets, lyrics, t) ==
  LET changed == \/ incoming.revision # displayed.state.revision
                 \/ incoming.generation # displayed.state.generation
  IN IF ~Displays(incoming, assets, t) THEN displayed
     ELSE [state |-> IF changed THEN incoming ELSE displayed.state,
           timing |-> IF assets \/ lyrics THEN incoming
                      ELSE SynchronizePlayback(displayed.timing, incoming, t)]

SelectedFrame(incoming, d, assets, t) ==
  LET frame == PresentationAt(IF Displays(incoming, assets, t) THEN incoming ELSE d.state, t)
  IN IF d.timing.revision # d.state.revision THEN WithTiming(frame, PresentationAt(d.timing, t)) ELSE frame

(* The text that is drawn stays until its replacement is prepared.          *)
Retained(frame, assets) ==
  IF ~assets /\ NowPlaying(frame) /\ NowPlaying(shown)
  THEN [frame EXCEPT !.fields = shown.fields, !.zone = shown.zone] ELSE frame

(* How the view draws a presentation: NativeView::render, for the lyrics.   *)
MotionAfter(m, p, revision, t, animated) ==
  IF ~NowPlaying(p) THEN m
  ELSE UpdateWithInformation(ObservePlayback(m, revision, p.position, p.status = "playing", t),
                             revision, p.lyrics, p.lyricsKnown, t, animated)

Lyrics(p) == IF NowPlaying(p) THEN p.lyrics ELSE None

(* The view that a prepared presentation makes: NativeView::new, replace.   *)
Adopted(p, replacement, revision, animated) ==
  IF viewed /\ ~replacement THEN motion
  ELSE IF viewed /\ animated THEN Inherited(motion, drawn.at, now)
  ELSE NewMotion(revision, Lyrics(p))

Continuous(p) ==
  \/ p.status = "loading"
  \/ /\ NowPlaying(p)
     /\ p.activity \/ (p.status = "playing" /\ p.progress # None /\ p.position < p.progress)

NoFrame == [at |-> 0, cues |-> <<>>, anchors |-> <<>>, composition |-> 0, position |-> None,
            revision |-> 0, animated |-> FALSE]

-----------------------------------------------------------------------------
PlaybackInit ==
  /\ Init
  /\ displayed = [state |-> state, timing |-> state]
  /\ generation = 0 /\ shown = PresentationAt(state, 0)
  /\ viewed = FALSE /\ motion = NewMotion(0, None) /\ drawn = NoFrame
  /\ dirty = TRUE /\ moving = FALSE /\ moved = 0

(* The position a state keeps, presented or not.                            *)
KeptPosition(st) ==
  IF st.timing.position = None THEN None
  ELSE Projected(st.timing.position, st.snapshot.playback, st.timing.duration, now, st.behavior)

(* A position that is given up or given anew has moved.                     *)
PositionMoved(before, after) ==
  IF before = after THEN 0
  ELSE IF before = None \/ after = None THEN Tolerance + 1 ELSE Distance(before, after)

Receive ==
  /\ \/ \E s \in Snapshots : Observe(s, FALSE)
     \/ Disconnect
  /\ dirty' = TRUE
  /\ moved' = moved + PositionMoved(KeptPosition(state), KeptPosition(state'))
  /\ UNCHANGED <<displayed, generation, shown, viewed, motion, drawn, moving>>

(* render_inner: what is selected is drawn.                                *)
Render(assets, lyrics, animated) ==
  LET replacement == \/ generation # state.generation
                     \/ ~InPlace(shown, PresentationAt(state, now))
      next  == Selected(state, assets, lyrics, now)
      p     == Retained(SelectedFrame(state, next, assets, now), assets)
      base  == IF assets THEN Adopted(p, replacement, next.timing.revision, animated) ELSE motion
  IN /\ displayed' = next /\ shown' = p
     /\ generation' = IF assets THEN next.state.generation ELSE generation
     /\ viewed' = (viewed \/ assets)
     /\ motion' = IF viewed' THEN MotionAfter(base, p, next.timing.revision, now, animated) ELSE motion
     /\ drawn' = IF ~viewed' THEN [drawn EXCEPT !.at = now]
                 ELSE LET frame == MotionFrame(motion', now)
                      IN [at |-> now, cues |-> frame.cues, anchors |-> frame.anchors,
                          composition |-> frame.composition, animated |-> animated,
                          position |-> IF NowPlaying(p) THEN p.position ELSE None,
                          revision |-> next.timing.revision]
     /\ moving' = (animated /\ (Continuous(p) \/ (viewed' /\ MotionActive(motion', now))))
     /\ moved' = IF next.timing = state THEN 0 ELSE moved
     /\ dirty' = FALSE
     /\ UNCHANGED timingVars

(* The timer draws what has changed; while frames are continuous, each tick  *)
(* has one.                                                                *)
Caught == \/ drawn.at = now
          \/ ~moving /\ PresentationAt(state, now) = shown

Elapse == /\ ~dirty /\ Caught /\ Tick
          /\ UNCHANGED <<displayed, generation, shown, viewed, motion, drawn, dirty, moving, moved>>

PlaybackNext == \/ Receive
                \/ \E assets, lyrics, animated \in BOOLEAN :
                     /\ assets => lyrics \* makes no difference
                     /\ state.behavior = "static" => ~animated
                     /\ Render(assets, lyrics, animated)
                \/ Elapse

PlaybackSpec == PlaybackInit /\ [][PlaybackNext]_vars

-----------------------------------------------------------------------------
(* The displayed states are no newer than the incoming one, and every       *)
(* weight that is drawn is between nothing and all (displayed_state.rs:44,  *)
(* lyric_motion.rs:430-478).                                               *)
PlaybackTypeOK ==
  /\ TypeOK
  /\ {displayed.state.revision, displayed.timing.revision} \subseteq 0 .. state.revision
  /\ drawn.composition \in 0 .. Scale
  /\ \A i \in DOMAIN drawn.cues : {drawn.cues[i].emphasis, drawn.cues[i].opacity} \subseteq 0 .. Scale

Total(f) == FoldFunction(+, 0, f)

(* Whatever interrupts whatever, the emphasis of the rows that are drawn    *)
(* adds up to one focal row, and so do the anchors the reel is placed by:   *)
(* the reel is never placed between weights that do not add up             *)
(* (lyric_motion.rs:426-480).                                              *)
WeightsAddUp ==
  drawn.cues # <<>> => /\ Total([i \in DOMAIN drawn.cues |-> drawn.cues[i].emphasis]) = Scale
                       /\ Total(drawn.anchors) = Scale

(* What a frame shows of each row, and where the reel is.                   *)
Look(frame, i) == [emphasis |-> IF i \in DOMAIN frame.cues THEN frame.cues[i].emphasis ELSE 0,
                   opacity |-> IF i \in DOMAIN frame.cues THEN frame.cues[i].opacity ELSE 0,
                   anchor |-> IF i \in DOMAIN frame.anchors THEN frame.anchors[i] ELSE 0]

(* A cue that follows naturally, and a blank, take over from exactly what   *)
(* is on the screen, also in the middle of another handover: rows are cut   *)
(* only by seeks, skips and new timelines (lyric_motion.rs:361-374).        *)
HandoverContinuous ==
  [][(viewed /\ now' = now /\ drawn'.animated
      /\ motion'.cause \in {"natural", "blank_entry", "blank_exit", "blank"})
     => LET before == MotionFrame(motion, now) after == MotionFrame(motion', now)
        IN \A i \in DOMAIN before.cues \cup DOMAIN after.cues : Look(before, i) = Look(after, i)]_vars

(* The share of the composition that lyrics take never jumps from one       *)
(* animated frame to the next, and at a replacement it goes on from the     *)
(* frame last painted (lyric_motion.rs:91-100, 176-186).                    *)
CompositionContinuous ==
  [][(viewed /\ drawn # drawn' /\ drawn.animated /\ drawn'.animated)
     => /\ Distance(drawn.composition, drawn'.composition) * Composition <= Scale * (drawn'.at - drawn.at)
        /\ motion'.discovery = now /\ motion.discovery # now
             => drawn'.composition = drawn.composition]_vars

(* Lyrics are cut as by a seek only when snapshots moved the position by    *)
(* more than the tolerance since the displayed one, or the track has run    *)
(* out: not by refreshed timing, a pause, or the time a destination took    *)
(* to prepare (lyric_motion.rs:213-244, displayed_state.rs:49-53). This is  *)
(* for tracks that keep their reported length and text: one cut shorter     *)
(* than its position is clamped, and what is not displayed plays unseen.    *)
SeekWasReported ==
  [][(viewed /\ motion.cause # "sought" /\ motion'.cause = "sought")
     => \/ moved > Tolerance
        \/ motion.sample.position # None
             /\ motion.sample.position = displayed.timing.timing.duration]_vars

(* Lyrics move from where they are, rows and composition alike, and are cut *)
(* by reported seeks only.                                                 *)
LyricsContinuous == HandoverContinuous /\ CompositionContinuous /\ SeekWasReported

(* While one revision is displayed, its position advances with the clock    *)
(* or rests, however playback starts and stops meanwhile: what is unprepared *)
(* does not disturb what is drawn (presentation.rs:731-752).                *)
DisplayedPositionContinuous ==
  [][(/\ drawn'.revision = drawn.revision
      /\ drawn.position # None /\ drawn'.position # None)
     => drawn'.position - drawn.position \in 0 .. (drawn'.at - drawn.at)]_vars

(* Space is reserved for lyrics that are not there only while they may      *)
(* still be discovered, and a reel that is no longer current only leaves    *)
(* (lyric_motion.rs:188-211, 276-296).                                     *)
ReservedOnlyWhileDiscovering ==
  viewed /\ NowPlaying(shown) =>
    /\ motion.semantic = None /\ motion.comp.target # 0
         => motion.discovery # None /\ drawn.at - motion.discovery < DiscoveryGrace
    /\ motion.displayed # motion.semantic => motion.semantic = None /\ motion.comp.target = 0

(* Every frame of the lyrics is well placed: its weights add up, and it     *)
(* takes the space of lyrics that are there or may yet be.                  *)
LyricsWellPlaced == PlaybackTypeOK /\ WeightsAddUp /\ ReservedOnlyWhileDiscovering
=============================================================================
