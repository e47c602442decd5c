----------------------------- MODULE NativeView -----------------------------
(***************************************************************************)
(* The view of the Renderer (native_view.rs): how artwork, fields, status,   *)
(* timing and progress fade from one presentation to the next, drawn frame   *)
(* by frame by the runtime (native_runtime.rs) while a worker prepares what   *)
(* is to come. Lyrics are the subject of Playback, what waits for a frame of  *)
(* PresentationPipeline.                                                    *)
(*                                                                         *)
(* Frames are faster than ticks: time passes only when every event has been  *)
(* drawn, and while something moves each tick has its frame. A presentation   *)
(* is a record: its fraction is the share of its position in the length of   *)
(* the track. What is prepared is the presentation it was prepared for.     *)
(***************************************************************************)
EXTENDS ProgressMotion, SelectiveForeground, SequencesExt

CONSTANTS Contents,     \* what may be presented
          Disconnected, \* what is presented without a Bridge
          MaxTime,      \* bound: ticks
          MaxUpdates    \* bound: snapshots

ASSUME ViewAssumption == {MaxTime, MaxUpdates} \subseteq Nat /\ \A p \in Contents : p.length \in Nat \ {0}

VARIABLES incoming,  \* PresentationState: the content, since when, its revision and generation
          displayed, \* DisplayedState, likewise
          shown,     \* the presentation last drawn
          requested, \* what the worker is to prepare, with its generation
          preparing, \* whether it still is
          ready,     \* [of, at]: what it has prepared, and when
          installed, \* the key of what the view has been given
          view,      \* NativeView, None before the first
          generation, now, dirty, moving,
          drawn,     \* the frame last drawn
          received   \* history: what has been presented so far

vars == <<incoming, displayed, shown, requested, preparing, ready, installed, view, generation, now,
          dirty, moving, drawn, received>>

-----------------------------------------------------------------------------
(* Graphics: artwork and background. A fade that interrupts another keeps    *)
(* it, so that a tree of fades is drawn: here its leaves, from the oldest    *)
(* to the current one, each with the fades it is part of.                   *)

Picture(p) == [kind |-> p.kind, art |-> IF NowPlaying(p) THEN p.art ELSE None]

Single(p) == <<[picture |-> Picture(p), fades |-> <<>>]>>

Faint(graphics, at, incoming_) ==
  [i \in DOMAIN graphics |->
     [graphics[i] EXCEPT !.fades = <<[at |-> at, incoming |-> incoming_]>> \o @]]

Blend(previous, next, at) == Faint(previous, at, FALSE) \o Faint(next, at, TRUE)

Current(graphics) == graphics[Len(graphics)].picture

SameArtwork(a, b) == a = b

(* What a finished fade has covered is dropped when it is drawn.            *)
Over(fade, t) == t - fade.at >= Phase

Uncovered(graphics, t) ==
  LET kept == SelectSeq(graphics, LAMBDA leaf : \A i \in DOMAIN leaf.fades :
                                      Over(leaf.fades[i], t) => leaf.fades[i].incoming)
  IN [i \in DOMAIN kept |->
        [kept[i] EXCEPT !.fades = SelectSeq(@, LAMBDA fade : ~Over(fade, t))]]

GraphicsActive(graphics) == \E i \in DOMAIN graphics : graphics[i].fades # <<>>

(* append: a leaf is drawn with the product of its fades.                   *)
LeafWeight(leaf, weight, t) ==
  FoldLeft(LAMBDA w, fade : LET level == Level(t - fade.at, Phase)
                            IN (w * (IF fade.incoming THEN level ELSE Scale - level)) \div Scale,
           weight, leaf.fades)

Weights(graphics, weight, t) ==
  SelectSeq([i \in DOMAIN graphics |->
               [picture |-> graphics[i].picture, weight |-> LeafWeight(graphics[i], weight, t)]],
            LAMBDA leaf : leaf.weight > 0)

(* How much of each picture is drawn.                                      *)
Total(leaves, picture) ==
  FoldLeft(LAMBDA sum, leaf : sum + (IF leaf.picture = picture THEN leaf.weight ELSE 0), 0, leaves)

-----------------------------------------------------------------------------
TimingOf(p) == IF NowPlaying(p) /\ p.fraction # None THEN "progress"
               ELSE IF NowPlaying(p) /\ p.activity THEN "activity" ELSE "quiet"

(* While the grace of its timing lasts, the rail stays.                     *)
RailStays(p, hadProgress) == NowPlaying(p) /\ p.fraction = None /\ p.grace /\ hadProgress

NewView(p, revision) ==
  [prepared |-> p, latest |-> p, revision |-> revision, fields |-> NewForeground(p),
   graphics |-> Single(p), status |-> NewFade(p.status), timing |-> NewFade(TimingOf(p)),
   hadProgress |-> FALSE, progress |-> StillProgress, persistent |-> FALSE,
   departure |-> None, reveal |-> None, opacity |-> Scale]

(* begin_departure                                                         *)
Departing(v, destination, t, animated) ==
  [v EXCEPT
     !.fields = IF NowPlaying(v.latest) THEN RequestFields(@, destination, t, animated) ELSE @,
     !.departure = IF @ # None THEN [@ EXCEPT !.nowPlaying = NowPlaying(destination)]
                   ELSE [at |-> t, opacity |-> IF animated THEN v.opacity ELSE 0,
                         nowPlaying |-> NowPlaying(destination)]]

(* reveal_at and departure_complete                                        *)
RevealAt(v, preparedAt) ==
  Max({preparedAt} \cup Deadlines(v.fields)
      \cup (IF v.departure = None THEN {} ELSE {v.departure.at + Phase}))

DepartureComplete(v, t, animated) == ~animated \/ t >= RevealAt(v, 0)

(* The graphics on the screen, a reveal of them included.                   *)
Onscreen(v) == IF v.reveal = None THEN v.graphics ELSE Blend(v.reveal.previous, v.graphics, v.reveal.at)

(* What a view takes over from that of another song.                        *)
Selectively(view0, v, p, revision, t, animated) ==
  [view0 EXCEPT
     !.progress = Observed(v.progress, p, revision, t, animated, TRUE),
     !.persistent = TRUE,
     !.hadProgress = RailStays(p, v.hadProgress) /\ v.timing.displayed = "progress",
     !.timing = IF RailStays(p, v.hadProgress) /\ v.timing.displayed = "progress" THEN NewFade("progress") ELSE @,
     !.fields = RevealPrepared(Reflowed(RequestFields(v.fields, p, t, animated)), p, t)]

(* replace                                                                 *)
Replaced(v, prepared, p, revision, t, animated) ==
  LET selective == NowPlaying(v.latest) /\ NowPlaying(p)
      same  == SameArtwork(Current(v.graphics), Picture(prepared))
      fresh == NewView(prepared, revision)
      next  == IF selective THEN Selectively(fresh, v, p, revision, t, animated)
               ELSE IF animated /\ NowPlaying(p) THEN [fresh EXCEPT !.fields = RevealAll(@, t)] ELSE fresh
  IN IF ~animated THEN [next EXCEPT !.latest = p]
     ELSE [next EXCEPT !.latest = p, !.opacity = 0,
             !.graphics = IF same THEN Onscreen(v) ELSE @,
             !.reveal = [previous |-> Onscreen(v), at |-> t, fullField |-> ~NowPlaying(p), sameArt |-> same]]

\* mutant: new artwork of a song is cut to
CutTo(v, prepared, t, animated) == [v EXCEPT !.prepared = prepared, !.graphics = Single(prepared)]

(* install: what was prepared for the same song.                           *)
Installed(v, prepared, t, animated) ==
  LET same == SameArtwork(Current(v.graphics), Picture(prepared))
      changed == \E f \in AllFields \ {"status"} : FieldValue(f, v.prepared) # FieldValue(f, prepared)
  IN [v EXCEPT
        !.prepared = prepared,
        !.graphics = IF same THEN @
                     ELSE IF animated THEN Blend(@, Single(prepared), t) ELSE Single(prepared),
        !.fields = IF changed THEN Reflowed(@) ELSE @]

-----------------------------------------------------------------------------
(* render, in its order: what is presented is observed, and then drawn.     *)

Unanimated(v) ==
  [v EXCEPT !.graphics = <<[picture |-> Current(@), fades |-> <<>>]>>, !.reveal = None,
            !.departure = IF @ = None THEN None ELSE [@ EXCEPT !.opacity = 0]]

Observing(v, t, animated) ==
  LET p == v.latest
      stays == RailStays(p, v.hadProgress)
      target == IF stays THEN "progress" ELSE TimingOf(p)
  IN [v EXCEPT
        !.status = Retargeted(@, p.status, t, animated),
        !.fields = IF v.departure = None THEN RequestFields(@, p, t, animated) ELSE @,
        !.timing = Faded(@, target, t, animated /\ target # "progress"),
        !.progress = IF NowPlaying(p) THEN Observed(@, p, v.revision, t, animated, FALSE) ELSE @,
        !.hadProgress = @ \/ (NowPlaying(p) /\ p.fraction # None)]

\* mutant: the same artwork is faded in again
FadedAgain(v, t) ==
  IF v.reveal = None THEN Weights(Uncovered(v.graphics, t), Scale, t)
  ELSE LET level == Level(t - v.reveal.at, Phase)
       IN (IF v.reveal.sameArt THEN <<>> ELSE Weights(Uncovered(v.reveal.previous, t), Scale - level, t))
          \o Weights(Uncovered(v.graphics, t), level, t)

(* The artwork a reveal draws; one of the same artwork draws no other.      *)
Artwork(v, t) ==
  IF v.reveal = None THEN Weights(Uncovered(v.graphics, t), Scale, t)
  ELSE LET level == Level(t - v.reveal.at, Phase)
       IN IF v.reveal.sameArt THEN Weights(Uncovered(v.graphics, t), Scale, t)
          ELSE Weights(Uncovered(v.reveal.previous, t), Scale - level, t)
               \o Weights(Uncovered(v.graphics, t), level, t)

(* The opacity of what has no fade of its own.                              *)
TextOpacity(v, t) ==
  IF v.departure # None THEN Mix(v.departure.opacity, 0, Level(t - v.departure.at, Phase))
  ELSE IF v.reveal = None THEN Scale
  ELSE Level(t - v.reveal.at - (IF v.reveal.fullField THEN Phase ELSE 0), Phase)

\* mutant: a full field, which waits for the background, is given the time of the others
OnePhase(v, t) == v.reveal # None /\ t - v.reveal.at >= Phase

RevealOver(v, t) ==
  v.reveal # None /\ t - v.reveal.at >= (IF v.reveal.fullField THEN 2 * Phase ELSE Phase)

(* The text that is prepared, and the status of the latest presentation.    *)
Sprites(v) ==
  [f \in AllFields |-> IF f = "status" THEN v.latest.status ELSE FieldValue(f, v.prepared)]

DrawnView(v, t, animated) ==
  [v EXCEPT !.graphics = Uncovered(@, t),
            !.reveal = IF RevealOver(v, t) THEN None
                       ELSE IF @ = None THEN None ELSE [@ EXCEPT !.previous = Uncovered(@, t)],
            !.opacity = TextOpacity(v, t),
            !.fields = IF NowPlaying(v.latest) THEN ApplyFields(@, Sprites(v), v.latest, t, animated) ELSE @]

(* The frame: v as observed, w as drawn.                                   *)
Frame(v, w, t, animated) ==
  LET rail == IF v.departure # None THEN v.departure.nowPlaying ELSE v.persistent
      art  == Artwork(v, t)
      Faded_(weight) == (weight * v.timing.opacity) \div Scale
  IN [at |-> t, animated |-> animated, full |-> ~NowPlaying(v.latest),
      art |-> [picture \in {art[i].picture : i \in DOMAIN art} |-> Total(art, picture)],
      text |-> w.opacity,
      fields |-> [f \in AllFields |-> [value |-> w.fields[f].visible, opacity |-> w.fields[f].opacity]],
      status |-> [value |-> v.status.displayed, opacity |-> (w.opacity * v.status.opacity) \div Scale],
      timing |-> [value |-> v.timing.displayed,
                  opacity |-> Faded_(IF v.timing.displayed = "progress" /\ rail THEN Scale ELSE w.opacity)],
      fill |-> IF v.timing.displayed = "progress" /\ v.hadProgress THEN Fraction(v.progress, t) ELSE None]

ViewActive(v, t) ==
  \/ v.departure # None \/ v.reveal # None \/ GraphicsActive(v.graphics)
  \/ ForegroundActive(v.fields) \/ FadeActive(v.status) \/ FadeActive(v.timing)
  \/ Travelling(v.progress, t)

-----------------------------------------------------------------------------
(* The runtime: native_runtime.rs, displayed_state.rs                       *)

(* What a state presents at a time: the position advances.                  *)
PresentedAt(state, t) ==
  LET p == state.content
      elapsed == IF p.status = "playing" THEN t - state.at ELSE 0
      position == IF p.position = None THEN None ELSE Min({p.position + elapsed, p.length})
  IN [kind |-> p.kind, fields |-> p.fields, zone |-> p.zone, art |-> p.art, heading |-> p.heading,
      status |-> p.status, grace |-> p.grace, activity |-> p.activity, position |-> position,
      fraction |-> IF position = None \/ p.grace THEN None ELSE (position * Scale) \div p.length]

(* preparation_key                                                         *)
Key(state) ==
  LET p == state.content
  IN <<state.generation, p.kind, p.fields, p.zone, p.art, p.heading, p.activity>>

NoFrame == [at |-> 0, animated |-> FALSE, full |-> TRUE]

Init ==
  /\ incoming = [content |-> Disconnected, at |-> 0, revision |-> 0, generation |-> 0]
  /\ displayed = incoming /\ shown = PresentedAt(incoming, 0)
  /\ requested = incoming /\ preparing = TRUE /\ ready = None /\ installed = None
  /\ view = None /\ generation = 0 /\ now = 0 /\ dirty = TRUE /\ moving = FALSE
  /\ drawn = NoFrame /\ received = {shown}

(* A snapshot: of the same song, or a new generation.                       *)
Receive(p) ==
  /\ incoming.revision < MaxUpdates /\ p # incoming.content
  /\ incoming' = [content |-> p, at |-> now, revision |-> incoming.revision + 1,
                  generation |-> incoming.generation
                    + (IF p.song # None /\ p.song = incoming.content.song THEN 0 ELSE 1)]
  /\ received' = received \cup {PresentedAt(incoming', now)}
  /\ IF Key(incoming') = Key(requested) THEN UNCHANGED <<requested, preparing, ready>>
     ELSE requested' = incoming' /\ preparing' = TRUE /\ ready' = None
  /\ dirty' = TRUE
  /\ UNCHANGED <<displayed, shown, installed, view, generation, now, moving, drawn>>

(* The worker has prepared what was asked for last.                         *)
Prepare ==
  /\ preparing /\ preparing' = FALSE
  /\ ready' = [of |-> PresentedAt(requested, requested.at), at |-> now]
  /\ dirty' = TRUE
  /\ UNCHANGED <<incoming, displayed, shown, requested, installed, view, generation, now, moving, drawn,
                 received>>

Continuous(p) == \/ p.status = "loading"
                 \/ NowPlaying(p) /\ p.activity
                 \/ NowPlaying(p) /\ p.status = "playing" /\ p.fraction # None /\ p.fraction < Scale

(* The view that draws a frame: replaced, given what was prepared, or kept.  *)
GivenView(v, replacement, revealing, p, animated) ==
  IF ~revealing \/ ready = None THEN v
  ELSE IF view = None THEN NewView(ready.of, incoming.revision)
  ELSE IF replacement THEN Replaced(v, ready.of, p, incoming.revision, RevealAt(v, ready.at), animated)
  ELSE Installed(v, ready.of, ready.at, animated)

(* render_inner: one frame.                                                *)
Render(animated) ==
  LET destination == PresentedAt(incoming, now)
      replacement == generation # incoming.generation \/ ~InPlace(shown, destination)
      v0 == IF replacement /\ view # None THEN Departing(view, destination, now, animated) ELSE view
      revealing == /\ ready # None \/ installed = Key(requested)
                   /\ replacement /\ view # None => DepartureComplete(v0, now, animated)
      displays == revealing \/ (/\ incoming.generation = displayed.generation
                                /\ NowPlaying(incoming.content) /\ NowPlaying(displayed.content))
      selected == IF displays THEN incoming ELSE displayed
      frame == PresentedAt(selected, now)
      p == IF ~revealing /\ NowPlaying(frame) /\ NowPlaying(shown)
           THEN [frame EXCEPT !.fields = shown.fields, !.zone = shown.zone] ELSE frame
      v1 == GivenView(v0, replacement, revealing, p, animated)
      v2 == [v1 EXCEPT !.latest = p, !.revision = selected.revision]
      v3 == Observing(IF animated THEN v2 ELSE Unanimated(v2), now, animated)
      v4 == DrawnView(v3, now, animated)
  IN /\ displayed' = selected
     /\ shown' = p
     /\ IF revealing /\ ready # None
        THEN installed' = Key(requested) /\ ready' = None /\ generation' = incoming.generation
        ELSE UNCHANGED <<installed, ready, generation>>
     /\ IF v1 = None THEN view' = None /\ drawn' = [drawn EXCEPT !.at = now]
        ELSE view' = v4 /\ drawn' = Frame(v3, v4, now, animated)
     /\ moving' = IF v1 = None THEN moving ELSE animated /\ (Continuous(p) \/ ViewActive(v4, now))
     /\ dirty' = FALSE
     /\ UNCHANGED <<incoming, requested, preparing, now, received>>

(* The timer draws what has changed; while frames are continuous, each tick  *)
(* has one.                                                                *)
Tick ==
  /\ ~dirty /\ now < MaxTime
  /\ drawn.at = now \/ (~moving /\ PresentedAt(incoming, now) = shown)
  /\ now' = now + 1
  /\ UNCHANGED <<incoming, displayed, shown, requested, preparing, ready, installed, view, generation,
                 dirty, moving, drawn, received>>

Next == \/ \E p \in Contents : Receive(p)
        \/ Prepare
        \/ \E animated \in BOOLEAN : (dirty \/ drawn.at # now) /\ Render(animated)
        \/ Tick

Spec == Init /\ [][Next]_vars

-----------------------------------------------------------------------------
DrawnField == [value : {FieldValue(f, p) : f \in AllFields, p \in received} \cup {None},
               opacity : 0 .. Scale]

(* The view is never of a newer generation than the state, and what a frame  *)
(* draws of a field is a value that was presented (native_view.rs:180-196).  *)
TypeOK ==
  /\ generation \in 0 .. incoming.generation /\ displayed.revision \in 0 .. incoming.revision
  /\ ready # None => ready.at \in 0 .. now
  /\ view # None => \A f \in AllFields : drawn.fields[f] \in DrawnField

(* Whatever fades interrupt each other, the pictures that are drawn add up   *)
(* to one: no frame is darker or brighter than a picture (native_view.rs:    *)
(* 298-327, 341-360).                                                      *)
ArtworkAddsUp == view # None => MapThenSumSet(LAMBDA picture : drawn.art[picture], DOMAIN drawn.art) = Scale

(* When no more frames are asked for, nothing is left on its way: the latest *)
(* presentation is drawn, and drawn in full (native_view.rs:540-549).       *)
QuietIsFinal ==
  (view # None /\ ~dirty /\ ~moving /\ ~preparing /\ PresentedAt(incoming, now) = shown) =>
    /\ drawn.art = (Picture(view.prepared) :> Scale)
    /\ drawn.text = Scale
    /\ drawn.full => drawn.status = [value |-> shown.status, opacity |-> Scale]
    /\ ~drawn.full => \A f \in AllFields : drawn.fields[f] = [value |-> FieldValue(f, shown), opacity |-> Scale]
    /\ drawn.timing.opacity = Scale
    /\ drawn.fill # None => drawn.fill = (IF shown.fraction = None THEN 0 ELSE shown.fraction)

(* What is drawn is whole: pictures that add up at all times, and the       *)
(* latest presentation in full once nothing moves.                          *)
DrawnInFull == TypeOK /\ ArtworkAddsUp /\ QuietIsFinal

Framed == view # None /\ view' # None /\ drawn' # drawn /\ drawn.animated /\ drawn'.animated

(* From one animated frame to the next within an instant, no picture gains   *)
(* or loses: replacements and late artwork begin with what is on the screen  *)
(* (native_view.rs:298-330, 344-361).                                      *)
ArtworkContinuous ==
  [][Framed /\ drawn'.at = drawn.at =>
       \A picture \in DOMAIN drawn.art \cup DOMAIN drawn'.art :
         (IF picture \in DOMAIN drawn.art THEN drawn.art[picture] ELSE 0)
           = (IF picture \in DOMAIN drawn'.art THEN drawn'.art[picture] ELSE 0)]_vars

(* The text of a field changes only while it is invisible, and its opacity   *)
(* goes by at most a half in each tick (selective_foreground.rs:92-113,     *)
(* 165-199).                                                               *)
FieldsContinuous ==
  [][(Framed /\ ~drawn.full /\ ~drawn'.full) =>
       \A f \in AllFields :
         /\ drawn'.fields[f].value # drawn.fields[f].value
              => \/ drawn'.fields[f].opacity = 0 \/ drawn.fields[f].value = None
                 \/ drawn.fields[f].value # view.fields[f].displayed \* replaced without animations
         /\ Distance(drawn.fields[f].opacity, drawn'.fields[f].opacity) * Phase <= Scale * (drawn'.at - drawn.at)]_vars

(* No obsolete destination appears: a field counts as replaced only when it  *)
(* is drawn so, and what fades in is what was last asked for, unless a frame *)
(* without animations, which counts it as replaced at once, has left an old  *)
(* text behind (selective_foreground.rs:90-140, 162-164).                   *)
RevealsWhatIsAskedFor ==
  [][(Framed /\ ~drawn.full /\ ~drawn'.full) =>
       \A f \in AllFields :
         /\ view'.fields[f].displayed # view.fields[f].displayed
              => drawn'.fields[f].value \in {None, view'.fields[f].displayed}
         /\ drawn'.fields[f].opacity > drawn.fields[f].opacity
              => \/ drawn'.fields[f].value \in {None, view'.fields[f].target}
                 \/ drawn.fields[f].value \notin {None, view.fields[f].displayed}]_vars

(* The most that so much time is of the fill.                               *)
ShareOf(time) == (time * Scale) \div Min({p.length : p \in Contents})

(* The fill of the progress rail never jumps while it is on the screen,      *)
(* whether the position is sought, the duration corrected or the song       *)
(* replaced: it travels, at most as fast as the whole way takes Phase. What  *)
(* a frame may add to that is a jump of the position within the tolerance,   *)
(* which is not travelled (progress_motion.rs:75-113).                      *)
ProgressContinuous ==
  [][(Framed /\ ~drawn.full /\ ~drawn'.full /\ drawn.fill # None /\ drawn'.fill # None
      /\ drawn.timing.opacity > 0 /\ drawn'.timing.opacity > 0)
     => Distance(drawn.fill, drawn'.fill)
          <= (Scale \div Phase + ShareOf(1)) * (drawn'.at - drawn.at) + ShareOf(JumpTolerance)]_vars

(* No animated frame jumps from the one before it, in pictures, texts or    *)
(* progress.                                                               *)
FramesContinuous == ArtworkContinuous /\ FieldsContinuous /\ ProgressContinuous

=============================================================================
