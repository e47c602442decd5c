------------------------ MODULE PresentationPipeline ------------------------
(***************************************************************************)
(* How the Renderer gets from the snapshots it receives to what is on its   *)
(* screen (src/renderer/src/native_runtime.rs, displayed_state.rs, and what *)
(* native_view.rs and presentation.rs contribute): the window's main loop   *)
(* asks a worker thread for text and pixels, goes on showing what it has,   *)
(* and installs what was prepared once the outgoing text has departed.      *)
(***************************************************************************)
EXTENDS Naturals, Sequences

CONSTANTS Contents,     \* presentations: [song, name, art, cue]
          Disconnected, \* the one shown without a Bridge
          Untitled,     \* songs without usable metadata
          None,
          Animated,     \* whether animations are enabled
          MaxRevision,  \* bound: revisions of the Bridge
          MaxUpdates    \* bound: snapshots and disconnections

ASSUME PipelineAssumption ==
  /\ Disconnected.song = None /\ Animated \in BOOLEAN
  /\ MaxRevision \in Nat /\ MaxUpdates \in Nat

(* Artworks and lyrics are named after the song they are of.               *)
ASSUME ContentsAssumption ==
  \A p \in Contents \cup {Disconnected} :
    /\ p = [song |-> p.song, name |-> p.name, art |-> p.art, cue |-> p.cue]
    /\ p.art # None => p.art[1] = p.song
    /\ p.cue # None => p.cue[1] = p.song

VARIABLES incoming,   \* PresentationState: [rev, gen, shows]
          displayed,  \* DisplayedState: [state, timing, art]
          shown,      \* the presentation last rendered
          key, token, \* what was last asked of the worker, and its number
          ready,      \* the key of a prepared presentation not yet installed
          installed,  \* the key of the prepared presentation in the view
          generation, \* the generation it was installed for
          departure,  \* of the outgoing text: "none", "going" or "over"
          dirty,      \* whether a frame has to be rendered
          requests, worker, replies, \* the worker thread and its channels
          woken,      \* whether the worker has written a wakeup byte
          updates

mainVars == <<incoming, displayed, shown, key, token, ready, installed, generation, departure>>
vars == <<mainVars, dirty, requests, worker, replies, woken, updates>>

-----------------------------------------------------------------------------
(* presentation.rs                                                         *)

(* A presentation without metadata or artwork fills the field.             *)
Full(p) == p.song = None \/ (p.song \in Untitled /\ p.art = None)

(* The timing continuity rule: the same track in the same zone.            *)
Continues(previous, next) == previous.song # None /\ next.song = previous.song

(* classify_presentation_update                                            *)
TransitionRequired(previous, next) ==
  Full(previous) # Full(next) \/ previous.song # next.song \/ previous.name # next.name

PreparationKey(state) == [gen |-> state.gen, shows |-> state.shows]

-----------------------------------------------------------------------------
(* displayed_state.rs: the song on the screen keeps its timeline while     *)
(* another one is prepared; updates of the same song do not wait for it.   *)

\* mutant: another song does not wait either
SameSongAny(d) == ~Full(incoming.shows) /\ ~Full(d.state.shows)

SameSong(d) == /\ incoming.gen = d.state.gen
               /\ ~Full(incoming.shows) /\ ~Full(d.state.shows)

\* mutant: a restarted Bridge that reaches the same revision goes unnoticed
ChangedRevision(d) == incoming.rev # d.state.rev

Changed(d) == incoming.rev # d.state.rev \/ incoming.gen # d.state.gen

FrameAt(d, assetsReady, timingReady) ==
  LET display == assetsReady \/ SameSong(d)
      state == IF display /\ Changed(d) THEN incoming ELSE d.state
      timing == IF display /\ (assetsReady \/ timingReady) THEN incoming ELSE d.timing
      art == IF assetsReady THEN incoming.shows.art ELSE d.art
      frame == IF display THEN incoming.shows ELSE d.state.shows
      otherTiming == timing.rev # state.rev /\ ~Full(frame) /\ ~Full(timing.shows)
  IN [displayed |-> [state |-> state, timing |-> timing, art |-> art],
      shows |-> [frame EXCEPT
                   !.cue = IF otherTiming THEN timing.shows.cue ELSE @,
                   !.art = IF assetsReady \/ Full(frame) THEN @ ELSE art]]

-----------------------------------------------------------------------------
(* native_runtime.rs: the main loop                                        *)

(* request_preparation, called by every handler after it changed the state *)
Request(next) ==
  IF key = PreparationKey(next) THEN UNCHANGED <<key, token, ready, requests>>
  ELSE /\ token' = token + 1
       /\ key' = PreparationKey(next)
       /\ ready' = None
       /\ requests' = Append(requests, [token |-> token', key |-> key'])

(* What one event from the reader thread makes of the state: a snapshot (a *)
(* new connection may start over at any revision) or a disconnection.      *)
Update(state, rev, p) ==
  [rev |-> rev, shows |-> p,
   gen |-> IF Continues(state.shows, p) THEN state.gen ELSE state.gen + 1]

Disconnect(state) == [state EXCEPT !.shows = Disconnected, !.gen = @ + 1]

AfterEvent(state) ==
  {Disconnect(state)} \cup
  {Update(state, rev, p) : rev \in {r \in 1..MaxRevision : r > state.rev \/ state.shows = Disconnected},
                           p \in Contents}

(* The handler of the reader thread's wakeup takes all events that wait:   *)
(* one or, here at most, two.                                              *)
Observe(next, events) == /\ updates + events <= MaxUpdates /\ updates' = updates + events
                         /\ incoming' = next
                         /\ Request(next)
                         /\ dirty' = TRUE
                         /\ UNCHANGED <<displayed, shown, installed, generation, departure,
                                        worker, replies, woken>>

Snapshots == \E next \in AfterEvent(incoming) :
                \/ Observe(next, 1)
                \/ \E last \in AfterEvent(next) : Observe(last, 2)

(* The worker's wakeup, and the timer that repaints what has changed.      *)
Wake == /\ woken
        /\ woken' = FALSE /\ dirty' = TRUE
        /\ UNCHANGED <<mainVars, requests, worker, replies, updates>>

Moving == Animated /\ departure # "none"

Timer == /\ ~dirty /\ ~Moving /\ incoming.shows # shown
         /\ dirty' = TRUE
         /\ UNCHANGED <<mainVars, requests, worker, replies, woken, updates>>

\* mutant: any reply is adopted
AnswersAny == DOMAIN replies

(* Replies but those to the latest request are thrown away; the last of     *)
(* these is adopted.                                                       *)
Answers == {i \in DOMAIN replies : replies[i].token = token}

Adopted == IF Answers = {} THEN ready
           ELSE replies[CHOOSE i \in Answers : \A j \in Answers : j <= i].key

(* The view's reel has the cues of this timeline.                          *)
LyricsReady(p) == installed = None \/ Full(p) \/ p.cue = None \/ p.cue = installed.shows.cue

(* While a replacement is prepared, its names give way to those rendered.  *)
Retained(p, revealing) ==
  IF revealing \/ Full(p) \/ Full(shown) THEN p
  ELSE [p EXCEPT !.song = shown.song, !.name = shown.name]

(* render_inner: one frame.                                                *)
Render ==
  /\ dirty \/ Moving
  /\ LET prepared == Adopted
         replacement == generation # incoming.gen \/ TransitionRequired(shown, incoming.shows)
         departing == IF ~replacement \/ installed = None \/ departure # "none" THEN departure
                      ELSE IF Animated THEN "going" ELSE "over"
         revealing == /\ prepared # None \/ installed = key
                      /\ replacement /\ installed # None => departing = "over"
         frame == FrameAt(displayed, revealing, LyricsReady(incoming.shows))
         install == revealing /\ prepared # None
     IN /\ displayed' = frame.displayed
        /\ shown' = Retained(frame.shows, revealing)
        /\ ready' = IF install THEN None ELSE prepared
        /\ installed' = IF install THEN prepared ELSE installed
        /\ generation' = IF install THEN frame.displayed.state.gen ELSE generation
        /\ departure' = IF install /\ replacement THEN "none" ELSE departing
  /\ replies' = <<>>
  /\ dirty' = FALSE
  /\ UNCHANGED <<incoming, key, token, requests, worker, woken, updates>>

(* The outgoing text has faded.                                            *)
Departed == /\ departure = "going"
            /\ departure' = "over"
            /\ UNCHANGED <<incoming, displayed, shown, key, token, ready, installed, generation,
                           dirty, requests, worker, replies, woken, updates>>

-----------------------------------------------------------------------------
(* The preparation worker: it takes all that is queued and keeps the last, *)
(* unless a later request has been made.                                   *)
\* mutant: it keeps the first
Earliest(queue) == queue[1]

Latest(queue) == queue[Len(queue)]

Take == /\ worker.at = "idle" /\ requests # <<>>
        /\ requests' = <<>>
        /\ worker' = IF Latest(requests).token # token THEN worker
                     ELSE [at |-> "preparing", work |-> Latest(requests)]
        /\ UNCHANGED <<mainVars, dirty, replies, woken, updates>>

Prepared == /\ worker.at = "preparing"
            /\ IF worker.work.token = token
               THEN replies' = Append(replies, worker.work) /\ worker' = [worker EXCEPT !.at = "notifying"]
               ELSE worker' = [worker EXCEPT !.at = "idle"] /\ UNCHANGED replies
            /\ UNCHANGED <<mainVars, dirty, requests, woken, updates>>

Notify == /\ worker.at = "notifying"
          /\ worker' = [worker EXCEPT !.at = "idle"]
          /\ woken' = TRUE
          /\ UNCHANGED <<mainVars, dirty, requests, replies, updates>>

-----------------------------------------------------------------------------
Start == [rev |-> 0, gen |-> 0, shows |-> Disconnected]

Init == /\ incoming = Start
        /\ displayed = [state |-> Start, timing |-> Start, art |-> None]
        /\ shown = Disconnected
        /\ key = PreparationKey(Start) /\ token = 1
        /\ ready = None /\ installed = None
        /\ generation = 0 /\ departure = "none" /\ dirty = TRUE
        /\ requests = <<[token |-> 1, key |-> PreparationKey(Start)]>>
        /\ worker = [at |-> "idle", work |-> None] /\ replies = <<>> /\ woken = FALSE
        /\ updates = 0

Main == Wake \/ Timer \/ Render \/ Departed
Worker == Take \/ Prepared \/ Notify

Next == Snapshots \/ Main \/ Worker

Spec == Init /\ [][Next]_vars

(* Both threads keep running, and time passes.                             *)
FairSpec == /\ Spec
            /\ WF_vars(Wake) /\ WF_vars(Timer) /\ WF_vars(Render) /\ WF_vars(Departed)
            /\ WF_vars(Worker)

-----------------------------------------------------------------------------
(* Properties                                                              *)
States == [rev : 0..MaxRevision, gen : 0..MaxUpdates, shows : Contents \cup {Disconnected}]
Keys == [gen : 0..MaxUpdates, shows : Contents \cup {Disconnected}]

(* Every variable keeps its shape; a prepared presentation that waits is   *)
(* the one asked for last.                                                 *)
TypeOK ==
  /\ incoming \in States /\ displayed.state \in States /\ displayed.timing \in States
  /\ key = PreparationKey(incoming) /\ token \in 1..(MaxUpdates + 1)
  /\ ready \in {None, key} /\ installed \in Keys \cup {None}
  /\ generation \in 0..MaxUpdates /\ departure \in {"none", "going", "over"}
  /\ dirty \in BOOLEAN /\ woken \in BOOLEAN
  /\ Len(requests) <= MaxUpdates + 1 /\ Len(replies) <= MaxUpdates + 1
  /\ worker.at \in {"idle", "preparing", "notifying"}

(* The text of one song never appears over the pixels, artwork or lyrics   *)
(* of another, whatever overtakes what while it is prepared.               *)
OneSongOnScreen ==
  installed # None /\ ~Full(shown) =>
    /\ installed.shows.song = shown.song
    /\ shown.art # None => shown.art[1] = shown.song
    /\ shown.cue # None => shown.cue[1] = shown.song /\ installed.shows.cue = shown.cue

(* Lyrics are reported visible under the revision they came with, though   *)
(* revisions repeat when the Bridge is restarted.                          *)
LyricsOfTheirRevision ==
  ~Full(shown) => shown.cue = displayed.timing.shows.cue

(* What is on the screen is of one presentation: texts, pixels, artwork,   *)
(* and the lyrics with the revision they are reported under.               *)
OnePresentationOnScreen == OneSongOnScreen /\ LyricsOfTheirRevision

(* Superseded content never makes its first appearance.                    *)
NoObsoleteReveal == [][installed' # installed => installed' = PreparationKey(incoming)]_vars

(* Once nothing new arrives, the latest snapshot is prepared and shown.    *)
Settles == <>[](installed = key /\ shown = incoming.shows /\ displayed.timing = incoming)

(* When the latest presentation is prepared, installed and shown, outgoing *)
(* text has given way to it.                                               *)
LatestTextRevealed ==
  ~dirty /\ installed = key /\ ready = None /\ shown = incoming.shows => departure = "none"
=============================================================================
