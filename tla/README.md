# RoonScape: a verification project

RoonScape shows what one Roon output plays on a dedicated display. A launcher
(`roonscape-command.ts`) owns a private runtime directory and starts two
processes: the **Bridge** (TypeScript, `src/bridge`), which talks to the Roon
Server and publishes *Presentation Snapshots* on a Unix socket, and the
**Renderer** (Rust and Qt, `src/renderer`), which reads the snapshots and draws
them. This directory holds TLA+ models of the parts where order, failure and
time make the code hard to test, the TLC configurations that check them on small
instances, and TLAPS proofs of properties for all sizes.

Paths below are relative to the repository.

## 1. Inventory

| Component | State | Operations | Talks to | What is hard |
|---|---|---|---|---|
| Bridge state machine, `src/bridge/src/roon-bridge.ts` | current snapshot and revision, active core, held (pending) snapshot, artwork identity, request generation, retry timer, active lyrics | pairing, zone events, image answers, lyric timelines, visibility reports, stop | Roon SDK callbacks, artwork store, Lyric Feed, snapshot socket | late answers, retries, a snapshot held for its artwork while everything else goes on |
| Artwork store, `artwork-file-store.ts` | current and staged path, a promise chain, the directory | stage, commit, discard, clear | file system; called by the Bridge | operations queue in call order but callers resume later; removals fail half way |
| Lyric Feed, `lyric-feed.ts`, `private-lyric-connection.ts` | tracked Now Playing, accepted timeline, retained events, correlated keys, a second Roon connection | connect, lose, event, track, markVisible, stop | Roon, Bridge | two connections whose zone updates are not ordered with each other |
| Snapshot socket, `fixture-publisher.ts`, `src/renderer/src/ipc.rs` | last message, per-connection blocked/pending, reader thread, one-place channel, wakeup pipe | publish, accept, drain, connect, read, send, wake, drain the channel | Bridge and Renderer | backpressure, reconnects, lost wakeups, restarted Bridge |
| Runtime session, `runtime-session.ts` | `owner/`, candidates, `.recovering/successor/...`, artifacts | acquire, recover, clean up | file system, other launches | races between processes, crashes between any two calls |
| Session supervisor, `roonscape-command.ts` | two children, termination signal | launch, race, stop, clean up | runtime session, processes | partial failure while stopping |
| Diagnostic capture, `diagnostic-capture.ts` and its worker | sequence, outstanding bytes and records, gap; files of the worker | record, acknowledge, close | worker thread, files | bounded queue, shutdown deadline |
| Renderer runtime, `native_runtime.rs`, `displayed_state.rs`, `transition.rs`, `frame_pacing.rs` | presentation state, preparation token, prepared replies, displayed state, transition | render, drain snapshots, request and receive preparations | reader thread, preparation worker, Qt | replies that are older than what is shown |
| Presentation state, `presentation.rs` | snapshot, generation, retained timing and its grace, time without playback | update, disconnect, resolve at a time, synchronize playback | Renderer runtime | two clocks; metadata and timing that arrive in pieces; graces restarted by snapshots |
| Lyric and progress motion, `lyric_motion.rs`, `progress_motion.rs` | cue motion, composition motion, discovery, last sample of the position | update, observe playback, frame at a time | native view | motions that interrupt each other; what is a seek |
| Native view, `native_view.rs`, `selective_foreground.rs` | graphics stack, fields, status, timing, reveal and departure | begin departure, replace, install, observe, draw | runtime, motions, prepared presentations | fades with clocks of their own, interrupted by each other |
| Preparation worker, `prepared_presentation.rs`, `metadata.rs`, `text_preparation.rs` | last preparations, gradients, artwork that came early | prepare, prepare arriving artwork, reset | runtime, drawing libraries | caches whose key may say too little; fitting on rounded numbers |
| Layout and scene, `layout.rs`, `scene.rs` | - | layout of a viewport; places of everything at an amount of lyrics | worker, native view | integer geometry at extreme sizes |
| Setup and discovery | a dialogue, a UDP query loop, a discovery stream | choose output, save | Roon, terminal | cancellation and timeouts |
| Configuration and authorization files | JSON files | load, save by rename | file system | - |
| Fixture mode, drawing, evidence tools | - | - | - | development tools and pure computation |

What makes them correct, in a sentence each: the Bridge never shows artwork or
lyrics of another track, never loses the file it shows, never holds a snapshot
for ever, and converges to the observed zone; the socket delivers the latest
snapshot and never goes back; one session at a time owns the runtime directory,
and a crash never blocks the next one for good. On the screen, one presentation
is shown at a time, nothing of an obsolete one appears, whatever interrupts a
movement goes on from what is drawn, timing is the track's own and is given up
when its grace is over, reused preparations cannot be told from new ones, and
every text stays whole and in its place.

## 2. Modules

| Module | Models | Code |
|---|---|---|
| `ArtworkFileStore` | the promise chain and the directory | `artwork-file-store.ts` |
| `RoonBridge` | Bridge and coordinator, composed with `ArtworkFileStore` (INSTANCE) | `roon-bridge.ts`, the parts of `lyric-feed.ts` and `snapshot.ts` it relies on |
| `MCRoonBridge` | the zone states and timelines of the runs | - |
| `RuntimeSession`, `MCRuntimeSession` | ownership of the runtime directory | `runtime-session.ts` |
| `RoonScapeCommand` | composes `RuntimeSession` (EXTENDS) with the command's two children | `roonscape-command.ts`, `child-process.ts` |
| `LatestSnapshot` | what the socket promises (abstract) | - |
| `SnapshotChannel` | the socket, reader thread, channel and main loop | `fixture-publisher.ts`, `ipc.rs`, `native_runtime.rs` |
| `LyricFeed`, `MCLyricFeed` | the feed, its private connection and the Bridge's zone reports to it | `lyric-feed.ts`, `private-lyric-connection.ts`, the calls of `roon-bridge.ts` |
| `PresentationPipeline`, `MCPresentationPipeline` | the Renderer's main loop, its preparation worker and what is displayed meanwhile | `native_runtime.rs`, `displayed_state.rs`, parts of `native_view.rs`, `presentation.rs`, `prepared_presentation.rs` |
| `PresentationValues` | what a change of presentation does without a transition | `presentation.rs` |
| `PresentationTiming`, `MCPresentationTiming` | the presentation state: timing, graces, inactivity | `presentation.rs` |
| `Easing`, `LyricMotion` | curves; the motion of lyrics | `lyric_motion.rs` |
| `Playback`, `MCPlayback` | composes `PresentationTiming` and `LyricMotion` with the displayed state | `displayed_state.rs`, the calls of `native_runtime.rs` and `native_view.rs` |
| `ReplacementFade`, `ProgressMotion`, `SelectiveForeground` | a value that fades out and in; the fill of the rail; the text fields | `transition.rs`, `progress_motion.rs`, `selective_foreground.rs` |
| `NativeView`, `MCNativeView` | composes these with the pictures, the reveal and the runtime's frames | `native_view.rs`, parts of `native_runtime.rs` |
| `ViewportLayout` | geometry of a viewport | `layout.rs` |
| `MetadataFitting` | sizes, line breaks, ellipsis | `metadata.rs` |
| `PreparedContent` | texts in their places, word paths, reel, tiles | `prepared_presentation.rs`, `text_preparation.rs` |
| `Scene` | where prepared content is drawn | `scene.rs` |
| `PresentationPreparation`, `MCPresentationPreparation` | the worker with its caches, composed with the four above | `prepared_presentation.rs`, `resolution.rs`, `native_runtime.rs` |
| `SnapshotChannel_proofs` | proofs: type correctness, wakeups, delivery, the refinement of `LatestSnapshot` | - |
| `LyricFeed_proofs` | proofs: type correctness, `LyricsAreCurrent` | - |
| `RoonScapeCommand_proofs` | proofs of `RuntimeSession` (type correctness, `OneSession`, live owners and artifacts kept) and of `RoonScapeCommand` (type correctness, `StoppedBeforeCleanup`, the refinement of `RuntimeSession`) | - |
| `RoonBridge_proofs` | proofs: type correctness, `AttemptsAreCurrent`, what is shown and which files are kept | - |
| `PresentationPipeline_proofs` | proofs: type correctness, `OnePresentationOnScreen`, `NoObsoleteReveal` | - |
| `Playback_proofs` | proofs of `PresentationTiming` (`OfOneTrack`, `GracesRunOut`, `MovesByTheClock`) and of `Playback` (`DisplayedPositionContinuous`, the space of the lyrics, the refinement of `PresentationTiming`) | - |
| `PresentationPreparation_proofs` | proofs: the caches are faithful, `AsPreparedAnew`, `UnchangedStays` | - |
| `NativeView_proofs` | proofs: type correctness, texts and view agree, `RevealsWhatIsAskedFor` | - |

### RoonBridge

JavaScript callbacks run to the end of their synchronous code, so each callback
is one action. `await`s split a function: `#publishArtwork` is `ImageArrived`
(calls `stage`), `Staged` (resumes, publishes, calls `commit`) and `Committed`.
A store operation takes its effect in `StorePerform` and settles in
`StoreSettled`; calls made in between only queue. The handlers call each other,
so the Bridge's variables are kept in records (`pub`, `art`) and a handler is a
function from record to record: `Present`, `PublishState`, `ChangeAvailability`,
`PublishLyrics`. A generation identifies a request; a file is identified by the
generation and the key it was requested for, which is finer than its UUID name.

A snapshot is reduced to what the properties tell apart: availability, playback,
zone, track, output name, artwork file, lyrics. Timing is left out: a snapshot
that differs in its seek position only is a stutter here. `Valid` stands for the
content limits of `snapshot.ts`; `size = "tooLarge"` for a timeline that would
push the message over 64 KiB. Roon's image service is assumed present. The
Lyric Feed is reduced to the identity it tracks and the timeline it accepted; it
may accept any timeline for the tracked track at any time, or when it is
reconciled, which covers retained events.

### RuntimeSession

A launch is a process running synchronous code; one action is one file-system
call. `rmSync` lists a directory once, removes each entry, then the directory,
and throws if something was added meanwhile; the records of a recovery chain go
in any order (that of `readdir`), its directories from the deepest up. The scan
for stale candidates is one step. A launch is named by its token; liveness of a recorded owner is
whether its process is still alive in the model (process identity by pid, start
time and boot id is taken as unambiguous). Launches are interchangeable
(symmetry in `session_cleanup_race`; none where liveness is checked).

In two places what the code reads and what it then does of it are several calls
apart, and nothing keeps other launches out in between; ownership can be lost
there, and only there. They are definitions of the module, and the constant
`Overlaps` says which of them launches may meet in:

- `CleanupWindow` (`"cleanup"`, `runtime-session.ts:80`): a launch is alive while a
  session removes its directory.
- `WalkWindow` (`"walk"`, `runtime-session.ts:226`): a launch publishes a recovery
  directory that another has just read and is about to publish below. What it
  read was a dead recoverer; a whole recovery ended in between.

Run `session_cleanup_race` opens the first, `RuntimeSession_recovery.cfg` the
second (section 5); run `command` opens neither, and the theorems are about every
behaviour in which no launch meets another there.

### RoonScapeCommand

A launch that owns the directory runs `runConfiguredSession`: `Start` launches
the Bridge and the Renderer, `Exited`, `Failed` and `Terminated` are what can end
the session, `GraceOver` and `KillOver` the timers of `stopChildOnce`, `Settle`
the promises that end the first round of stopping, `EndSession` the second and
the cleanup. `stop` is what `stopChild` waits for, so that a child stopped twice
is signalled once. `CommandNext` takes its other steps from `RuntimeSession`;
`Cleanup` and `Run` happen only as `EndSession` and `Serve`. A child may ignore
SIGTERM, and even SIGKILL. Children of a launch that is killed are taken to go
with it; left out are options, setup, exit codes and messages.

### SnapshotChannel

`wire` are the snapshots written and not yet read, `blocked`/`pending` the
publisher's state per connection, `slot` the `sync_channel(1)`, `wakeup` the
nonblocking socket pair watched by Qt's loop. The worker's `notify` is two steps,
`Send` and `Wake`; the main loop's `snapshots()` is `ClearWakeup`, `Receive`
repeated, `Drained`. `write()` may report backpressure at any fill and must at
`WireRoom`. A Bridge stops or crashes at any time, losing what had not left the
process; a later one starts over at revision 0, told apart by `epoch`, which the
code does not have. The `lyricsVisible` reports, malformed messages, and a
second Renderer connection are left out.

### LyricFeed

One Roon Server reports its zones on two connections that are not ordered with
each other; only the private one carries lyrics. `mainWire` and `privateWire`
are what is on its way on each. Every report of the ordinary connection ends in
`track()` (`Reconcile`), also one that says nothing of the tracked zone
(`SeekReported`). A handler is a function on `feed`, the variables of
`startLyricFeed`: `OnEvent`, `Track`, `LoseConnection`. A song stands for its Now
Playing identity and its timeline; `Key` says which songs share a lyric key. The
private connection always passes the identity it observed (a string or null), so
the branch of `onEvent` without one, which only tests reach, is left out with
`knownTrackIdentitiesByZone`. Left out too: the limit of 64 pending zones, and
`markVisible`, which `RoonBridge` has. The server is assumed to send a song's
lyrics once, between its reports of that song and of the next.

### PresentationPipeline

Takes up where `SnapshotChannel` ends: `Snapshots` is the handler that drains
the events of the reader thread, with one or two of them. Every handler that
changes the state also requests its preparation, so the last request is always
for the incoming state. The worker is three steps: `Take` (keep the last of the
queue, unless superseded), `Prepared` (check again and reply) and `Notify` (the
wakeup byte). `Render` is `render_inner` whole: replies, departure, displayed
state, installation. Two threads share the request number, which the worker
reads from an atomic.

A presentation is a song, the names shown with it, its artwork and a *cue*, which
stands for a lyric timeline and the place in it up to a seek. `Full` ones fill
the field with a message. Left out: time passing within a timeline; the
viewport, scale and diagnostics parts of the preparation key; the hint to decode
artwork early; failures of the preparation, which end the Renderer; frame pacing
and the continuous motion of a playing progress, which only decide how often
frames come, so the model has the fewest; the departures of single fields, which
end with the view's.

### PresentationTiming and Playback

`PresentationTiming` is `PresentationState` whole, with time in ticks. `update`
is an operator on the record `state`; `Receive`, `Disconnect` and time are its
actions. History variables (`seen`, `reported`, `lacking`, `idle`) record
which snapshots made the generation, which of them gave a duration or position,
and for how long something was missing, so that the properties do not repeat
the code's own bookkeeping.

`Playback` puts the state on the screen: the *displayed* state, which lags while
a destination is prepared and takes playback from the incoming one
(`SynchronizePlayback`), and the `LyricMotion` fed by its frames (`viewed` says that there is a view
whose motion this is). The history variable `moved` adds up how far snapshots have
moved the position since the displayed one; giving it up, as a stop does, counts as a
move. Whether the
destination is prepared, the outgoing text gone, and the lyrics' textures ready
is free for each frame. An eased curve is its start, one level halfway and its
end; Scale is a power of two, so that nothing is rounded however often a motion
is interrupted. Frames are faster than ticks, as in `NativeView`: while something
moves, each tick has its frame.

### NativeView

The view is a record; `Departing`, `Replaced`, `Installed`, `Observing`,
`DrawnView` are the operations of `native_view.rs` in the order in which `Render`
(`render_inner`) calls them, with animations on or off for any frame. `drawn` is
the frame: a weight per picture, a text and an opacity per field, the status, the
timing and the fill of the rail. That fill is the share of the position in the
presentation's own `length`, so a snapshot may seek, correct the duration, or do
both; a jump of the position within `JumpTolerance` (half a second in the code, a
tick here) is not travelled, and `ProgressContinuous` allows a frame that much
besides the travel and the clock. Replaced text is guarded twice
(`departure_complete` in the runtime and `reveal_prepared` in the fields), and
either suffices. Left out: activity's text, lyrics (in `Playback`), places,
`previous_composition`, palettes. The instance has no change of a name within a
song: that one is `renderer_departure`. Turning animations off during a
departure makes a cut; `FieldsContinuous` allows it. A departure is told from
none (`DepartureAssumption`), as an `Option` is.

### PresentationPreparation

`Prepare(view, p)` is `prepare` with the worker around it: it resets the caches
when the scale changes, resolves the presentation (artwork that cannot be
decoded, a track without names), takes images, gradient and content from the
caches or makes them, and pushes the preparation. Content is large and a pure
function of what it was made of, so a preparation keeps only *what* its content
was made of, and `Content` computes it: `ContentIsFresh` compares what a reused
content shows with what a new one would.

The operators of `ViewportLayout`, `MetadataFitting`, `PreparedContent` and
`Scene` follow the code's integer arithmetic. A ratio is a number of millionths,
rounded exactly; each kind of presentation has the gutter of its own grid; a text is the sequence of the widths of its words in hundredths
of the font's size, which stands for Pango's shaping. Left out: the caches of
status, digits, drawings, measurements and word rasters; strict artwork, for
captures; `fitting_line_plan`, which only tests use.

`LatestSnapshot` is what the snapshot socket promises: the Renderer shows newer and newer
snapshots, may skip some, and shows the latest if the Bridge keeps serving.

## 3. Runs

A property that is a conjunction has its parts as definitions of their own, each
with its comment, and a mutant for each part.

| Run | Instance | Shows |
|---|---|---|
| `bridge_safety` | two servers, seven zone states, three timelines, at most 5 revisions and 7 request generations; no I/O faults | `ShownOfOneTrack`: artwork belongs to the zone and key of the snapshot, lyrics to its track; superseded images are removed; a missing output is announced |
| `bridge_faults` | one server, six zone states of which one's text is refused, failing downloads and file operations, 4 revisions, 7 generations, fairness | the published file exists; `AttemptsAreCurrent`: a held snapshot has a live request, no retry beside another attempt; convergence, so that no snapshot is held for ever |
| `lyric_feed` | two zones, three songs of which two share a key, two changes, one loss, one correlated key | `LyricsAreCurrent`: a timeline is the tracked track's, nothing outlives its connection; lyrics sent for a tracked track are shown (liveness) |
| `command` | three launches, a crash anywhere, `Overlaps = {}`, the children of one that end, fail and hang at will, fairness | one session; `OwnershipIsRecorded`: recorded, one recoverer; no artifacts inherited or lost; live owners kept; `StoppedBeforeCleanup`: no cleanup under a child that runs, unless it outlived SIGKILL and that is an error; `SessionsFinish`: every launch decides, the last one left becomes the session, and a session that is to end cleans up whatever its children do (liveness) |
| `session_cleanup_race` | three launches, `Overlaps = {"cleanup"}` | *violated*: two sessions at once |
| `channel` | three Bridge processes with up to four revisions each, room for two messages | nothing lost or stuck, the Renderer never goes back; refinement of `LatestSnapshot` with its liveness |
| `renderer` | two songs, another name, artwork and cue for one of them, a stopped zone; three events; fairness | `OnePresentationOnScreen`: songs never mix, lyrics belong to the revision reported for them; superseded content is never revealed; the latest snapshot is (liveness) |
| `renderer_departure` | one song, two names, up to four events | *violated*: text that departed for a change taken back stays invisible |
| `timing` | eight snapshots, complete and incomplete, of two tracks, two zones, paused, loading, stopped, not paired; four of them in six ticks; graces of two | `OfOneTrack`: metadata and timing are put together of one track only; `GracesRunOut`: provisional timing and the bright display last as long as they should; `MovesByTheClock`: no position jumps unless a snapshot says so, and a static fixture is still |
| `playback` | a song with six cues, blanks among them, sought, paused, stopped and without timing, and the next song; two events in three ticks | `LyricsWellPlaced`, `LyricsContinuous`: whatever interrupts a handover, the rows on the screen go on from where they are; only reported seeks are cuts; a displayed position does not jump while its destination is prepared |
| `native_view` | two songs, a pause with a seek, a corrected duration, late artwork, a lost Bridge; three events in four ticks, animations on or off for any frame | `FramesContinuous`: pictures and fields never jump, and the fill of the rail, sought or corrected, travels; `DrawnInFull`: pictures add up to one, and when frames cease the latest presentation is drawn whole; nothing obsolete is revealed |
| `preparation` | six presentations, short and long, with and without lyrics, timing, artwork that fails; a small display moved by inactivity and an ultrawide one, two scales; caches of two | `AsPreparedAnew`: caches cannot be told from preparing anew; `MetadataFits`: lines hold their words, break best, and stay in their region in fonts that are not below their floor; `UnchangedStays`; words travel between the places of their texts at rest; `RolesInPlace`: at every amount of lyrics the status stands above the names and roles do not overlap, the reel is complete, the tiles of both axes cover their text |

**Bounds.** `MaxRevision` and `MaxGeneration` (RoonBridge) stop new inputs,
never the handling of what is under way; five revisions let a snapshot be
published, held, superseded twice and cleared, and seven generations let three
requests with a retry each be outstanding or queued together. `IOFaults` is off
where a fault makes the property meaningless (`NoArtworkLeak`). `Launches`: with
three, one can crash as owner, one as recoverer, and one live launch recover
both. The ownership invariants of run `command` were also checked once without
children and liveness, launches interchangeable, for four launches (272,743
states) and five (7,593,662); the theorems have no bound. `Supervised` is one launch of these: only one session runs at a time, and
any of the three may come before, after or with it; the sessions of the others
end at any moment. `WireRoom = 2` is the smallest wire with an order on it;
`MaxRevision = 3` fills wire, `pending` and one more; `MaxEpoch = 3` has a
message of a dead process in transit while a second one starts and stops and a
third begins. The proofs remove the bounds of the channel. `MaxBehind = 1` lets
either connection be one change behind the other; two changes then give a track
that returns, or an event of the next track and one of the track before; one
correlated key has an eviction at the second key. In `renderer`, three events
are a song, a change to prepare while it departs, and a change back or a
disconnect; or a Bridge that restarts and repeats a revision.

In `timing`, a grace of two ticks and six ticks of time let a grace run out, be
ready again and run out once more; four updates are a track, an incomplete one,
another track and a return. In `playback`, all motions take two ticks, so that
each one can be interrupted half way by each other one and ends in the three
ticks there are; two events are a change and one that interrupts what it
started. Every reported length is the same and every snapshot has a title, which
`SeekWasReported` needs (section 5). In `native_view` three events are a destination, a second while the
first departs or is prepared, and a third while the second appears, and four
ticks finish a transition that starts at once. In `preparation`, two places of
each cache have every entry evicted and every hit be at either place; the
presentations were chosen so that lowered sizes, broken lines, the ellipsis,
compact titles, the reel's ends and its runs of blanks occur. Its properties of
geometry are asked of what is prepared in empty caches; by `AsPreparedAnew`
nothing else is ever prepared. They were also evaluated once for ten displays
from 1280x720 to 7680x4320, with the same result; below the documented minimum,
at 1024x768, roles overlap.

**Fairness.** Bridge: Roon answers or fails every image request (the SDK fails
outstanding requests when its connection drops), file operations end, timers
fire. Nothing makes Roon send another zone update. Session: a process that has
not been killed goes on executing, and its timers fire; nothing makes it start
or its children end. Lyric
Feed: the server sends the lyrics that are due, and what is sent arrives; nothing
makes it pair, reconnect or change. Channel:
the Bridge's socket callbacks, the worker thread and the main loop keep running;
nothing makes a Bridge publish, stop or restart. Renderer: the worker thread and
the main loop keep running (frames, the 50 ms timer, the wakeup), and a
departure of 225 ms ends; nothing makes a snapshot arrive.

`CHECK_DEADLOCK FALSE` everywhere: each system may come to rest (all inputs used
up, all launches over, nothing to deliver).

## 4. Proofs

A theorem holds for every value of the constants that satisfies the module's
named assumption. Each proof module states an inductive invariant (`Inv`, `SInv`,
...), shows that `Init` implies it and that each action keeps it, and draws the
properties from it. TLC checked each invariant on the run of its module first.

**The snapshot socket.** `SnapshotChannel_proofs` proves `TypeCorrect`,
`WakeupsKept`, `LatestKept` and `NothingRejected`: the invariants of run
`channel`, for every `WireRoom`, `MaxRevision` and `MaxEpoch`, from
`ChannelAssumption` alone. Then `ShownNeverGoesBack` (`ShownAdvances`, with
republished revisions allowed) and `ChannelImplementsRegister`: with revisions
that increase, every behaviour of the channel is one of `LatestSnapshot`, its
liveness apart.

The invariants are not inductive alone. What they need:

- `ConnectionFits`: the two ends of a connection agree - nothing is on the wire
  before it is accepted, only an open connection is blocked or pending, and an
  unblocked one has room (so `TypeOK` bounds the wire).
- `InOrder`: wire, then pending, are in increasing revisions, all above the one
  accepted. Rejection is impossible because everything behind the accepted
  revision is larger; the latest message is kept because it is the last of
  pending or wire.
- `OneProcessPerLink`: all on one connection come from one Bridge process, the
  running one while the connection is open, an earlier one once it has ended.
- `TransitInOrder`: what the worker sends, what is in the channel and what is
  shown are ordered, and everything `InTransit` is `Behind` what the connection
  can still bring. `LatestIsNewest`: nothing is newer than the last published.

**The Lyric Feed.** `LyricFeed_proofs` proves `LyricsMatch` (`LyricsAreCurrent`)
for any zones, songs and keys, and however far the connections are apart, from
`FeedAssumption`. That the accepted timeline is the tracked track's rests on an
order nothing in the code enforces: on the private connection, a zone's lyrics
come after the report of their song and before that of the next. `Heard` says
which song a zone is known to play once the first items of the wire are taken;
`InOrder` that all of the wire leads to what the zone plays, and up to each
lyrics to their song. Three lemmas say what appending to the wire and taking its
first item does to `Heard`. With it, every retained event was observed with its
own song (`Observed`), so that what `track()` accepts later is the tracked
track's (`Matched`). What is forgotten with a connection is part of the
invariant, because the next connection starts from it. `TypeCorrect` includes
what the code's map of correlated keys promises: never more than
`MAX_CORRELATED_KEYS`, none twice (`Keyed`). Accepting a key deletes what stood
under it, appends it and drops the oldest of one too many; that deleting one
entry keeps the others, each one place earlier or where it was, is
`DeletedEntries`.

**The runtime directory.** `RoonScapeCommand_proofs` begins with the ownership itself, in
two parts, both for any finite set of launches that crash between any two file-system calls.

- `TypeCorrect` holds without a condition. Its strength is in the bound: the
  recovery chain is never longer than there are launches, because each level was
  published by a launch of its own (`Led`), and one that looks for a leaf has none
  yet (`Unled`).
- `SessionsExclusive`, `LiveOwnersAreKept` and `ArtifactsBelongToTheSession` prove
  `OneSession`, `OwnershipIsRecorded`, `LiveOwnerKept` and `ArtifactsOfTheSession`
  in every behaviour outside the two windows of `RuntimeSession` (`Outside`, an
  action property of the behaviour, not of the constants), for any number of launches:
  no launch is alive during a cleanup, and none publishes anew the recovery directory
  another has just walked past. The code does not keep launches out of these windows, and TLC shows
  for each that it loses ownership there; the theorems say that there is no third
  way. That at most one launch recovers (`OneRecovery`) is a result, not a hypothesis.

  The invariant `SInv` says what a place in the code knows of the directory. From
  the scan that follows the rename on, `owner/` bears the launch's name, until the
  launch unlinks it (`HeldInv`); what is reclaimed belongs to a launch that is over
  (`ReclaimInv`). The hard case is a candidate for `owner/` whose record another
  launch has swept away (`EmptiedInv`): it is still listed by a live sweep, or it
  is behind the `owner/` of a launch that is over and that nobody reclaims; in
  either case its rename fails. Past the sweep of the artifacts there are none
  (`CleanInv`). What keeps recoveries apart is `ChainInv`: what a launch has
  read of the chain is still dead when it makes its candidate (`WalkedDead`, which is
  what needs the second window closed), so a candidate inside the chain stands
  below a dead recoverer (`BelowDead`), and what is published there
  is the last level and its launch the only live one that leads any (`LeafLast`,
  `OnlyLast`); whoever removes levels has listed its own record and those of launches
  that are over (`ListedLevels`).

**The command.** The same module then proves `StopsBeforeCleanup`
(`StoppedBeforeCleanup`) for any launches, from `CommandAssumption`. Once the
shutdown settles, whatever child has not ended was told to (`Told`), and is
waited for until it ends or is given up, and who gives up fails. That the
session still owns the directory meanwhile needs every step of every other
launch: only one that is removing, or is over, has entries to remove (`RInv`),
so none of an owner's appear from elsewhere. `CommandRunsSessions` is a
refinement: forgetting the children, every behaviour of the command is one of
`RuntimeSession`, its children's and timers' steps stutters.
`CommandKeepsOwnership` draws the ownership properties of the command from it: in
every behaviour outside the windows, and in all of them with `Overlaps = {}`, as in
the run (`StaysOutside`).

**The Bridge.** The safety of `RoonBridge` is proved in `RoonBridge_proofs`, each
part on the invariant of the one before, for any cores, zones, outputs, timelines and
failures, from `BridgeAssumption` and `NoneAssumption` (the value that stands
for `undefined` is none of the others):

- `AttemptsOfCurrentRequest`: a file is requested once, and is
  then in one place only, with Roon or in one operation of the store's queue
  (`OncePlaced`). Every request that is not the current one is of an earlier
  generation (`Known`), so a late answer can be told from a current one; what is
  held is awaited, and a retry stands for an attempt that is over.
- `TypeCorrect`: what each publication makes of the
  snapshot, the held one and the feed.
- `OneTrackShown` and `MissingOutputTold`: the coordinator's
  identity is that of the latest snapshot, shown or held; the feed's is its track
  (`ArtworkInv`, `LyricsInv`). An image of the current request has the identity's
  key, and a timeline the feed accepted is the latest snapshot's, so neither is put
  on another track. While the output is missing, nothing is asked for or held.
- `ArtworkStays` and `NothingLeaked`: behind the staging
  of the current image there is nothing in the queue but the removal of others
  (`StagedLast`), so once shown, its file is kept until its commit and afterwards
  (`Kept`). What it replaces is removed by that commit, and what is taken off the
  screen by a clear (`Leaving`); the latter is for stores whose operations succeed.

All but the first two assume that no text is refused (`Rejected = {}`). This is
needed: a refused zone update leaves the old track shown while the feed follows the
next, as section 5 says of `roon-bridge.ts:372`. Run `bridge_faults` checks what
holds of refused texts on a small instance.

**The Renderer's pipeline.** `PresentationPipeline_proofs` proves `TypeCorrect`,
`OnePresentationShown` (`OnePresentationOnScreen`) and `NothingObsoleteRevealed`
(`NoObsoleteReveal`) for any presentations and bounds. A reply names its request
by a number alone. `AskedInv` says that every request made so far bears a smaller
number or asks for what the main loop asks for now (`Work`), wherever it is: in the
queue, at the worker, among the replies. So a reply that bears the current number
answers the current question. `TimelineInv` orders the three states the main loop
keeps: those of one generation are of one song, those of one revision of it are one
snapshot (`Follows`), and the displayed state and the one its lyrics are timed by
never differ in generation. `Composed` says which of them each part of the screen
came from.

**Timing.** `Playback_proofs` begins with the presentation state and proves `CarriedWithinTrack` (`OfOneTrack`),
`GracesEnd` (`GracesRunOut`) and `ClockMoves` (`MovesByTheClock`) for any
snapshots, graces and length of time. A grace runs for exactly as long as timing
has been lacking (`GraceInv`), a position was taken at an earlier time and lies
within the track (`PositionInv`), a duration or position that was carried on was
reported in this generation, and the metadata kept has every line of those seen.

**Playback.** The same module proves `DisplayedPositionMoves`
(`DisplayedPositionContinuous`) and `SpaceReserved` (`ReservedOnlyWhileDiscovering`,
one of the three parts of `LyricsWellPlaced`) for any snapshots, lyrics, graces and
durations; `PlaybackRunsTiming` says that `Playback` implements
`PresentationTiming`, so that what is proved of timing holds here too. A frame of
one revision and the next may show the displayed state, the incoming one, or the
displayed timing with the incoming playback. `DisplayedInv` is why it makes no
difference: of one revision and generation there is one state, so a displayed
timing of the incoming revision *is* the incoming state (a disconnection, which
keeps the revision, shows no position); and timing that takes over another playback
is carried on to this instant first (`Synchronized`). For the space, a motion that
waits for lyrics shows none, and one that does not wait takes space only for a cue
(`MotionInv`), by whichever of its operations it got there.

**The caches.** `PresentationPreparation_proofs` proves `CachesAlwaysFaithful`,
`ReuseIsInvisible` (`AsPreparedAnew`) and `UnchangedPlaces` (`UnchangedStays`) for
any presentations, artwork, displays, scales and limits of the caches. It assumes
what the code's types say: a presentation is one of three kinds of record
(`PresentationAssumption`), a view has the display's size or insets of it
(`ViewAssumption`), a cache holds at least one entry (`LimitAssumption`). `Faithful`
is what an entry must be to be given back: its texts were prepared at this scale for
its viewport, of a presentation with the same content key; its image is that of the
artwork it still names; its gradient is that of its palette and pixels. Every
entry is, by whichever path it came: made, reused from another entry, or with
artwork decoded ahead. The key leaves out artwork, status, and all timing but
whether it is an activity; `KeySaysContent` shows that nothing prepared depends on
them, since the footer reserves its height whatever stands in it
(`RegionOfViewport`). So what is reused equals what would be made, without
looking into how lines are broken. The caches never exceed their limits, and
the list of gradients has none twice, so the last one is the one asked for.

**The fields of the view.** `NativeView_proofs` proves `NativeViewTypeOK`,
`ViewFollowsContent` and `NothingObsoleteAppears` (`RevealsWhatIsAskedFor`) for any
presentations, fields, durations, weights and number of snapshots, from
`DepartureAssumption` and the assumptions on the constants. It is about a field, and
about what may happen to it between two frames: it is asked for a destination, asked
again by the replacement, told to reflow by late artwork, revealed, and asked for
what is observed. Whatever combination a frame has of these, the field is then
either `Kept`, showing what it did, perhaps with a departure that began with its
opacity of that instant, or `Anew`, waiting unseen for the value of the
presentation that is drawn. The lemmas `...Request`, `...Reflow` and `...Reveal` say
that each operation keeps this, `SucceedsApplied` that a frame drawn from it shows
nothing obsolete: a kept field that departs becomes no brighter
(`FadesOut`, by the division of `Mix`), one that does not shows its own value.

The argument needs that the text the worker has prepared is that of the
presentation that gates it (`ContentInv`): what is installed, what is ready and what
is presented are of one key, and while a destination is neither, the presentation
keeps the fields shown. It also needs the departure of a field to be as far gone as
the time of the last frame says (`ViewInv`). The replacement asks the fields once
more, under the time of its reveal, which may be earlier than now; that this
request changes nothing (`RepeatedRequest`) is because the same frame has begun
with the same request.

**Only model-checked.** All liveness (`Convergence`, `Settles`, `LyricsShown`,
`SessionsFinish`, what the latest snapshot reaches in `renderer`, the fair part of
`ImplementsLatestSnapshot`): the prover handles neither fairness nor ENABLED.
The rest of
`LyricsWellPlaced`, and `LyricsContinuous`, of `Playback`, `FramesContinuous` and, but for
the types, `DrawnInFull` of `NativeView`: they add up or compare weights that are exact
only where no product is rounded (`Scale` a power of two, large enough for the fades
nested within the bounds), and steps of a curve that has one level between its
ends, so they are not true of every value of the constants. The geometry of `PresentationPreparation` (`MetadataFits`, `WordsTravelInPlace`,
`RolesInPlace`): line breaking is recursive over the words of a text, and
induction over data is out of the provers' reach.

## 5. What the runs found

1. **Two sessions after a cleanup** (`runtime-session.ts:80`). The recursive
   removal takes `owner/` away first and then empties a candidate that a
   concurrent launch is about to rename to `owner/`.
2. **Departed text does not come back** (`native_view.rs:235`). A destination that
   is taken back before its reveal leaves the departure it started: only a
   replacement ends it, and none is due any more.

Observed while modelling, with no run in the project. In the Bridge and the Feed:

- A view is reported for lyrics not shown (`roon-bridge.ts:606`): the check
  compares the reported revision with the current snapshot only, while the feed
  has already accepted the timeline of the snapshot held for its artwork. The
  test (`src/bridge/test/lyric-feed.test.ts:241`) says "only after visibility".
- Lyrics of the next track on the previous one (`roon-bridge.ts:372`): when a zone
  update is refused for its text, the feed tracks the new track and the snapshot
  is still the old one. (`bridge_faults` has a refused text and no lyrics.)
- Lyrics that come first are dropped (`lyric-feed.ts:298`): `track()` uses up the
  retained event of the zone before it knows that the zone's Now Playing has
  become the event's; a seek position in between loses the lyrics.
- A signal that comes after the handlers are removed ends the command before its
  children and its cleanup (`roonscape-command.ts:334`). A Bridge that outlives a
  killed command goes on writing its artwork, next to that of a later session.
- A commit that completes late resets the failure count of a newer artwork
  (`roon-bridge.ts:887`); an output name that breaks a content limit is saved, and
  nothing announces it (`roon-bridge.ts:557`); the identity of a Now Playing
  contains its image key, so an image that follows its track clears accepted
  lyrics, whose key is then refused (`lyric-feed.ts:162`).

In the session:

- Two recoveries at once, and then two sessions (`runtime-session.ts:226`). A launch
  finds a recoverer dead and is about to publish `.recovering/successor`. Before it
  does, another recovers, removes `.recovering` and crashes, and a fifth launch
  publishes a new `.recovering` and recovers. The path the first one kept now leads
  into that one, whose live owner it does not read. Each then finds `owner/` of a
  crashed launch; one removes what the other has published in between, and both
  go on. TLC finds the two recoveries with `tlc -config RuntimeSession_recovery.cfg
  MCRuntimeSession` (five interchangeable launches, `Overlaps = {"walk"}`): a behaviour
  of 55 states violates `OneRecovery`, after about 2.3 million distinct states and a minute or
  two. With `Overlaps = {}` the same five launches keep it.

In the Renderer:

- A Bridge restarted so that lyrics are visible again under the revision reported
  before gets no report (`native_runtime.rs:871`).
- A frame drawn without animations while a destination is still prepared counts the
  destination as displayed (`selective_foreground.rs:96`), and still draws the old
  text. If the next frames are animated, the destination departs for another and
  then returns, the old text fades in again, although "no obsolete destination can
  pass that gate" (`selective_foreground.rs:164`). It takes four snapshots, one
  more than run `native_view` has; `RevealsWhatIsAskedFor` excepts it, and was
  checked once with four snapshots before it was proved.
- Lyrics are cut as by a seek without one (`lyric_motion.rs:213`) when a snapshot
  shortens the track to less than the position, which is then clamped
  (`presentation.rs:446`), and when a track that rests on the screen has played on
  behind it: an update of the same generation without its text is not displayed,
  and its playback then is not taken over either (`displayed_state.rs:39`). Random
  walks through an instance with such snapshots found both.
- A word wider than the rail at the smallest size (a long title in a script
  without spaces) becomes just an ellipsis in a last line (`metadata.rs:539`), and
  is clipped in any other; the design has content ellipsized at its end
  (`docs/design/presentation.md:56`). An ellipsis is also added when nothing had
  to be left out of the line.
- Layouts subtract unsigned numbers without a check (`layout.rs:681`) and fail for
  viewports narrower than about 230 pixels, far below the documented minimum.
- The first frames after inactivity begins or ends draw the old content with the
  new margins, until it is prepared for them; artwork that could not be decoded
  is decoded again by each preparation.

## 6. Plan

What would come next: `DiagnosticCapture` (admission, gaps, acknowledgement,
close) as a module; bounds on what rounding does to nested fades, with which
`ArtworkAddsUp` and `FramesContinuous` could be stated for every `Scale` and then
proved.

Not modelled: colors (`palette.rs`, pure computation on an image's pixels) and
painting (`gradient.rs`, `qt_window.rs`, Qt and OpenGL), the shaping of text by
Pango (widths stand for it), process start-up, setup and discovery (a sequential
dialogue), configuration files, fixture mode and the evidence tools (development
only), parsing of command lines and JSON.
