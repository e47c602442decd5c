----------------------------- MODULE RoonBridge -----------------------------
(***************************************************************************)
(* startRoonBridge and its ArtworkPresentationCoordinator                   *)
(* (src/bridge/src/roon-bridge.ts), composed with the artwork directory.    *)
(* Roon's callbacks (pairing, zones, images), the Lyric Feed's timelines,   *)
(* the Renderer's visibility reports and the retry timer each run to the    *)
(* end of their synchronous code, so each is one action; store operations   *)
(* settle in steps of their own.  Handlers are functions on the records     *)
(* `pub` and `art`, so that one handler can call another.                   *)
(***************************************************************************)
EXTENDS Naturals, Sequences, FiniteSets

CONSTANTS Cores,         \* Roon Servers that may pair
          Observations,  \* Tracked Zone states Roon may report
          Timelines,     \* [track, size] lyric timelines the feed may accept
          Rejected,      \* names and tracks whose text breaks a content limit
          SavedName,     \* the Tracked Output name in the Display Configuration
          None,          \* null or undefined
          IOFaults,      \* TRUE: an artwork file operation may fail
          MaxRevision,   \* bound: no new input once this revision is published
          MaxGeneration  \* bound: no new image request beyond this generation

Keys == {z.key : z \in Observations} \ {None}
Files == [generation : Nat, key : Keys]

ASSUME BridgeAssumption ==
  /\ \A z \in Observations : z.playback \in {"playing", "paused", "stopped"}
  /\ \A l \in Timelines : l.size \in {"fits", "tooLarge"}
  /\ None \notin Cores /\ None \notin Timelines /\ None \notin Observations
  /\ IOFaults \in BOOLEAN
  /\ MaxRevision \in Nat /\ MaxGeneration \in Nat

VARIABLES disk, currentPath, stagedPath, queue, progress,
          pub,       \* revision, currentSnapshot, publication failure, activeLyrics
          art,       \* the coordinator: identity, pending, generation, failures, retry
          requests,  \* get_image calls Roon has not answered
          conn,      \* activeCore, its subscription, configured name, Tracked Zone
          feed,      \* what the bridge relies on of its Lyric Feed
          viewed,    \* timelines reported to Roon as viewed
          running    \* FALSE once stop() has been called

Store == INSTANCE ArtworkFileStore WITH NoFile <- None

storeVars == <<disk, currentPath, stagedPath, queue, progress>>
vars == <<disk, currentPath, stagedPath, queue, progress,
          pub, art, requests, conn, feed, viewed, running>>

-----------------------------------------------------------------------------
(* Snapshot states                                                         *)
UnavailableState(availability, name) ==
  [availability |-> availability, playback |-> None, zone |-> None,
   track |-> None, name |-> name, artwork |-> None, lyrics |-> None]

AvailableState(z) ==
  [availability |-> "available", playback |-> z.playback, zone |-> z.zone,
   track |-> IF z.playback = "stopped" THEN None ELSE z.track,
   name |-> z.name, artwork |-> None, lyrics |-> None]

WithLyrics(state, lyrics) ==
  [state EXCEPT !.lyrics = IF state.track = None THEN None ELSE lyrics]

Valid(state) == {state.name, state.track} \cap Rejected = {}
Oversized(state) == state.lyrics # None /\ state.lyrics.size = "tooLarge"
Fit(state) == IF Oversized(state) THEN [state EXCEPT !.lyrics = None] ELSE state

-----------------------------------------------------------------------------
(* Publication.  An invalid state is refused and the failure remembered;   *)
(* one too large for its lyrics loses them, and so does activeLyrics.      *)
Prepared(p, state) ==
  IF ~Valid(state) THEN [p EXCEPT !.failed = TRUE]
  ELSE IF Oversized(state) THEN [p EXCEPT !.lyrics = None]
  ELSE p

PublishState(p, state) ==
  IF state = p.snapshot /\ ~p.failed THEN p
  ELSE IF ~Valid(state) THEN Prepared(p, state)
  ELSE [Prepared(p, state) EXCEPT !.revision = @ + 1,
                                  !.snapshot = Fit(state),
                                  !.failed = FALSE]

-----------------------------------------------------------------------------
(* The ArtworkPresentationCoordinator                                      *)
(* Mutant: the request in flight is not superseded.                        *)
ResetKeepingGeneration(a) ==
  [a EXCEPT !.retry = None, !.failures = 0, !.pending = None]

(* Mutant: the scheduled retry is not cancelled.                           *)
ResetKeepingRetry(a) ==
  [a EXCEPT !.generation = @ + 1, !.failures = 0, !.pending = None]

ResetArtworkRequest(a) ==
  [a EXCEPT !.retry = None, !.generation = @ + 1, !.failures = 0, !.pending = None]

RequestArtwork(a) == [a EXCEPT !.generation = @ + 1]

BeginArtworkRequest(a, state) ==
  RequestArtwork([ResetArtworkRequest(a) EXCEPT !.pending = state])

(* #publishPendingWithArtwork: the held snapshot, or else the latest one.  *)
Release(p, a, artwork) ==
  PublishState(p, [(IF a.pending = None THEN p.snapshot ELSE a.pending)
                     EXCEPT !.artwork = artwork])

Request(a) == [generation |-> a.generation, key |-> a.identity.key]

Clear == <<Store!Operation("clear", None)>>

(* cancelAndClear, given what the handler has published before it.         *)
CancelAndClear(p) ==
  /\ pub' = p
  /\ art' = [ResetArtworkRequest(art) EXCEPT !.identity = None]
  /\ Store!Call(Clear)
  /\ UNCHANGED requests

(* Mutant: a held snapshot keeps the unavailable one from being published. *)
ChangeUnlessHeld(p, availability, name) ==
  IF art.pending # None THEN CancelAndClear(p)
  ELSE CancelAndClear(PublishState(p, UnavailableState(availability, name)))

ChangeAvailability(p, availability, name) ==
  CancelAndClear(PublishState(p, UnavailableState(availability, name)))

Publish(p) == pub' = p /\ UNCHANGED <<art, requests, storeVars>>

Begin(p, a, state) ==
  /\ pub' = p
  /\ art' = BeginArtworkRequest(a, state)
  /\ requests' = requests \cup {Request(art')}
  /\ UNCHANGED storeVars

PresentStopped(p, state) ==
  LET published == PublishState(p, state)
      changed   == [state EXCEPT !.artwork = p.snapshot.artwork] # p.snapshot
  IN IF changed /\ published.revision = p.revision
     THEN Publish(published)
     ELSE CancelAndClear(published)

(* Mutant: the held snapshot is not replaced by the newer state.           *)
PresentRetainedKeepingHeld(p, z, state) ==
  IF art.pending # None
  THEN pub' = p /\ UNCHANGED <<art, requests, storeVars>>
  ELSE Publish(PublishState(p, [state EXCEPT !.artwork = p.snapshot.artwork]))

PresentRetained(p, z, state) ==   \* the artwork identity is unchanged
  IF art.pending # None
  THEN /\ pub' = p
       /\ art' = [art EXCEPT !.pending = state]
       /\ UNCHANGED <<requests, storeVars>>
  ELSE IF p.snapshot.track # state.track /\ z.key # None
  THEN Begin(p, art, state)
  ELSE Publish(PublishState(p, [state EXCEPT !.artwork = p.snapshot.artwork]))

(* Mutant: an image is requested even when the zone has no image key.      *)
PresentChangedAlwaysRequesting(p, identity, state) ==
  Begin(p, [art EXCEPT !.identity = identity], state)

PresentChanged(p, identity, state) ==
  IF identity.key = None
  THEN /\ pub' = PublishState(p, state)
       /\ art' = [ResetArtworkRequest(art) EXCEPT !.identity = identity]
       /\ Store!Call(Clear)
       /\ UNCHANGED requests
  ELSE Begin(p, [art EXCEPT !.identity = identity], state)

Present(p, z) ==
  LET state    == WithLyrics(AvailableState(z), p.lyrics)
      identity == [zone |-> z.zone, key |-> z.key]
  IN IF z.playback = "stopped" THEN PresentStopped(p, state)
     ELSE IF ~Valid(state) THEN Publish(Prepared(p, state))
     ELSE IF art.identity = identity
          THEN PresentRetained(Prepared(p, state), z, Fit(state))
          ELSE PresentChanged(Prepared(p, state), identity, Fit(state))

(* #recoverFromFailure: show the fallback, clear, and schedule a retry.    *)
(* Mutant: the held snapshot is not given up.                              *)
RecoveredStillHeld(a, r) == [a EXCEPT !.failures = @ + 1, !.retry = r]

(* Mutant: nor is a retry scheduled.                                       *)
RecoveredNever(a, r) == [a EXCEPT !.failures = @ + 1]

Recovered(a, r) == [a EXCEPT !.pending = None, !.failures = @ + 1, !.retry = r]

-----------------------------------------------------------------------------
(* The Lyric Feed as the bridge sees it: the identity it tracks, the       *)
(* timeline accepted for it, and whether its view was reported.            *)
NoFeed == [on |-> FALSE, tracked |-> None, accepted |-> None, visible |-> FALSE]

TrackedNowPlaying(z) ==
  IF z = None \/ z.playback = "stopped" THEN None
  ELSE [zone |-> z.zone, track |-> z.track, key |-> z.key]

Accepting(f, l) == [f EXCEPT !.accepted = l, !.visible = FALSE]

Track(f, next) ==
  IF ~f.on \/ f.tracked = next THEN f ELSE [Accepting(f, None) EXCEPT !.tracked = next]

(* A timeline the feed may accept while it tracks f.tracked.               *)
Acceptable(f, l) == f.on /\ f.tracked # None /\ l.track = f.tracked.track /\ l # f.accepted

(* track() calls onTimeline while the bridge is reconciling, which only    *)
(* remembers activeLyrics: cleared if a timeline was dropped, then set if  *)
(* a pending event is accepted.                                            *)
(* Mutant: a dropped timeline is not forgotten.                            *)
ReconciledKeeping(p, before, after) ==
  IF after.accepted # None THEN [p EXCEPT !.lyrics = after.accepted] ELSE p

Reconciled(p, before, after) ==
  IF after.accepted # before.accepted THEN [p EXCEPT !.lyrics = after.accepted] ELSE p

(* publishLyrics outside reconciliation: into the held snapshot if there   *)
(* is one, otherwise a snapshot of its own.                                *)
LyricsHeld(p, l) == Prepared([p EXCEPT !.lyrics = l], WithLyrics(art.pending, l))
LyricsShown(p, l) ==
  PublishState([p EXCEPT !.lyrics = l],
               WithLyrics(p.snapshot, l))

PublishLyrics(p, l) == IF art.pending # None THEN LyricsHeld(p, l) ELSE LyricsShown(p, l)
PendingWithLyrics(l) ==
  IF art.pending = None THEN None ELSE Fit(WithLyrics(art.pending, l))

FeedStopped(p) == IF feed.accepted # None THEN PublishLyrics(p, None) ELSE p

-----------------------------------------------------------------------------
(* Roon and Renderer callbacks.  Inputs stop at the model's bounds.        *)
Bounded == pub.revision < MaxRevision /\ art.generation + 2 <= MaxGeneration
Input == running /\ Bounded

Pair(core, configured, lyricFeed) ==
  /\ Input
  /\ conn.core # core
  /\ conn' = [conn EXCEPT !.core = core, !.subscribed = configured, !.zone = None]
  /\ feed' = IF configured /\ lyricFeed THEN [NoFeed EXCEPT !.on = TRUE] ELSE NoFeed
  /\ IF configured
     THEN ChangeAvailability(FeedStopped(pub), "outputUnavailable", conn.name)
     ELSE /\ pub' = FeedStopped(pub)
          /\ art' = [art EXCEPT !.pending = IF feed.accepted = None THEN @
                                            ELSE PendingWithLyrics(None)]
          /\ UNCHANGED <<requests, storeVars>>
  /\ UNCHANGED <<viewed, running>>

(* stop() closes the connections, and the loss may still be reported.     *)
Unpair == /\ Bounded
          /\ conn.core # None
          /\ conn' = [conn EXCEPT !.core = None, !.subscribed = FALSE, !.zone = None]
          /\ feed' = NoFeed
          /\ ChangeAvailability(FeedStopped(pub), "disconnected", None)
          /\ UNCHANGED <<viewed, running>>

OutputMissing == /\ Input
                 /\ conn.core # None /\ conn.subscribed
                 /\ conn' = [conn EXCEPT !.zone = None]
                 /\ feed' = Track(feed, None)
                 /\ ChangeAvailability(Reconciled(pub, feed, feed'),
                                       "outputUnavailable", conn.name)
                 /\ UNCHANGED <<viewed, running>>

ZoneObserved(z) == /\ Input
                   /\ conn.core # None /\ conn.subscribed
                   /\ conn' = [conn EXCEPT !.zone = z, !.name = z.name]
                   /\ LET tracked == Track(feed, TrackedNowPlaying(z))
                      IN \/ feed' = tracked
                         \/ \E l \in Timelines : Acceptable(tracked, l)
                                                 /\ feed' = Accepting(tracked, l)
                         \/ feed' = Accepting(tracked, None)
                   /\ Present(Reconciled(pub, feed, feed'), z)
                   /\ UNCHANGED <<viewed, running>>

TimelineChanged(l) == /\ Input
                      /\ feed.on
                      /\ IF l = None THEN feed.accepted # None ELSE Acceptable(feed, l)
                      /\ feed' = Accepting(feed, l)
                      /\ pub' = PublishLyrics(pub, l)
                      /\ art' = [art EXCEPT !.pending = PendingWithLyrics(l)]
                      /\ UNCHANGED <<requests, storeVars, conn, viewed, running>>

(* The Renderer reports a revision it shows; an older one is ignored.      *)
LyricsVisible == /\ running
                 /\ pub.snapshot.lyrics # None
                 /\ feed.on /\ ~feed.visible /\ feed.accepted # None
                 /\ feed' = [feed EXCEPT !.visible = TRUE]
                 /\ viewed' = viewed \cup {feed.accepted}
                 /\ UNCHANGED <<storeVars, pub, art, requests, conn, running>>

Stop == /\ running
        /\ running' = FALSE
        /\ feed' = NoFeed
        /\ CancelAndClear(FeedStopped(pub))
        /\ UNCHANGED <<conn, viewed>>

-----------------------------------------------------------------------------
(* The image request, its answer, the store's promises, the retry timer.   *)
(* Mutant: every answer counts as current.                                 *)
NeverSuperseded(r) == FALSE

Superseded(r) == r.generation # art.generation

Recover(r) ==
  IF Superseded(r)
  THEN UNCHANGED <<pub, art>>
  ELSE pub' = Release(pub, art, None) /\ art' = Recovered(art, r)

RecoveryCalls(r) == IF Superseded(r) THEN <<>> ELSE Clear

ImageFailed(r) == /\ requests' = requests \ {r}
                  /\ Recover(r)
                  /\ Store!Call(RecoveryCalls(r))
                  /\ UNCHANGED <<conn, feed, viewed, running>>

ImageArrived(r) == /\ requests' = requests \ {r}
                   /\ Store!Call(IF Superseded(r) THEN <<>>
                                 ELSE <<Store!Operation("stage", r)>>)
                   /\ UNCHANGED <<pub, art, conn, feed, viewed, running>>

(* #publishArtwork resumes after stage: publish, then commit; or discard.  *)
(* Mutant: a superseded image is not discarded.                            *)
StagedWithoutDiscard(file) ==
  IF Superseded(file)
  THEN Store!Settle(<<>>) /\ UNCHANGED <<pub, art>>
  ELSE /\ pub' = Release(pub, art, file)
       /\ art' = [art EXCEPT !.pending = None]
       /\ Store!Settle(<<Store!Operation("commit", file)>>)

Staged(file) ==
  IF Superseded(file)
  THEN /\ Store!Settle(<<Store!Operation("discard", file)>>)
       /\ UNCHANGED <<pub, art>>
  ELSE /\ pub' = Release(pub, art, file)
       /\ art' = [art EXCEPT !.pending = None]
       /\ Store!Settle(<<Store!Operation("commit", file)>>)

Committed == /\ art' = [art EXCEPT !.failures = 0]
             /\ Store!Settle(<<>>)
             /\ UNCHANGED pub

StoreSettled ==
  /\ Store!Settled
  /\ LET done == Head(queue)
     IN \/ /\ done.op # "clear" /\ progress = "failed"
           /\ Recover(done.file)
           /\ Store!Settle(RecoveryCalls(done.file))
        \/ done.op = "stage" /\ progress = "done" /\ Staged(done.file)
        \/ done.op = "commit" /\ progress = "done" /\ Committed
        \/ /\ done.op = "clear" \/ (done.op = "discard" /\ progress = "done")
           /\ Store!Settle(<<>>)
           /\ UNCHANGED <<pub, art>>
  /\ UNCHANGED <<requests, conn, feed, viewed, running>>

StorePerform == /\ Store!Perform
                /\ UNCHANGED <<pub, art, requests, conn, feed, viewed, running>>

RetryFires == /\ art.retry # None
              /\ art.generation < MaxGeneration
              /\ IF art.retry.generation = art.generation
                 THEN /\ art' = RequestArtwork([art EXCEPT !.retry = None])
                      /\ requests' = requests \cup
                           {[generation |-> art'.generation, key |-> art.retry.key]}
                 ELSE art' = [art EXCEPT !.retry = None] /\ UNCHANGED requests
              /\ UNCHANGED <<storeVars, pub, conn, feed, viewed, running>>

-----------------------------------------------------------------------------
Init == /\ Store!StoreInit
        /\ \E authorized \in BOOLEAN :
             pub = [revision |-> 0, failed |-> FALSE, lyrics |-> None,
                    snapshot |-> UnavailableState(IF authorized THEN "disconnected"
                                                  ELSE "pairingRequired", None)]
        /\ art = [identity |-> None, pending |-> None, generation |-> 0,
                  failures |-> 0, retry |-> None]
        /\ requests = {}
        /\ conn = [core |-> None, subscribed |-> FALSE, name |-> SavedName, zone |-> None]
        /\ feed = NoFeed
        /\ viewed = {}
        /\ running = TRUE

ImageAnswered == \E r \in requests : ImageArrived(r) \/ ImageFailed(r)

Next == \/ \E core \in Cores, configured, lyricFeed \in BOOLEAN :
             Pair(core, configured, lyricFeed)
        \/ Unpair
        \/ OutputMissing
        \/ \E z \in Observations : ZoneObserved(z)
        \/ \E l \in Timelines \cup {None} : TimelineChanged(l)
        \/ LyricsVisible
        \/ Stop
        \/ ImageAnswered
        \/ StorePerform
        \/ StoreSettled
        \/ RetryFires

Spec == Init /\ [][Next]_vars

(* Roon answers or fails every image request (the SDK fails them when its  *)
(* connection drops), file operations end, and timers fire.                *)
FairSpec == /\ Spec
            /\ WF_vars(ImageAnswered) /\ WF_vars(StorePerform)
            /\ WF_vars(StoreSettled) /\ WF_vars(RetryFires)

-----------------------------------------------------------------------------
(* Properties                                                              *)

(* Every variable keeps the shape its code gives it.                       *)
Names == {z.name : z \in Observations} \cup {SavedName, None}
Identities == [zone : {z.zone : z \in Observations}, key : Keys \cup {None}]
States == [availability : {"pairingRequired", "disconnected", "outputUnavailable", "available"},
           playback : {"playing", "paused", "stopped", None},
           zone : {z.zone : z \in Observations} \cup {None},
           track : {z.track : z \in Observations} \cup {None},
           name : Names,
           artwork : Files \cup {None},
           lyrics : Timelines \cup {None}]
NowPlayings == [zone : {z.zone : z \in Observations}, track : {z.track : z \in Observations},
                key : Keys \cup {None}]

(* null is none of the records the Bridge keeps.                           *)
ASSUME NoneAssumption == /\ None \notin Files /\ None \notin Identities
                         /\ None \notin States /\ None \notin NowPlayings

TypeOK ==
  /\ Store!StoreTypeOK
  /\ pub \in [revision : Nat, failed : BOOLEAN, lyrics : Timelines \cup {None},
              snapshot : States]
  /\ art \in [identity : Identities \cup {None}, pending : States \cup {None},
              generation : Nat, failures : Nat, retry : Files \cup {None}]
  /\ requests \subseteq Files
  /\ conn \in [core : Cores \cup {None}, subscribed : BOOLEAN, name : Names,
               zone : Observations \cup {None}]
  /\ feed \in [on : BOOLEAN, tracked : NowPlayings \cup {None},
               accepted : Timelines \cup {None}, visible : BOOLEAN]
  /\ viewed \subseteq Timelines
  /\ running \in BOOLEAN

(* The artwork file the current snapshot names is on disk for as long as   *)
(* the Bridge runs: no commit, discard or clear of any other request, in   *)
(* whatever order they were queued, removes what a Renderer may open.      *)
PublishedArtworkExists ==
  running /\ pub.snapshot.artwork # None => pub.snapshot.artwork \in disk

(* Artwork and metadata never mix: when nothing is held back, the artwork  *)
(* shown is the image of the zone and key the snapshot was made from, and  *)
(* a late answer or a retained file of an earlier key is never shown.      *)
ArtworkMatchesNowPlaying ==
  /\ running /\ art.pending = None /\ pub.snapshot.artwork # None
        => art.identity = [zone |-> pub.snapshot.zone, key |-> pub.snapshot.artwork.key]
  /\ pub.snapshot.artwork # None => pub.snapshot.availability = "available"

(* Lyrics shown or held belong to the track they are shown or held with.   *)
LyricsMatchTrack ==
  \A state \in {pub.snapshot, art.pending} \ {None} :
     state.lyrics # None => state.lyrics.track = state.track

(* What viewers see is of one track: artwork, lyrics and metadata together, *)
(* however late each of them came.                                         *)
ShownOfOneTrack == ArtworkMatchesNowPlaying /\ LyricsMatchTrack

(* A snapshot held back for artwork always has its own image request on    *)
(* the way: unanswered, or its image queued for staging.  Nothing can be   *)
(* held forever by a request that was superseded, failed or dropped.       *)
Awaited(r) == r \in requests \/ \E i \in DOMAIN queue : queue[i] = Store!Operation("stage", r)
HeldSnapshotIsAwaited == art.pending # None => Awaited(Request(art))

(* A retry is only ever scheduled for the request that failed last, and    *)
(* never beside another attempt at the same artwork.                       *)
RetryIsForCurrentRequest ==
  art.retry # None => art.retry.generation = art.generation /\ ~Awaited(art.retry)

(* The attempts at an image that may still change what is shown are those  *)
(* of the current request: one is under way for what is held, and none     *)
(* beside it.                                                              *)
AttemptsAreCurrent == HeldSnapshotIsAwaited /\ RetryIsForCurrentRequest

(* Once every operation and request is over, nothing is left in the        *)
(* artwork directory but the file the current snapshot shows: superseded   *)
(* and cancelled images are not leaked.  (Faults may leave files behind.)  *)
NoArtworkLeak ==
  ~IOFaults /\ queue = <<>> => disk \subseteq {pub.snapshot.artwork}

(* While the Tracked Output is missing from the zones of a subscribed      *)
(* server, viewers are told so.                                            *)
UnavailableOutputPublished ==
  running /\ conn.subscribed /\ conn.zone = None
     => pub.snapshot = UnavailableState("outputUnavailable", conn.name)

(* When inputs cease, the snapshot comes to show the zone last observed,   *)
(* unless its text is refused: no held snapshot is kept for ever.          *)
ShowsZone(z) ==
  /\ pub.snapshot.availability = "available"
  /\ pub.snapshot.playback = z.playback
  /\ pub.snapshot.name = z.name
  /\ pub.snapshot.track = AvailableState(z).track
Convergence ==
  <>[](running /\ conn.subscribed /\ conn.zone # None /\ Valid(AvailableState(conn.zone))
          => ShowsZone(conn.zone))
=============================================================================
