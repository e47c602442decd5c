------------------------------ MODULE LyricFeed ------------------------------
(***************************************************************************)
(* The optional Lyric Feed: startLyricFeed (src/bridge/src/lyric-feed.ts)   *)
(* over its private connection (private-lyric-connection.ts).  The Roon     *)
(* Server tells two connections of what its zones play, each at its own     *)
(* pace: the Bridge's ordinary one, whose every zone report calls track(),  *)
(* and the feed's private one, which also carries the lyrics.  A lyric      *)
(* event is matched to the track by what its own connection said the zone   *)
(* was playing.                                                             *)
(***************************************************************************)
EXTENDS Naturals, Sequences

CONSTANTS Zones,
          Songs,         \* a song stands for its Now Playing and its timeline
          Key,           \* [song -> its lyric key, named by a song that has it]
          Unsynced,      \* songs for which Roon has no usable timeline
          None,          \* null, undefined, or a zone that is stopped
          MAX_CORRELATED_KEYS,
          MaxChanges,    \* bound: changes of what a zone plays
          MaxBehind,     \* bound: what is on its way when one more change comes
          MaxLosses      \* bound: losses of the private connection

ASSUME FeedAssumption == /\ Unsynced \subseteq Songs /\ Key \in [Songs -> Songs]
                         /\ None \notin Songs /\ None \notin Zones
                         /\ MAX_CORRELATED_KEYS \in Nat \ {0}
                         /\ {MaxChanges, MaxBehind, MaxLosses} \subseteq Nat

Playing == Songs \cup {None}

VARIABLES playing,      \* [zone -> what it plays], at the Roon Server
          changes,      \* how often that has changed
          due,          \* zones whose lyrics are still to be sent
          mainWire,     \* zone reports on their way on the ordinary connection
          mainZones,    \* the Bridge's zones
          output,       \* the zone the Tracked Output is in
          link,         \* the private connection: "closed", "open" or "paired"
          losses,       \* how often it was lost
          privateWire,  \* what is on its way on it
          privateZones, \* its zones
          feed,         \* startLyricFeed's variables
          stopped

serverVars == <<playing, changes, due>>
mainVars == <<mainWire, mainZones, output>>
linkVars == <<link, losses, privateWire, privateZones>>
vars == <<playing, changes, due, mainWire, mainZones, output,
          link, losses, privateWire, privateZones, feed, stopped>>

NoZones == [z \in Zones |-> None]

-----------------------------------------------------------------------------
(* startLyricFeed                                                          *)
NewFeed == [tracked |-> None, accepted |-> None, keys |-> <<>>, pending |-> NoZones]

Clear(f) == [f EXCEPT !.accepted = None]

(* keyTrackIdentities: the tracks lyric keys were accepted for, a map in   *)
(* the order of its insertions; the oldest is forgotten first.             *)
Correlation(f, e) == {i \in DOMAIN f.keys : f.keys[i].key = Key[e.song]}

\* mutant: a correlated key is refused even for its own track
RefusedOnceCorrelated(f, e) == Correlation(f, e) # {}

Refused(f, e) == \E i \in Correlation(f, e) : f.keys[i].track # f.tracked.playing

Deleted(keys, i) == SubSeq(keys, 1, i - 1) \o SubSeq(keys, i + 1, Len(keys))

Uncorrelated(f, e) ==
  IF Correlation(f, e) = {} THEN f.keys
  ELSE Deleted(f.keys, CHOOSE i \in Correlation(f, e) : TRUE)

Correlated(f, e) ==
  LET keys == Append(Uncorrelated(f, e), [key |-> Key[e.song], track |-> f.tracked.playing])
  IN IF Len(keys) > MAX_CORRELATED_KEYS THEN Tail(keys) ELSE keys

AcceptEvent(f, e) ==
  IF f.tracked = None \/ e.zone # f.tracked.zone \/ Refused(f, e) THEN f
  ELSE IF e.song \in Unsynced THEN Clear(f)
  ELSE IF f.accepted # None /\ Key[e.song] = Key[f.accepted] THEN f
  ELSE [f EXCEPT !.accepted = e.song, !.keys = Correlated(f, e)]

\* mutant: what the zone was playing is not retained with the event
RetainUnattributed(f, e) == [f EXCEPT !.pending[e.zone] = [e EXCEPT !.observed = None]]

RetainEvent(f, e) == [f EXCEPT !.pending[e.zone] = e]

OnEvent(f, e) ==
  IF f.tracked = [zone |-> e.zone, playing |-> e.observed]
  THEN AcceptEvent([f EXCEPT !.pending[e.zone] = None], e)
  ELSE RetainEvent(f, e)

(* track(): a changed Now Playing drops the timeline; an event retained    *)
(* for the zone is used up, accepted if it was observed with this track.   *)
Retracked(f, next) == IF f.tracked = next THEN f ELSE [Clear(f) EXCEPT !.tracked = next]
Track(f, next) ==
  IF next = None THEN Retracked(f, next)
  ELSE LET e == f.pending[next.zone]
           g == [Retracked(f, next) EXCEPT !.pending[next.zone] = None]
       IN IF e # None /\ e.observed \in {None, next.playing} THEN AcceptEvent(g, e) ELSE g

\* mutant: events of the lost connection are kept
LoseKeepingPending(f) == [Clear(f) EXCEPT !.keys = <<>>]

LoseConnection(f) == [Clear(f) EXCEPT !.keys = <<>>, !.pending = NoZones]

-----------------------------------------------------------------------------
(* The Roon Server.  It sends a song's lyrics once, after it has reported  *)
(* that the zone plays it, and not after it has reported the next one.     *)
Send(wire, item) == IF link = "paired" THEN Append(wire, item) ELSE wire

Play(z, song) == /\ changes < MaxChanges /\ Len(mainWire) < MaxBehind /\ Len(privateWire) <= MaxBehind
                 /\ song # playing[z]
                 /\ playing' = [playing EXCEPT ![z] = song]
                 /\ changes' = changes + 1
                 /\ due' = IF song = None \/ link # "paired" THEN due \ {z} ELSE due \cup {z}
                 /\ mainWire' = Append(mainWire, [zone |-> z, playing |-> song])
                 /\ privateWire' = Send(privateWire, [kind |-> "zone", zone |-> z, playing |-> song])
                 /\ UNCHANGED <<mainZones, output, link, losses, privateZones, feed, stopped>>

SendLyrics(z) == /\ link = "paired" /\ z \in due
                 /\ due' = due \ {z}
                 /\ privateWire' = Append(privateWire,
                                     [kind |-> "lyrics", zone |-> z, playing |-> playing[z]])
                 /\ UNCHANGED <<playing, changes, mainVars, link, losses, privateZones, feed, stopped>>

-----------------------------------------------------------------------------
(* The ordinary connection: every zone or seek report reconciles the feed. *)
\* mutant: a stopped zone is tracked
TrackedStopped(zones, z) == IF z = None THEN None ELSE [zone |-> z, playing |-> zones[z]]

TrackedIn(zones, z) ==
  IF z = None \/ zones[z] = None THEN None ELSE [zone |-> z, playing |-> zones[z]]

Reconcile(zones, z) ==
  /\ mainZones' = zones /\ output' = z
  /\ feed' = Track(feed, TrackedIn(zones, z))

ZoneReported == /\ ~stopped /\ mainWire # <<>>
                /\ mainWire' = Tail(mainWire)
                /\ LET report == Head(mainWire)
                   IN Reconcile([mainZones EXCEPT ![report.zone] = report.playing], output)
                /\ UNCHANGED <<serverVars, linkVars, stopped>>

(* A seek position, or the Tracked Output in another zone or in none.      *)
SeekReported == /\ ~stopped
                /\ Reconcile(mainZones, output)
                /\ UNCHANGED <<serverVars, linkVars, mainWire, stopped>>

OutputMoved(z) == /\ ~stopped /\ z # output
                  /\ Reconcile(mainZones, z)
                  /\ UNCHANGED <<serverVars, linkVars, mainWire, stopped>>

Stop == /\ ~stopped
        /\ stopped' = TRUE
        /\ feed' = LoseConnection(feed)
        /\ link' = "closed" /\ privateWire' = <<>> /\ privateZones' = NoZones
        /\ due' = {}
        /\ UNCHANGED <<playing, changes, mainVars, losses>>

-----------------------------------------------------------------------------
(* The private connection                                                  *)
Open == /\ ~stopped /\ link = "closed"
        /\ link' = "open"
        /\ UNCHANGED <<serverVars, mainVars, losses, privateWire, privateZones, feed, stopped>>

(* Paired with the expected server: subscribe_zones gives a baseline.      *)
Paired == /\ link = "open"
          /\ link' = "paired"
          /\ privateWire' = <<[kind |-> "subscribed", zones |-> playing]>>
          /\ due' = {z \in Zones : playing[z] # None}
          /\ UNCHANGED <<playing, changes, mainVars, losses, privateZones, feed, stopped>>

Delivered == /\ privateWire # <<>>
             /\ privateWire' = Tail(privateWire)
             /\ LET item == Head(privateWire)
                IN \/ /\ item.kind = "subscribed"
                      /\ privateZones' = item.zones /\ UNCHANGED feed
                   \/ /\ item.kind = "zone"
                      /\ privateZones' = [privateZones EXCEPT ![item.zone] = item.playing]
                      /\ UNCHANGED feed
                   \/ /\ item.kind = "lyrics"
                      /\ feed' = OnEvent(feed, [zone |-> item.zone, song |-> item.playing,
                                                observed |-> privateZones[item.zone]])
                      /\ UNCHANGED privateZones
             /\ UNCHANGED <<serverVars, mainVars, link, losses, stopped>>

(* The socket closes, the server unpairs, or connecting failed.            *)
Lost == /\ link # "closed" /\ losses < MaxLosses
        /\ losses' = losses + 1
        /\ link' = "closed" /\ privateWire' = <<>> /\ privateZones' = NoZones
        /\ due' = {}
        /\ feed' = LoseConnection(feed)
        /\ UNCHANGED <<playing, changes, mainVars, stopped>>

-----------------------------------------------------------------------------
Init == /\ playing \in [Zones -> Playing]
        /\ changes = 0 /\ due = {}
        /\ mainWire = <<>> /\ mainZones = playing /\ output = None
        /\ link = "open" /\ losses = 0
        /\ privateWire = <<>> /\ privateZones = NoZones
        /\ feed = NewFeed
        /\ stopped = FALSE

Server == (\E z \in Zones, song \in Playing : Play(z, song)) \/ (\E z \in Zones : SendLyrics(z))
Bridge == \/ ZoneReported \/ SeekReported \/ Stop
          \/ \E z \in Zones \cup {None} : OutputMoved(z)
Private == Open \/ Paired \/ Delivered \/ Lost

Next == Server \/ Bridge \/ Private

Spec == Init /\ [][Next]_vars

(* The server sends the lyrics that are due, and what is sent arrives.      *)
FairSpec == /\ Spec
            /\ WF_vars(Delivered)
            /\ \A z \in Zones : WF_vars(SendLyrics(z))

-----------------------------------------------------------------------------
(* Properties                                                              *)
Tracks == [zone : Zones, playing : Songs]
LyricEvents == [zone : Zones, song : Songs, observed : Playing]

(* Every variable keeps its shape, and the correlated keys their limit;    *)
(* none of them is there twice.                                            *)
TypeOK ==
  /\ playing \in [Zones -> Playing] /\ mainZones \in [Zones -> Playing]
  /\ privateZones \in [Zones -> Playing]
  /\ changes \in 0..MaxChanges /\ losses \in 0..MaxLosses
  /\ due \subseteq Zones /\ output \in Zones \cup {None}
  /\ link \in {"closed", "open", "paired"} /\ stopped \in BOOLEAN
  /\ feed.tracked \in Tracks \cup {None} /\ feed.accepted \in Playing
  /\ feed.keys \in Seq([key : Songs, track : Songs])
  /\ Len(feed.keys) <= MAX_CORRELATED_KEYS
  /\ \A i, j \in DOMAIN feed.keys : feed.keys[i].key = feed.keys[j].key => i = j
  /\ feed.pending \in [Zones -> LyricEvents \cup {None}]

(* The timeline given to the Bridge is always the tracked track's, however *)
(* far apart the two connections are, whatever was retained or lost.  This *)
(* is what RoonBridge relies on when its feed accepts a timeline.          *)
LyricsOfTrackedTrack ==
  feed.accepted # None => feed.tracked # None /\ feed.accepted = feed.tracked.playing

(* Nothing learnt from a lost connection outlives it: no timeline, no      *)
(* retained event, no correlated key, so none is resurrected by the next.  *)
ForgottenWithConnection ==
  link # "paired" => /\ feed.accepted = None /\ feed.keys = <<>>
                     /\ feed.pending = NoZones

(* Lyrics are the tracked track's, learnt on the connection there is.      *)
LyricsAreCurrent == LyricsOfTrackedTrack /\ ForgottenWithConnection

(* The Bridge tracks the song whose lyrics the server has yet to send.     *)
Expecting(z, song) == /\ link = "paired" /\ mainWire = <<>>
                      /\ feed.tracked = [zone |-> z, playing |-> song]
                      /\ playing[z] = song /\ z \in due
                      /\ \A i \in DOMAIN feed.keys :
                            feed.keys[i].key = Key[song] => feed.keys[i].track = song

(* Lyrics sent once the Bridge tracks their track, under a key it has not  *)
(* correlated with another, are accepted unless the zones, the output or   *)
(* the connection change first: also for a track that returns, whatever    *)
(* was retained before, and after a lost connection.                       *)
LyricsShown ==
  \A z \in Zones, song \in Songs \ Unsynced :
     Expecting(z, song) ~> \/ feed.accepted = song
                           \/ mainWire # <<>> \/ output # z \/ link # "paired"
=============================================================================
