---------------------------- MODULE MCRoonBridge ----------------------------
(* Small instances of RoonBridge: the Tracked Zone states Roon reports.     *)
EXTENDS RoonBridge

Zone(playback, zone, track, key, name) ==
  [playback |-> playback, zone |-> zone, track |-> track, key |-> key, name |-> name]

(* One album: same key for two tracks, a pause, a new key, no key, a stop, *)
(* and the same artwork seen through another zone after regrouping.        *)
First       == Zone("playing", "living", "t1", "k1", "speaker")
FirstPaused == Zone("paused", "living", "t1", "k1", "speaker")
SameAlbum   == Zone("playing", "living", "t2", "k1", "speaker")
Second      == Zone("playing", "living", "t2", "k2", "speaker")
NoImage     == Zone("playing", "living", "t2", None, "speaker")
Stopped     == Zone("stopped", "living", "t2", "k2", "speaker")
TooLong     == Zone("playing", "living", "t3", "k3", "speaker")
Regrouped   == Zone("playing", "office", "t1", "k1", "speaker")

ArtworkZones   == {First, FirstPaused, SameAlbum, Second, NoImage, Stopped, Regrouped}
FaultZones     == {First, FirstPaused, Second, NoImage, TooLong, Stopped}

Lyrics == {[track |-> "t1", size |-> "fits"], [track |-> "t2", size |-> "fits"],
           [track |-> "t2", size |-> "tooLarge"]}
NoLyrics == {}
AllValid == {}
TextTooLong == {"t3"}
=============================================================================
