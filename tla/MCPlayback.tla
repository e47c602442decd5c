----------------------------- MODULE MCPlayback -----------------------------
(* Bounds and values of the checks of Playback.                            *)
EXTENDS Playback

Song(playback, title, position, song) ==
  [availability |-> "available", playback |-> playback, zone |-> "zone", meta |-> [title |-> title], art |-> None,
   position |-> position, age |-> 0, duration |-> 8, song |-> song]

Cue(at, blank) == [at |-> at, blank |-> blank]

MCFields == {"title"}
MCCues == [verses |-> <<Cue(0, TRUE), Cue(1, FALSE), Cue(2, FALSE), Cue(3, TRUE), Cue(4, TRUE), Cue(5, FALSE)>>]
MCSnapshots ==
  {Song("playing", "one", 0, "verses"), Song("playing", "one", 2, "verses"),
   Song("paused", "one", None, "verses"), Song("playing", "one", None, None),
   Song("playing", "two", 0, None), Song("stopped", "one", None, None)}
=============================================================================
