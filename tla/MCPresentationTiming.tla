------------------------ MODULE MCPresentationTiming ------------------------
(* Bounds and values of the checks of PresentationTiming.                  *)
EXTENDS PresentationTiming

Available(playback, meta, position, age, duration) ==
  [availability |-> "available", playback |-> playback, zone |-> "zone", meta |-> meta, art |-> None,
   position |-> position, age |-> age, duration |-> duration, song |-> None]

Track(title, artist) == [title |-> title, artist |-> artist]

MCFields == {"title", "artist"}
MCCues == [quiet |-> <<>>]
MCSnapshots ==
  {Available("playing", Track("one", ""), 1, 1, 3),       \* complete
   Available("playing", Track("one", None), None, 0, None), \* says little
   Available("paused", Track("one", "a"), None, 0, 4),     \* enriches
   Available("playing", Track(None, "b"), 2, -1, None),    \* compatible with little
   Available("loading", None, None, 0, None),
   Available("stopped", None, None, 0, None),
   [Available("playing", Track("one", "a"), None, 0, None) EXCEPT !.zone = "other"],
   [DisconnectedSnapshot EXCEPT !.availability = "pairing_required"]}
=============================================================================
