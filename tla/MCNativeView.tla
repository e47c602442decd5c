---------------------------- MODULE MCNativeView ----------------------------
(* Bounds and values of the checks of NativeView.                          *)
EXTENDS NativeView

Playing(song, fields, art, status, position) ==
  [kind |-> "now_playing", song |-> song, fields |-> fields, zone |-> "zone", art |-> art, heading |-> None,
   status |-> status, grace |-> FALSE, activity |-> FALSE, position |-> position, length |-> 8]

Line(title, artist) == [title |-> title, artist |-> artist]

MCFields == {"title", "artist"}
MCDisconnected ==
  [Playing(None, Line(None, None), None, "disconnected", None) EXCEPT
     !.kind = "full_field", !.zone = None, !.heading = "disconnected"]
One == Playing("one", Line("one", "artist"), "cover", "playing", 0)
MCContents ==
  {One,
   [One EXCEPT !.status = "paused", !.position = 6],
   [One EXCEPT !.status = "paused", !.position = 6, !.length = 16],
   [One EXCEPT !.art = "late", !.position = None, !.grace = TRUE],
   [One EXCEPT !.song = "two", !.fields.title = "two", !.art = "late", !.zone = "room",
               !.position = None, !.activity = TRUE],
   MCDisconnected}
=============================================================================
