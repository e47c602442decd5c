----------------------- MODULE MCPresentationPipeline -----------------------
(* Instances of PresentationPipeline.  Artworks and cues carry their song.  *)
EXTENDS PresentationPipeline
CONSTANTS s1, s2

Song(song, name, art, cue) ==
  [song |-> song, name |-> name,
   art |-> IF art = 0 THEN None ELSE <<song, art>>,
   cue |-> IF cue = 0 THEN None ELSE <<song, cue>>]

NoBridge == [song |-> None, name |-> "disconnected", art |-> None, cue |-> None]
Stopped  == [song |-> None, name |-> "stopped", art |-> None, cue |-> None]

(* A zone that plays a song and is renamed.                                *)
Renamed == {Song(s1, "zone", 1, 1), Song(s1, "group", 1, 1)}

(* Also another artwork or place in the lyrics, a song without a name (and  *)
(* with no artwork a full field), and none.                                *)
Playing == Renamed \cup {Song(s1, "zone", 2, 1), Song(s1, "zone", 1, 2),
                         Song(s2, "zone", 1, 1), Song(s2, "zone", 0, 1), Stopped}
=============================================================================
