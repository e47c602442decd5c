----------------------------- MODULE MCLyricFeed -----------------------------
(* Instances of LyricFeed.                                                  *)
EXTENDS LyricFeed

(* Each song has a lyric key of its own.                                    *)
OwnKeys == [s \in Songs |-> s]

(* Songs whose Now Playing differs while Roon gives them one lyric key:     *)
(* one recording with other metadata, or with an image that came later.     *)
CONSTANT SameKey
SharedKeys == [s \in Songs |-> IF s \in SameKey THEN CHOOSE t \in SameKey : TRUE ELSE s]
=============================================================================
