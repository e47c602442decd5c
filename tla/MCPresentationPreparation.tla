--------------------- MODULE MCPresentationPreparation ---------------------
(* Instances of PresentationPreparation for TLC.                            *)
EXTENDS PresentationPreparation

HD == [width |-> 1280, height |-> 720]
Ultrawide == [width |-> 3440, height |-> 1440]

MCImages == [cover |-> [width |-> 600, height |-> 600], poster |-> [width |-> 500, height |-> 801]]

Short == [title |-> <<200, 150, 120, 160, 310, 90, 240, 180>>, artist |-> <<280, 330>>, album |-> <<>>]
Long == [title |-> <<1600>> \o [i \in 1..21 |-> 240 + 35 * (i % 5)], artist |-> [i \in 1..9 |-> 330 - 20 * (i % 4)],
         album |-> <<250, 90, 300, 310, 120, 330, 240>>]
Nameless == [title |-> <<>>, artist |-> <<>>, album |-> <<>>]
Names == [output |-> 600, zone |-> 1400]

Song(metadata, art, lyrics, timing) ==
  [kind |-> "now_playing", metadata |-> metadata, art |-> art, lyrics |-> lyrics, timing |-> timing,
   status |-> "PLAYING", names |-> Names]
Lyrics(current) == [timeline |-> <<1, 0, 0, 2, 1, 0, 1, 3, 1, 0, 0, 0, 1, 2, 1, 1>>, current |-> current]

MCPresentations ==
  {Song(Short, "cover", Lyrics(4), "progress"), Song(Short, "cover", <<>>, "none"),
   Song(Long, "poster", <<>>, "activity"), Song(Long, "none", Lyrics(9), "progress"),
   Song(Nameless, "poster", <<>>, "none"),
   [kind |-> "full_field", heading |-> 1100, explanation |-> 4200, status |-> "UNAVAILABLE",
    names |-> [output |-> 500, zone |-> 0]]}

(* The smallest display, inactive at two offsets, and an ultrawide one.     *)
MCViews == {[display |-> HD, offset |-> [x |-> 18, y |-> -6]], [display |-> HD, offset |-> [x |-> -8, y |-> 12]],
            [display |-> Ultrawide, offset |-> <<>>]}
MCAmounts == {0, 35, 65, 100}
=============================================================================
