------------------------- MODULE PresentationValues -------------------------
(* The presentations of the Renderer (presentation.rs), where several of    *)
(* its parts compare them.                                                 *)
CONSTANTS Fields, \* the metadata fields
          None

Nothing == [f \in Fields |-> None]

Compatible(a, b) == \A f \in Fields : a[f] = None \/ b[f] = None \/ a[f] = b[f]

NowPlaying(p) == p.kind = "now_playing"

(* classify_presentation_update: what changes without a transition.        *)
InPlace(previous, next) ==
  /\ previous.kind = next.kind
  /\ previous.zone = next.zone
  /\ IF NowPlaying(next) THEN Compatible(previous.fields, next.fields)
     ELSE previous.heading = next.heading

=============================================================================
