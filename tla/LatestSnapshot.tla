--------------------------- MODULE LatestSnapshot ---------------------------
(***************************************************************************)
(* What the socket between Bridge and Renderer promises: the Renderer shows *)
(* newer and newer snapshots, may skip some, never goes back, and shows the *)
(* latest one if the Bridge keeps serving.                                  *)
(***************************************************************************)
EXTENDS Naturals

CONSTANT Messages      \* [epoch, revision]: a Bridge process and its revision

VARIABLES latest,      \* the last snapshot published
          serving,     \* a Bridge is running
          shown        \* the last snapshot shown, and whether still connected

vars == <<latest, serving, shown>>

(* A later Bridge process starts over at revision 0.                       *)
Older(a, b) == \/ a.epoch < b.epoch
               \/ a.epoch = b.epoch /\ a.revision < b.revision

Init == /\ latest = [epoch |-> 1, revision |-> 0]
        /\ serving = TRUE
        /\ shown = [message |-> [epoch |-> 0, revision |-> 0], connected |-> FALSE]

Publish == /\ \E m \in Messages : Older(latest, m) /\ latest' = m
           /\ serving' = TRUE
           /\ UNCHANGED shown

Stop == serving /\ serving' = FALSE /\ UNCHANGED <<latest, shown>>

Show(m) == /\ Older(shown.message, m) /\ ~Older(latest, m)
           /\ shown' = [message |-> m, connected |-> TRUE]
           /\ UNCHANGED <<latest, serving>>

Disconnect == /\ shown.connected
              /\ shown' = [shown EXCEPT !.connected = FALSE]
              /\ UNCHANGED <<latest, serving>>

Next == Publish \/ Stop \/ (\E m \in Messages : Show(m)) \/ Disconnect

SafeSpec == Init /\ [][Next]_vars

Spec == SafeSpec /\ WF_vars(serving /\ \E m \in Messages : Show(m))
=============================================================================
