-------------------------- MODULE RoonScapeCommand --------------------------
(***************************************************************************)
(* The roonscape command: once a launch owns the runtime directory it runs  *)
(* the Bridge and the Renderer as its children, until one of them ends or   *)
(* it is told to, and cleans up behind them (runConfiguredSession,          *)
(* src/bridge/src/roonscape-command.ts; child-process.ts).                  *)
(*                                                                          *)
(* The code runs to completion between two events, so an event and what the *)
(* resumed promises do of it are one step.  Children of a launch that was   *)
(* killed are assumed to go with it.                                        *)
(***************************************************************************)
EXTENDS RuntimeSession

CONSTANT Supervised  \* the launches whose children are followed; others end at will

ASSUME CommandAssumption == Supervised \subseteq Launches

VARIABLE command   \* [launch -> runConfiguredSession's variables]

commandVars == <<vars, command>>

Children == {"bridge", "renderer"}

(* life: a child that failed to launch has an error still to be told of,   *)
(* one that is alive may end at any moment.  stop: what stopChild waits for.*)
NoCommand == [phase |-> "none", failed |-> FALSE,
              life |-> [c \in Children |-> "absent"], stop |-> [c \in Children |-> "no"]]

Becomes(p, r) == command' = [command EXCEPT ![p] = r] /\ UNCHANGED vars

-----------------------------------------------------------------------------
(* stopChild: what is settled is not stopped, what is being stopped is not *)
(* stopped again.                                                          *)
Unsettled(r, c) == r.life[c] \in {"alive", "failed"}

\* mutant: only the Renderer is stopped
StopRenderer(r) ==
  [r EXCEPT !.stop["renderer"] = IF @ = "no" /\ Unsettled(r, "renderer") THEN "term" ELSE @]

StopAll(r) ==
  [r EXCEPT !.stop = [c \in Children |-> IF @[c] = "no" /\ Unsettled(r, c) THEN "term" ELSE @[c]]]

Pending(r) == \E c \in Children : r.stop[c] \in {"term", "kill"}

(* Both children are launched; if a launch throws, the later ones are not. *)
Start(p) ==
  /\ p \in Supervised /\ pc[p] = "owning" /\ command[p].phase = "none"
  /\ \E bridge, renderer \in {"alive", "failed", "absent"} :
       LET r == [NoCommand EXCEPT !.life = [c \in Children |-> IF c = "bridge" THEN bridge ELSE renderer]]
       IN IF renderer # "absent"
          THEN bridge # "absent" /\ Becomes(p, [r EXCEPT !.phase = "watching"])
          ELSE Becomes(p, [StopAll(r) EXCEPT !.phase = "settling", !.failed = TRUE])

(* The "exit" event of a child.  The first one ends the race of the        *)
(* session, and its peer is stopped.                                       *)
Exited(p, c) ==
  LET r == [command[p] EXCEPT !.life[c] = "settled", !.stop[c] = IF @ = "rejected" THEN @ ELSE "no"]
  IN /\ command[p].life[c] = "alive"
     /\ IF r.phase = "watching"
        THEN Becomes(p, [StopAll(r) EXCEPT !.phase = "stopping"])
        ELSE Becomes(p, r)

(* The "error" event of one that failed to launch: its promise is rejected, *)
(* and so is the race, or whoever stops it.                                *)
Failed(p, c) ==
  LET r == [command[p] EXCEPT !.life[c] = "settled", !.failed = TRUE,
                              !.stop[c] = IF @ = "no" THEN @ ELSE "rejected"]
  IN /\ command[p].life[c] = "failed"
     /\ Becomes(p, IF r.phase = "watching" THEN [StopAll(r) EXCEPT !.phase = "settling"] ELSE r)

(* SIGINT or SIGTERM while the race is on; later ones change nothing until *)
(* the handlers are removed, and then kill the launch (Crash).             *)
Terminated(p) ==
  /\ command[p].phase = "watching"
  /\ Becomes(p, [StopAll(command[p]) EXCEPT !.phase = "stopping"])

\* mutant: a child that ignores SIGTERM is asked again
GraceOverAgain(p, c) ==
  /\ command[p].stop[c] = "term"
  /\ Becomes(p, [command[p] EXCEPT !.stop[c] = "term"])

(* stopChildOnce: five seconds after SIGTERM, SIGKILL; a second after that *)
(* the child is given up.                                                  *)
GraceOver(p, c) ==
  /\ command[p].stop[c] = "term"
  /\ Becomes(p, [command[p] EXCEPT !.stop[c] = "kill"])

\* mutant: a child that is given up counts as stopped
KillOverQuietly(p, c) ==
  /\ command[p].stop[c] = "kill"
  /\ Becomes(p, [command[p] EXCEPT !.stop[c] = "over"])

KillOver(p, c) ==
  /\ command[p].stop[c] = "kill"
  /\ Becomes(p, [command[p] EXCEPT !.stop[c] = "rejected", !.failed = TRUE])

(* The children the session's end stops have stopped, or one cannot be:    *)
(* unsubscribe, and stop what is left.                                     *)
Settle(p) ==
  /\ command[p].phase = "stopping"
  /\ ~Pending(command[p]) \/ \E c \in Children : command[p].stop[c] = "rejected"
  /\ Becomes(p, [StopAll(command[p]) EXCEPT !.phase = "settling"])

EndSession(p) == /\ p \in Supervised => command[p].phase = "settling" /\ ~Pending(command[p])
                 /\ Cleanup(p)
                 /\ command' = [command EXCEPT ![p] = NoCommand]

(* The Bridge makes its socket and its artwork.                            *)
Serve(p) == /\ p \in Supervised => command[p].life["bridge"] = "alive"
            /\ Run(p) /\ UNCHANGED command

-----------------------------------------------------------------------------
CommandInit == Init /\ command = [p \in Launches |-> NoCommand]

Watch(p) == \/ Start(p) \/ Settle(p) \/ EndSession(p)
            \/ \E c \in Children : Failed(p, c) \/ GraceOver(p, c) \/ KillOver(p, c)

CommandNext ==
  \E p \in Launches :
    \/ (Launch(p) \/ Step(p)) /\ UNCHANGED command
    \/ Crash(p) /\ command' = [command EXCEPT ![p] = NoCommand]
    \/ Watch(p) \/ Serve(p) \/ Terminated(p)
    \/ \E c \in Children : Exited(p, c)

CommandSpec == CommandInit /\ [][CommandNext]_commandVars

(* A launch goes on executing until it is killed, and its timers fire.     *)
(* Nothing makes a child end, not even SIGKILL.                            *)
FairCommandSpec ==
  /\ CommandSpec
  /\ \A p \in Launches : WF_commandVars(Step(p) /\ UNCHANGED command)
  /\ \A p \in Supervised : WF_commandVars(Watch(p))

-----------------------------------------------------------------------------
(* Properties                                                              *)

(* The ownership's variables and the command's keep their types; a child    *)
(* that is being stopped was launched.                                     *)
CommandTypeOK ==
  /\ TypeOK
  /\ command \in [Launches ->
       [phase : {"none", "watching", "stopping", "settling"}, failed : BOOLEAN,
        life : [Children -> {"absent", "alive", "failed", "settled"}],
        stop : [Children -> {"no", "term", "kill", "rejected"}]]]
  /\ \A p \in Launches, c \in Children :
       command[p].stop[c] # "no" => command[p].life[c] # "absent"

(* A session cleans up behind its children: both have told of their end, or *)
(* had their time to after SIGKILL, and then it fails.                      *)
StoppedBeforeCleanup ==
  [][\A p \in Launches : pc[p] = "owning" /\ pc'[p] \notin {"owning", "crashed"} =>
       \A c \in Children : \/ command[p].life[c] \in {"absent", "settled"}
                           \/ command[p].stop[c] = "rejected" /\ command[p].failed]_commandVars

(* However its children behave, a session that is to end gets to its       *)
(* cleanup: shutdown is bounded when a child never reports its exit.       *)
ShutdownEnds == \A p \in Launches :
  command[p].phase \in {"stopping", "settling"} ~> pc[p] \in {"cleaning", "gone", "crashed"}

(* Neither an acquisition nor a shutdown waits for ever.                   *)
SessionsFinish == LaunchesFinish /\ ShutdownEnds
=============================================================================
