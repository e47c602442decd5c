--------------------------- MODULE SnapshotChannel ---------------------------
(***************************************************************************)
(* Presentation Snapshots from the Bridge's publisher                       *)
(* (src/bridge/src/fixture-publisher.ts) to the Renderer's main loop        *)
(* (src/renderer/src/ipc.rs, native_runtime.rs): a socket with backpressure *)
(* on which only the latest unsent snapshot is kept, a worker thread that   *)
(* reads and reconnects, a one-place channel, and a wakeup pipe watched by  *)
(* the main loop.  A Bridge process may stop, at once or by a crash, and    *)
(* another one start; the Renderer lives on.                                *)
(***************************************************************************)
EXTENDS Naturals, Sequences

CONSTANTS WireRoom,     \* snapshots after which write() surely reports false
          Republishes,  \* TRUE: the caller may publish any revision again
          None,         \* null
          MaxRevision,  \* bound: revisions of one Bridge process
          MaxEpoch      \* bound: Bridge processes

(* A snapshot is told apart by the Bridge process and its revision; epoch  *)
(* 0 is the Renderer's own state before any snapshot.                      *)
Message == [epoch : 0..MaxEpoch, revision : 0..MaxRevision]
Events == [kind : {"snapshot", "rejected"}, message : Message]
            \cup [kind : {"connected", "disconnected"}, message : {None}]

ASSUME ChannelAssumption == /\ WireRoom \in Nat \ {0}
                            /\ Republishes \in BOOLEAN
                            /\ MaxRevision \in Nat /\ MaxEpoch \in Nat \ {0}
                            /\ None \notin Message /\ None \notin Events

VARIABLES serving,   \* the Bridge listens
          message,   \* the publisher's message: the last one published
          link,      \* the connection: "none", "backlog", "open" or "ended"
          wire,      \* snapshots written and not read yet
          blocked,   \* connection.blocked
          pending,   \* connection.pending
          worker,    \* what the worker thread does next
          event,     \* the event it sends
          accepted,  \* accepted_revision of this connection
          reported,  \* last_reported_rejection
          slot,      \* sync_channel(1): an event or None
          wakeup,    \* the wakeup pipe has bytes to read
          main,      \* "polling", or "draining" the channel
          shown      \* snapshot of the PresentationState, and whether connected

bridgeVars == <<serving, message, blocked, pending>>
workerVars == <<worker, event, accepted, reported>>
mainVars == <<main, shown>>
vars == <<serving, message, link, wire, blocked, pending,
          worker, event, accepted, reported, slot, wakeup, main, shown>>

Event(kind, m) == [kind |-> kind, message |-> m]

-----------------------------------------------------------------------------
(* The publisher                                                           *)

\* mutant: the result of write() is not heeded
WriteAlways(m) == wire' = Append(wire, m) /\ UNCHANGED <<blocked, pending>>

(* write() may report that its buffer is over the high-water mark, and     *)
(* surely does once WireRoom snapshots are queued.                         *)
WriteLatest(m) ==
  IF blocked
  THEN pending' = m /\ UNCHANGED <<wire, blocked>>
  ELSE /\ wire' = Append(wire, m)
       /\ blocked' \in (IF Len(wire) + 1 < WireRoom THEN BOOLEAN ELSE {TRUE})
       /\ UNCHANGED pending

NextRevision(revision) ==
  revision <= MaxRevision /\ (Republishes \/ revision = message.revision + 1)

Publish(revision) ==
  /\ serving /\ NextRevision(revision)
  /\ message' = [message EXCEPT !.revision = revision]
  /\ IF link = "open" THEN WriteLatest(message') ELSE UNCHANGED <<wire, blocked, pending>>
  /\ UNCHANGED <<serving, link, workerVars, slot, wakeup, mainVars>>

(* The server's connection callback, some time after the connect.          *)
Accept == /\ serving /\ link = "backlog"
          /\ link' = "open"
          /\ WriteLatest(message)
          /\ UNCHANGED <<serving, message, workerVars, slot, wakeup, mainVars>>

\* mutant: what was kept is forgotten
FlushForgetting ==
  /\ link = "open" /\ blocked /\ Len(wire) < WireRoom
  /\ pending' = None /\ blocked' = FALSE
  /\ UNCHANGED <<serving, message, link, wire, workerVars, slot, wakeup, mainVars>>

(* The drain event: what was queued has left the process.                  *)
FlushPending ==
  /\ link = "open" /\ blocked /\ Len(wire) < WireRoom
  /\ pending' = None
  /\ IF pending = None
     THEN blocked' = FALSE /\ UNCHANGED wire
     ELSE /\ wire' = Append(wire, pending)
          /\ blocked' \in (IF Len(wire) + 1 < WireRoom THEN BOOLEAN ELSE {TRUE})
  /\ UNCHANGED <<serving, message, link, workerVars, slot, wakeup, mainVars>>

(* close(), or a crash: what has not left the process is lost.             *)
BridgeStops == /\ serving
               /\ serving' = FALSE
               /\ link' = IF link = "none" THEN "none" ELSE "ended"
               /\ \E sent \in 0..Len(wire) : wire' = SubSeq(wire, 1, sent)
               /\ blocked' = FALSE /\ pending' = None
               /\ UNCHANGED <<message, workerVars, slot, wakeup, mainVars>>

BridgeStarts == /\ ~serving /\ message.epoch < MaxEpoch
                /\ serving' = TRUE
                /\ message' = [epoch |-> message.epoch + 1, revision |-> 0]
                /\ UNCHANGED <<link, wire, blocked, pending, workerVars, slot, wakeup, mainVars>>

-----------------------------------------------------------------------------
(* The worker thread.  A failed connect is tried again after a delay.      *)
SendEvent(kind, m) == worker' = "sending" /\ event' = Event(kind, m)

\* mutant: the revision accepted from an earlier Bridge is kept
ConnectRemembering == /\ worker = "connecting" /\ serving
                      /\ link' = "backlog"
                      /\ SendEvent("connected", None)
                      /\ UNCHANGED <<bridgeVars, wire, accepted, reported, slot, wakeup, mainVars>>

Connect == /\ worker = "connecting" /\ serving
           /\ link' = "backlog"
           /\ SendEvent("connected", None)
           /\ accepted' = None /\ reported' = None
           /\ UNCHANGED <<bridgeVars, wire, slot, wakeup, mainVars>>

Outdated(m) == accepted # None /\ m.revision <= accepted.revision

Reject(m) == /\ reported' = m
             /\ IF reported # m THEN SendEvent("rejected", m)
                ELSE UNCHANGED <<worker, event>>
             /\ UNCHANGED accepted

Admit(m) == /\ accepted' = m
            /\ reported' = None
            /\ SendEvent("snapshot", m)

ReadSnapshot == /\ worker = "reading" /\ wire # <<>>
                /\ wire' = Tail(wire)
                /\ IF Outdated(Head(wire)) THEN Reject(Head(wire)) ELSE Admit(Head(wire))
                /\ UNCHANGED <<bridgeVars, link, slot, wakeup, mainVars>>

ReadEnd == /\ worker = "reading" /\ wire = <<>> /\ link = "ended"
           /\ link' = "none"
           /\ SendEvent("disconnected", None)
           /\ UNCHANGED <<bridgeVars, wire, accepted, reported, slot, wakeup, mainVars>>

\* mutant: only a change of connection wakes the main loop
WakeForConnections == /\ worker = "waking"
                      /\ wakeup' = (wakeup \/ event.kind # "snapshot")
                      /\ worker' = IF event.kind = "disconnected" THEN "connecting" ELSE "reading"
                      /\ UNCHANGED <<bridgeVars, link, wire, event, accepted, reported, slot, mainVars>>

(* notify: send blocks while the channel is full, then one byte wakes the  *)
(* main loop; a full pipe already will.                                    *)
Send == /\ worker = "sending" /\ slot = None
        /\ slot' = event
        /\ worker' = "waking"
        /\ UNCHANGED <<bridgeVars, link, wire, event, accepted, reported, wakeup, mainVars>>

Wake == /\ worker = "waking"
        /\ wakeup' = TRUE
        /\ worker' = IF event.kind = "disconnected" THEN "connecting" ELSE "reading"
        /\ UNCHANGED <<bridgeVars, link, wire, event, accepted, reported, slot, mainVars>>

-----------------------------------------------------------------------------
(* The main loop                                                           *)
ClearWakeup == /\ main = "polling" /\ wakeup
               /\ wakeup' = FALSE
               /\ main' = "draining"
               /\ UNCHANGED <<bridgeVars, link, wire, workerVars, slot, shown>>

\* mutant: a lost connection forgets the snapshot
ReceivedForgetting(e) ==
  CASE e.kind = "snapshot"     -> [message |-> e.message, connected |-> TRUE]
    [] e.kind = "disconnected" -> [message |-> [epoch |-> 0, revision |-> 0], connected |-> FALSE]
    [] OTHER                   -> shown

Received(e) ==
  CASE e.kind = "snapshot"     -> [message |-> e.message, connected |-> TRUE]
    [] e.kind = "disconnected" -> [shown EXCEPT !.connected = FALSE]
    [] OTHER                   -> shown

Receive == /\ main = "draining" /\ slot # None
           /\ shown' = Received(slot)
           /\ slot' = None
           /\ UNCHANGED <<bridgeVars, link, wire, workerVars, wakeup, main>>

Drained == /\ main = "draining" /\ slot = None
           /\ main' = "polling"
           /\ UNCHANGED <<bridgeVars, link, wire, workerVars, slot, wakeup, shown>>

-----------------------------------------------------------------------------
Init == /\ serving = TRUE
        /\ message = [epoch |-> 1, revision |-> 0]
        /\ link = "none" /\ wire = <<>> /\ blocked = FALSE /\ pending = None
        /\ worker = "sending" /\ event = Event("disconnected", None)
        /\ accepted = None /\ reported = None
        /\ slot = None /\ wakeup = FALSE /\ main = "polling"
        /\ shown = [message |-> [epoch |-> 0, revision |-> 0], connected |-> FALSE]

Bridge == (\E revision \in 0..MaxRevision : Publish(revision)) \/ BridgeStops \/ BridgeStarts
Callback == Accept \/ FlushPending
Worker == Connect \/ ReadSnapshot \/ ReadEnd \/ Send \/ Wake
Main == ClearWakeup \/ Receive \/ Drained

Next == Bridge \/ Callback \/ Worker \/ Main

Spec == Init /\ [][Next]_vars

(* Socket callbacks run, and neither the worker nor the main loop stops.   *)
FairSpec == Spec /\ WF_vars(Callback) /\ WF_vars(Worker) /\ WF_vars(Main)

-----------------------------------------------------------------------------
(* Properties                                                              *)
Abstract == INSTANCE LatestSnapshot WITH latest <- message, Messages <- Message

(* Every variable stays in its range: at most WireRoom snapshots and one   *)
(* pending snapshot wait for a slow Renderer.                              *)
TypeOK == /\ serving \in BOOLEAN
          /\ message \in Message
          /\ link \in {"none", "backlog", "open", "ended"}
          /\ wire \in Seq(Message) /\ Len(wire) <= WireRoom
          /\ blocked \in BOOLEAN
          /\ pending \in Message \cup {None}
          /\ worker \in {"connecting", "sending", "waking", "reading"}
          /\ event \in Events
          /\ accepted \in Message \cup {None} /\ reported \in Message \cup {None}
          /\ slot \in Events \cup {None}
          /\ wakeup \in BOOLEAN
          /\ main \in {"polling", "draining"}
          /\ shown \in [message : Message, connected : BOOLEAN]

(* An event in the channel always has somebody coming for it: the worker   *)
(* that has yet to write its byte, the byte, or the draining main loop.    *)
NoLostWakeup == slot # None => worker = "waking" \/ wakeup \/ main = "draining"

(* The snapshot last published is never dropped for a connected Renderer:  *)
(* it is kept until the socket drains, or written, or the last one read.   *)
LatestOnItsWay ==
  ~Republishes /\ link = "open" =>
     \/ blocked /\ pending = message
     \/ pending = None /\ wire # <<>> /\ wire[Len(wire)] = message
     \/ pending = None /\ wire = <<>> /\ accepted = message

(* The publisher's coalescing never reorders or repeats: a Bridge whose    *)
(* revisions increase never has one rejected by the Renderer.              *)
NeverRejected == ~Republishes => event.kind # "rejected"

(* What the proofs add to these: how the connection's two ends fit each     *)
(* other, and that everything on its way is in the order of publication.    *)
ConnectionFits ==
  /\ link \in {"none", "backlog"} => wire = <<>>
  /\ link \in {"backlog", "open"} => serving
  /\ link # "open" => ~blocked /\ pending = None
  /\ ~blocked => pending = None
  /\ ~blocked /\ link = "open" => Len(wire) < WireRoom
  /\ link = "backlog" => accepted = None
  /\ worker = "connecting" => link = "none"
  /\ worker \in {"sending", "waking"} /\ event.kind = "disconnected" => link = "none"

InOrder ==
  ~Republishes =>
     /\ \A i, j \in DOMAIN wire : i < j => wire[i].revision < wire[j].revision
     /\ accepted # None => \A i \in DOMAIN wire : accepted.revision < wire[i].revision
     /\ link = "open" => \A i \in DOMAIN wire : wire[i].revision <= message.revision
     /\ link = "open" /\ accepted # None => accepted.revision <= message.revision
     /\ pending # None => \A i \in DOMAIN wire : wire[i].revision < pending.revision
     /\ pending # None /\ accepted # None => accepted.revision < pending.revision

(* What is on its way from the worker to the screen: the snapshot shown,   *)
(* the one in the channel, the one about to be sent.                       *)
InTransit(m) == \/ m = shown.message
                \/ slot # None /\ slot.kind = "snapshot" /\ m = slot.message
                \/ worker = "sending" /\ event.kind = "snapshot" /\ m = event.message

(* One connection carries the snapshots of one Bridge process...           *)
OneProcessPerLink ==
  /\ \A i, j \in DOMAIN wire : wire[i].epoch = wire[j].epoch
  /\ \A i \in DOMAIN wire : /\ wire[i].epoch <= message.epoch
                            /\ accepted # None => wire[i].epoch = accepted.epoch
                            /\ link = "open" => wire[i].epoch = message.epoch
                            /\ link = "ended" /\ serving => wire[i].epoch < message.epoch
  /\ pending # None => pending.epoch = message.epoch
  /\ accepted # None =>
       /\ accepted.epoch <= message.epoch
       /\ link = "open" => accepted.epoch = message.epoch
       /\ link \in {"none", "ended"} /\ serving => accepted.epoch < message.epoch

(* ... and what is in transit is older than everything behind it.          *)
Behind(m) ==
  /\ m.epoch <= message.epoch
  /\ accepted # None => ~Abstract!Older(accepted, m)
  /\ accepted = None => \A i \in DOMAIN wire : m.epoch < wire[i].epoch
  /\ accepted = None /\ link \in {"backlog", "open"} => m.epoch < message.epoch
  /\ link \in {"none", "ended"} /\ serving => m.epoch < message.epoch

TransitInOrder ==
  /\ \A m \in Message : InTransit(m) => Behind(m)
  /\ slot # None /\ slot.kind = "snapshot" => Abstract!Older(shown.message, slot.message)
  /\ worker = "sending" /\ event.kind = "snapshot" =>
       /\ event.message = accepted
       /\ Abstract!Older(shown.message, event.message)
       /\ slot # None /\ slot.kind = "snapshot" => Abstract!Older(slot.message, event.message)

(* Nothing is newer than the snapshot published last.                      *)
LatestIsNewest ==
  ~Republishes => /\ \A i \in DOMAIN wire : ~Abstract!Older(message, wire[i])
                  /\ \A m \in Message : InTransit(m) => ~Abstract!Older(message, m)

(* What the Renderer shows never goes back within a Bridge process,        *)
(* whatever revisions are published, nor to an earlier process.            *)
ShownAdvances ==
  [][shown'.message # shown.message => Abstract!Older(shown.message, shown'.message)]_vars

(* The channel implements the latest-snapshot register: its steps, and its *)
(* promise that the latest snapshot of a serving Bridge is shown.          *)
ImplementsLatestSnapshot == Abstract!Spec
=============================================================================
