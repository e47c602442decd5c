----------------------- MODULE SnapshotChannel_proofs -----------------------
(***************************************************************************)
(* Proofs about SnapshotChannel: its type invariant, that no event waits in *)
(* the channel without a wakeup, that the latest snapshot is always on its  *)
(* way to a connected Renderer, that the Renderer rejects none of them and  *)
(* never goes back to an older one, whatever revisions are published, and   *)
(* that every step is a step of the abstract register LatestSnapshot.       *)
(***************************************************************************)
EXTENDS SnapshotChannel, SequenceTheorems, TLAPS

(* Writing a snapshot to the wire puts it last and keeps the others.       *)
LEMMA WireAppend ==
  ASSUME NEW s \in Seq(Message), NEW m \in Message
  PROVE  /\ Append(s, m) \in Seq(Message)
         /\ Len(Append(s, m)) = Len(s) + 1
         /\ DOMAIN Append(s, m) = 1..(Len(s) + 1)
         /\ DOMAIN s = 1..Len(s)
         /\ \A i \in 1..Len(s) : Append(s, m)[i] = s[i]
         /\ Append(s, m)[Len(s) + 1] = m
         /\ Append(s, m) # <<>>
  OBVIOUS

(* Reading one takes the first and moves the others up.                    *)
LEMMA WireTail ==
  ASSUME NEW s \in Seq(Message), s # <<>>
  PROVE  /\ Head(s) \in Message
         /\ Head(s) = s[1]
         /\ Tail(s) \in Seq(Message)
         /\ Len(s) \in Nat \ {0}
         /\ Len(Tail(s)) = Len(s) - 1
         /\ DOMAIN s = 1..Len(s)
         /\ DOMAIN Tail(s) = 1..(Len(s) - 1)
         /\ \A i \in 1..(Len(s) - 1) : Tail(s)[i] = s[i + 1]
         /\ Tail(s) = <<>> => Len(s) = 1
<1>1. /\ Head(s) \in Message /\ Tail(s) \in Seq(Message)
      /\ Len(Tail(s)) = Len(s) - 1
      /\ \A i \in 1..Len(Tail(s)) : Tail(s)[i] = s[i + 1]
  BY HeadTailProperties
<1>2. Len(s) \in Nat \ {0} /\ DOMAIN s = 1..Len(s)
  BY EmptySeq, LenProperties
<1>3. DOMAIN Tail(s) = 1..(Len(s) - 1)
  BY <1>1, LenProperties
<1>4. Head(s) = s[1]
  OBVIOUS
<1>5. Tail(s) = <<>> => Len(s) = 1
  <2>1. Len(<<>>) = 0
    BY EmptySeq
  <2> QED
    BY <1>1, <1>2, <2>1
<1> QED
  BY <1>1, <1>2, <1>3, <1>4, <1>5

(* A connection that ends keeps a prefix of what was written.              *)
LEMMA WirePrefix ==
  ASSUME NEW s \in Seq(Message), NEW n \in 0..Len(s)
  PROVE  /\ SubSeq(s, 1, n) \in Seq(Message)
         /\ Len(SubSeq(s, 1, n)) = n
         /\ DOMAIN s = 1..Len(s)
         /\ DOMAIN SubSeq(s, 1, n) = 1..n
         /\ \A i \in 1..n : SubSeq(s, 1, n)[i] = s[i]
         /\ s = <<>> => SubSeq(s, 1, n) = <<>>
  OBVIOUS

-----------------------------------------------------------------------------
(* A snapshot written or kept leaves the connection well typed.            *)
LEMMA WriteLatestType ==
  ASSUME TypeOK, ConnectionFits, NEW m \in Message, WriteLatest(m),
         link \in {"backlog", "open"}
  PROVE  /\ wire' \in Seq(Message) /\ Len(wire') <= WireRoom
         /\ blocked' \in BOOLEAN
         /\ pending' \in Message \cup {None}
<1>1. CASE blocked
  BY <1>1 DEF TypeOK, WriteLatest
<1>2. CASE ~blocked
  <2>1. Len(wire) < WireRoom
    BY <1>2, ChannelAssumption DEF ConnectionFits, TypeOK
  <2>2. wire \in Seq(Message) /\ Len(wire) \in Nat /\ WireRoom \in Nat
    BY ChannelAssumption, LenProperties DEF TypeOK
  <2>3. /\ wire' = Append(wire, m) /\ pending' = pending
        /\ blocked' \in (IF Len(wire) + 1 < WireRoom THEN BOOLEAN ELSE {TRUE})
    BY <1>2 DEF WriteLatest
  <2>4. wire' \in Seq(Message) /\ Len(wire') = Len(wire) + 1
    BY <2>2, <2>3, WireAppend
  <2>5. blocked' \in BOOLEAN
    BY <2>3
  <2> QED
    BY <2>1, <2>2, <2>3, <2>4, <2>5 DEF TypeOK
<1> QED
  BY <1>1, <1>2

(* The type invariant, one step per action.                                *)
LEMMA TypeInit == Init => TypeOK /\ ConnectionFits
<1> SUFFICES ASSUME Init PROVE TypeOK /\ ConnectionFits
  OBVIOUS
<1>1. wire \in Seq(Message) /\ Len(wire) = 0
  BY EmptySeq DEF Init
<1>2. event \in Events /\ shown \in [message : Message, connected : BOOLEAN] /\ message \in Message
  BY ChannelAssumption DEF Init, Event, Events, Message
<1>3. TypeOK
  <2>1. Len(wire) <= WireRoom
    BY <1>1, ChannelAssumption
  <2> QED
    BY <1>1, <1>2, <2>1 DEF Init, TypeOK
<1>4. ConnectionFits
  BY DEF Init, ConnectionFits, Event
<1> QED
  BY <1>3, <1>4

LEMMA TypeStep == TypeOK /\ ConnectionFits /\ [Next]_vars => TypeOK'
<1> SUFFICES ASSUME TypeOK, ConnectionFits, [Next]_vars PROVE TypeOK'
  OBVIOUS
<1> USE DEF bridgeVars, workerVars, mainVars
<1>1. ASSUME NEW revision \in 0..MaxRevision, Publish(revision) PROVE TypeOK'
  <2>1. message' \in Message
    BY <1>1, ChannelAssumption DEF Publish, TypeOK, Message
  <2>2. CASE link = "open"
    BY <1>1, <2>1, <2>2, WriteLatestType DEF Publish, TypeOK
  <2>3. CASE link # "open"
    BY <1>1, <2>1, <2>3 DEF Publish, TypeOK
  <2> QED
    BY <2>2, <2>3
<1>2. CASE BridgeStops
  <2>1. PICK sent \in 0..Len(wire) : wire' = SubSeq(wire, 1, sent)
    BY <1>2 DEF BridgeStops
  <2>2. wire' \in Seq(Message) /\ Len(wire') <= WireRoom
    BY <2>1, WirePrefix, ChannelAssumption, LenProperties DEF TypeOK
  <2> QED
    BY <1>2, <2>2 DEF BridgeStops, TypeOK
<1>3. CASE BridgeStarts
  <2>1. message' \in Message
    BY <1>3, ChannelAssumption DEF BridgeStarts, TypeOK, Message
  <2> QED
    BY <1>3, <2>1 DEF BridgeStarts, TypeOK
<1>4. CASE Accept
  BY <1>4, WriteLatestType DEF Accept, TypeOK
<1>5. CASE FlushPending
  <2>1. CASE pending = None
    BY <1>5, <2>1 DEF FlushPending, TypeOK
  <2>2. CASE pending # None
    <3>1. pending \in Message /\ wire \in Seq(Message) /\ Len(wire) \in Nat /\ WireRoom \in Nat
      BY <2>2, ChannelAssumption, LenProperties DEF TypeOK
    <3>2. wire' \in Seq(Message) /\ Len(wire') = Len(wire) + 1
      BY <1>5, <2>2, <3>1, WireAppend DEF FlushPending
    <3>3. Len(wire) < WireRoom /\ blocked' \in BOOLEAN /\ pending' = None
      BY <1>5, <2>2 DEF FlushPending
    <3> QED
      BY <1>5, <3>1, <3>2, <3>3 DEF FlushPending, TypeOK
  <2> QED
    BY <2>1, <2>2
<1>6. CASE Connect
  BY <1>6 DEF Connect, SendEvent, Event, TypeOK, Events
<1>7. CASE ReadSnapshot
  <2>1. /\ Head(wire) \in Message
        /\ wire' \in Seq(Message)
        /\ Len(wire') <= WireRoom
    BY <1>7, WireTail, ChannelAssumption DEF ReadSnapshot, TypeOK
  <2>2. CASE Outdated(Head(wire))
    BY <1>7, <2>1, <2>2 DEF ReadSnapshot, Reject, SendEvent, Event, TypeOK, Events
  <2>3. CASE ~Outdated(Head(wire))
    BY <1>7, <2>1, <2>3 DEF ReadSnapshot, Admit, SendEvent, Event, TypeOK, Events
  <2> QED
    BY <2>2, <2>3
<1>8. CASE ReadEnd
  BY <1>8 DEF ReadEnd, SendEvent, Event, TypeOK, Events
<1>9. CASE Send
  BY <1>9 DEF Send, TypeOK
<1>10. CASE Wake
  BY <1>10 DEF Wake, TypeOK
<1>11. CASE ClearWakeup
  BY <1>11 DEF ClearWakeup, TypeOK
<1>12. CASE Receive
  <2>1. slot \in Events
    BY <1>12 DEF Receive, TypeOK
  <2>2. CASE slot.kind = "snapshot"
    <3>1. slot.message \in Message
      BY <2>1, <2>2 DEF Events
    <3>2. shown' = [message |-> slot.message, connected |-> TRUE]
      BY <1>12, <2>2 DEF Receive, Received
    <3> QED
      BY <1>12, <3>1, <3>2 DEF Receive, TypeOK
  <2>3. CASE slot.kind = "disconnected"
    <3>1. shown' = [shown EXCEPT !.connected = FALSE]
      BY <1>12, <2>3 DEF Receive, Received
    <3> QED
      BY <1>12, <3>1 DEF Receive, TypeOK
  <2>4. CASE slot.kind \notin {"snapshot", "disconnected"}
    <3>1. shown' = shown
      BY <1>12, <2>4 DEF Receive, Received
    <3> QED
      BY <1>12, <3>1 DEF Receive, TypeOK
  <2> QED
    BY <2>2, <2>3, <2>4
<1>13. CASE Drained
  BY <1>13 DEF Drained, TypeOK
<1>14. CASE UNCHANGED vars
  BY <1>14 DEF vars, TypeOK
<1> QED
  BY <1>1, <1>2, <1>3, <1>4, <1>5, <1>6, <1>7, <1>8, <1>9, <1>10, <1>11, <1>12, <1>13, <1>14
     DEF Next, Bridge, Callback, Worker, Main

(* How the two ends of the connection fit each other.                      *)
LEMMA FitsStep == TypeOK /\ ConnectionFits /\ [Next]_vars => ConnectionFits'
<1> SUFFICES ASSUME TypeOK, ConnectionFits, [Next]_vars PROVE ConnectionFits'
  OBVIOUS
<1> USE DEF bridgeVars, workerVars, mainVars
<1>0. wire \in Seq(Message) /\ Len(wire) \in Nat /\ WireRoom \in Nat \ {0}
  BY ChannelAssumption, LenProperties DEF TypeOK
<1>1. ASSUME NEW revision \in 0..MaxRevision, Publish(revision) PROVE ConnectionFits'
  <2>1. CASE link # "open"
    BY <1>1, <2>1 DEF Publish, ConnectionFits
  <2>2. CASE link = "open" /\ blocked
    BY <1>1, <2>2 DEF Publish, WriteLatest, ConnectionFits
  <2>3. CASE link = "open" /\ ~blocked
    <3>1. message' \in Message
      BY <1>1, ChannelAssumption DEF Publish, TypeOK, Message
    <3>2. /\ wire' = Append(wire, message') /\ pending' = pending /\ link' = link
          /\ blocked' \in (IF Len(wire) + 1 < WireRoom THEN BOOLEAN ELSE {TRUE})
      BY <1>1, <2>3 DEF Publish, WriteLatest
    <3>3. Len(wire') = Len(wire) + 1
      BY <1>0, <3>1, <3>2, WireAppend
    <3>4. ~blocked' => Len(wire') < WireRoom
      BY <3>2, <3>3
    <3> QED
      BY <1>1, <2>3, <3>2, <3>4 DEF Publish, ConnectionFits
  <2> QED
    BY <2>1, <2>2, <2>3
<1>2. CASE BridgeStops
  <2>1. PICK sent \in 0..Len(wire) : wire' = SubSeq(wire, 1, sent)
    BY <1>2 DEF BridgeStops
  <2>2. wire = <<>> => wire' = <<>>
    BY <1>0, <2>1, WirePrefix
  <2> QED
    BY <1>2, <2>2 DEF BridgeStops, ConnectionFits
<1>3. CASE BridgeStarts
  BY <1>3 DEF BridgeStarts, ConnectionFits
<1>4. CASE Accept
  <2>1. wire = <<>> /\ ~blocked /\ pending = None /\ message \in Message
    BY <1>4 DEF Accept, ConnectionFits, TypeOK
  <2>2. /\ wire' = Append(wire, message) /\ pending' = None /\ link' = "open"
        /\ blocked' \in (IF Len(wire) + 1 < WireRoom THEN BOOLEAN ELSE {TRUE})
    BY <1>4, <2>1 DEF Accept, WriteLatest
  <2>3. Len(wire') = Len(wire) + 1
    BY <1>0, <2>1, <2>2, WireAppend
  <2>4. ~blocked' => Len(wire') < WireRoom
    BY <2>2, <2>3
  <2> QED
    BY <1>4, <2>2, <2>4 DEF Accept, ConnectionFits
<1>5. CASE FlushPending
  <2>1. CASE pending = None
    BY <1>5, <2>1 DEF FlushPending, ConnectionFits
  <2>2. CASE pending # None
    <3>1. /\ wire' = Append(wire, pending) /\ pending \in Message
          /\ blocked' \in (IF Len(wire) + 1 < WireRoom THEN BOOLEAN ELSE {TRUE})
      BY <1>5, <2>2 DEF FlushPending, TypeOK
    <3>2. Len(wire') = Len(wire) + 1
      BY <1>0, <3>1, WireAppend
    <3>3. ~blocked' => Len(wire') < WireRoom
      BY <3>1, <3>2
    <3> QED
      BY <1>5, <3>3 DEF FlushPending, ConnectionFits
  <2> QED
    BY <2>1, <2>2
<1>6. CASE Connect
  BY <1>6 DEF Connect, SendEvent, Event, ConnectionFits
<1>7. CASE ReadSnapshot
  <2>1. wire # <<>> /\ link \in {"open", "ended"} /\ link' = link
    BY <1>7 DEF ReadSnapshot, ConnectionFits, TypeOK
  <2>2. Len(wire') = Len(wire) - 1
    BY <1>0, <1>7, WireTail DEF ReadSnapshot
  <2>3. /\ event' = event \/ event'.kind \in {"snapshot", "rejected"}
        /\ worker = "reading" /\ worker' \in {"reading", "sending"}
        /\ worker' = "sending" => event'.kind \in {"snapshot", "rejected"}
    BY <1>7 DEF ReadSnapshot, Reject, Admit, SendEvent, Event
  <2> QED
    BY <1>0, <1>7, <2>1, <2>2, <2>3 DEF ReadSnapshot, ConnectionFits
<1>8. CASE ReadEnd
  BY <1>8 DEF ReadEnd, SendEvent, Event, ConnectionFits
<1>9. CASE Send
  BY <1>9 DEF Send, ConnectionFits
<1>10. CASE Wake
  BY <1>10 DEF Wake, ConnectionFits
<1>11. CASE ClearWakeup \/ Receive \/ Drained
  BY <1>11 DEF ClearWakeup, Receive, Drained, ConnectionFits
<1>12. CASE UNCHANGED vars
  BY <1>12 DEF vars, ConnectionFits
<1> QED
  BY <1>1, <1>2, <1>3, <1>4, <1>5, <1>6, <1>7, <1>8, <1>9, <1>10, <1>11, <1>12
     DEF Next, Bridge, Callback, Worker, Main

(* Only the worker fills the channel, and only a draining main loop that   *)
(* finds it empty goes back to polling.                                    *)
LEMMA WakeupStep == NoLostWakeup /\ [Next]_vars => NoLostWakeup'
<1> SUFFICES ASSUME NoLostWakeup, [Next]_vars PROVE NoLostWakeup'
  OBVIOUS
<1> USE DEF bridgeVars, workerVars, mainVars
<1>1. CASE Bridge \/ Callback
  BY <1>1 DEF Bridge, Publish, BridgeStops, BridgeStarts, Callback, Accept, FlushPending, NoLostWakeup
<1>2. CASE Connect \/ ReadSnapshot \/ ReadEnd
  BY <1>2 DEF Connect, ReadSnapshot, ReadEnd, NoLostWakeup
<1>3. CASE Send
  BY <1>3 DEF Send, NoLostWakeup
<1>4. CASE Wake
  BY <1>4 DEF Wake, NoLostWakeup
<1>5. CASE ClearWakeup
  BY <1>5 DEF ClearWakeup, NoLostWakeup
<1>6. CASE Receive
  BY <1>6 DEF Receive, NoLostWakeup
<1>7. CASE Drained
  BY <1>7 DEF Drained, NoLostWakeup
<1>8. CASE UNCHANGED vars
  BY <1>8 DEF vars, NoLostWakeup
<1> QED
  BY <1>1, <1>2, <1>3, <1>4, <1>5, <1>6, <1>7, <1>8 DEF Next, Worker, Main

-----------------------------------------------------------------------------
(* Everything on its way is a snapshot with a number for its revision.     *)
LEMMA OnItsWay ==
  ASSUME TypeOK
  PROVE  /\ wire \in Seq(Message) /\ Len(wire) \in Nat /\ DOMAIN wire = 1..Len(wire)
         /\ \A i \in DOMAIN wire : wire[i] \in Message /\ wire[i].revision \in Nat
         /\ message \in Message /\ message.revision \in Nat
         /\ accepted # None => accepted \in Message /\ accepted.revision \in Nat
         /\ pending # None => pending \in Message /\ pending.revision \in Nat
<1>1. \A m \in Message : m.revision \in Nat
  BY DEF Message
<1>2. wire \in Seq(Message) /\ Len(wire) \in Nat /\ DOMAIN wire = 1..Len(wire)
  BY LenProperties DEF TypeOK
<1>3. \A i \in DOMAIN wire : wire[i] \in Message
  BY <1>2, ElementOfSeq
<1> QED
  BY <1>1, <1>2, <1>3 DEF TypeOK

(* When revisions increase, the first snapshot on the wire is a new one.   *)
LEMMA FirstIsNew ==
  ASSUME TypeOK, InOrder, ~Republishes, wire # <<>>
  PROVE  ~Outdated(Head(wire))
<1>1. Head(wire) = wire[1] /\ 1 \in DOMAIN wire /\ wire[1] \in Message
  BY WireTail DEF TypeOK
<1>2. accepted # None => accepted.revision < wire[1].revision /\ accepted \in Message
  BY <1>1 DEF InOrder, TypeOK
<1> QED
  BY <1>1, <1>2 DEF Outdated, Message

(* A snapshot newer than all before it may be appended to the wire.        *)
LEMMA AppendInOrder ==
  ASSUME TypeOK, NEW m \in Message,
         \A i, j \in DOMAIN wire : i < j => wire[i].revision < wire[j].revision,
         \A i \in DOMAIN wire : wire[i].revision < m.revision,
         NEW a, a # None => a.revision < m.revision,
         a # None => \A i \in DOMAIN wire : a.revision < wire[i].revision
  PROVE  LET w == Append(wire, m)
         IN /\ \A i, j \in DOMAIN w : i < j => w[i].revision < w[j].revision
            /\ \A i \in DOMAIN w : w[i].revision <= m.revision
            /\ a # None => \A i \in DOMAIN w : a.revision < w[i].revision
            /\ w # <<>> /\ w[Len(w)] = m
<1> DEFINE w == Append(wire, m)
<1>1. /\ wire \in Seq(Message) /\ Len(wire) \in Nat /\ DOMAIN wire = 1..Len(wire)
      /\ \A i \in 1..Len(wire) : wire[i] \in Message /\ wire[i].revision \in Nat
      /\ m.revision \in Nat
  BY OnItsWay DEF Message
<1>2. /\ DOMAIN w = 1..(Len(wire) + 1) /\ Len(w) = Len(wire) + 1 /\ w # <<>>
      /\ \A i \in 1..Len(wire) : w[i] = wire[i]
      /\ w[Len(wire) + 1] = m
  BY <1>1, WireAppend
<1> HIDE DEF w
<1>3. ASSUME NEW i \in DOMAIN w, NEW j \in DOMAIN w, i < j
      PROVE  w[i].revision < w[j].revision
  <2>1. i \in 1..Len(wire) /\ w[i] = wire[i]
    BY <1>1, <1>2, <1>3
  <2>2. CASE j \in 1..Len(wire)
    BY <1>1, <1>2, <1>3, <2>1, <2>2
  <2>3. CASE j = Len(wire) + 1
    BY <1>1, <1>2, <2>1, <2>3
  <2> QED
    BY <1>1, <1>2, <2>2, <2>3
<1>4. ASSUME NEW i \in DOMAIN w PROVE w[i].revision <= m.revision
  BY <1>1, <1>2
<1>5. ASSUME NEW i \in DOMAIN w, a # None PROVE a.revision < w[i].revision
  BY <1>1, <1>2, <1>5
<1> QED
  BY <1>2, <1>3, <1>4, <1>5 DEF w

(* The order on the wire and the latest snapshot's place are kept together:*)
(* a snapshot flushed from `pending' is the newest because it is latest.   *)
LEMMA OrderInit == Init => InOrder /\ LatestOnItsWay
BY EmptySeq DEF Init, InOrder, LatestOnItsWay

LEMMA OrderStep ==
  TypeOK /\ ConnectionFits /\ InOrder /\ LatestOnItsWay /\ [Next]_vars
    => InOrder' /\ LatestOnItsWay'
<1> SUFFICES ASSUME TypeOK, ConnectionFits, InOrder, LatestOnItsWay, [Next]_vars, ~Republishes
             PROVE  InOrder' /\ LatestOnItsWay'
  BY DEF InOrder, LatestOnItsWay
<1> USE DEF bridgeVars, workerVars, mainVars
<1>0. /\ wire \in Seq(Message) /\ Len(wire) \in Nat /\ DOMAIN wire = 1..Len(wire)
      /\ \A i \in DOMAIN wire : wire[i] \in Message /\ wire[i].revision \in Nat
      /\ message \in Message /\ message.revision \in Nat
      /\ accepted # None => accepted \in Message /\ accepted.revision \in Nat
      /\ pending # None => pending \in Message /\ pending.revision \in Nat
  BY OnItsWay
<1>1. ASSUME NEW revision \in 0..MaxRevision, Publish(revision)
      PROVE  InOrder' /\ LatestOnItsWay'
  <2>1. /\ message' \in Message /\ message'.revision = message.revision + 1
        /\ link' = link /\ accepted' = accepted
    BY <1>1, <1>0, ChannelAssumption DEF Publish, NextRevision, Message
  <2>2. CASE link # "open"
    <3>1. wire' = wire /\ pending' = None /\ pending = None
      BY <1>1, <2>2 DEF Publish, ConnectionFits
    <3> QED
      BY <2>1, <2>2, <3>1 DEF InOrder, LatestOnItsWay
  <2>3. CASE link = "open" /\ blocked
    <3>1. wire' = wire /\ pending' = message' /\ blocked' = blocked
      BY <1>1, <2>3 DEF Publish, WriteLatest
    <3> QED
      BY <1>0, <2>1, <2>3, <3>1 DEF InOrder, LatestOnItsWay
  <2>4. CASE link = "open" /\ ~blocked
    <3>1. wire' = Append(wire, message') /\ pending' = None /\ pending = None
      BY <1>1, <2>4 DEF Publish, WriteLatest, ConnectionFits
    <3>2. /\ \A i \in DOMAIN wire : wire[i].revision < message'.revision
          /\ accepted # None => accepted.revision < message'.revision
          /\ accepted # None => \A i \in DOMAIN wire : accepted.revision < wire[i].revision
          /\ \A i, j \in DOMAIN wire : i < j => wire[i].revision < wire[j].revision
      BY <1>0, <2>1, <2>4 DEF InOrder
    <3>3. /\ \A i, j \in DOMAIN wire' : i < j => wire'[i].revision < wire'[j].revision
          /\ \A i \in DOMAIN wire' : wire'[i].revision <= message'.revision
          /\ accepted # None => \A i \in DOMAIN wire' : accepted.revision < wire'[i].revision
          /\ wire' # <<>> /\ wire'[Len(wire')] = message'
      BY <2>1, <3>1, <3>2, AppendInOrder
    <3>4. accepted # None => accepted.revision <= message'.revision
      BY <1>0, <2>1, <3>2
    <3> QED
      BY <2>1, <3>1, <3>3, <3>4 DEF InOrder, LatestOnItsWay
  <2> QED
    BY <2>2, <2>3, <2>4
<1>2. CASE BridgeStops
  <2>1. PICK sent \in 0..Len(wire) : wire' = SubSeq(wire, 1, sent)
    BY <1>2 DEF BridgeStops
  <2>2. DOMAIN wire' = 1..sent /\ \A i \in 1..sent : wire'[i] = wire[i]
    BY <1>0, <2>1, WirePrefix
  <2>3. link' # "open" /\ pending' = None /\ accepted' = accepted
    BY <1>2 DEF BridgeStops
  <2> QED
    BY <1>0, <2>2, <2>3 DEF InOrder, LatestOnItsWay
<1>3. CASE BridgeStarts
  BY <1>3 DEF BridgeStarts, ConnectionFits, InOrder, LatestOnItsWay
<1>4. CASE Accept
  <2>1. /\ wire = <<>> /\ ~blocked /\ pending' = None /\ accepted = None
        /\ wire' = Append(wire, message) /\ message' = message /\ accepted' = None
    BY <1>4 DEF Accept, WriteLatest, ConnectionFits
  <2>2. DOMAIN wire = {}
    BY <2>1
  <2>3. /\ \A i, j \in DOMAIN wire' : i < j => wire'[i].revision < wire'[j].revision
        /\ \A i \in DOMAIN wire' : wire'[i].revision <= message.revision
        /\ wire' # <<>> /\ wire'[Len(wire')] = message
    BY <1>0, <2>1, <2>2, AppendInOrder
  <2> QED
    BY <2>1, <2>3 DEF InOrder, LatestOnItsWay
<1>5. CASE FlushPending
  <2>0. message' = message /\ accepted' = accepted /\ link' = link /\ pending' = None /\ link = "open"
    BY <1>5 DEF FlushPending
  <2>1. CASE pending = None
    <3>1. wire' = wire /\ message # None
      BY <1>0, <1>5, <2>1, ChannelAssumption DEF FlushPending
    <3> QED
      BY <2>0, <2>1, <3>1 DEF InOrder, LatestOnItsWay
  <2>2. CASE pending # None
    <3>1. pending = message /\ wire' = Append(wire, message)
      BY <1>5, <2>0, <2>2 DEF FlushPending, LatestOnItsWay
    <3>2. /\ \A i, j \in DOMAIN wire' : i < j => wire'[i].revision < wire'[j].revision
          /\ \A i \in DOMAIN wire' : wire'[i].revision <= message.revision
          /\ accepted # None => \A i \in DOMAIN wire' : accepted.revision < wire'[i].revision
          /\ wire' # <<>> /\ wire'[Len(wire')] = message
      BY <1>0, <2>2, <3>1, AppendInOrder DEF InOrder
    <3> QED
      BY <2>0, <3>2 DEF InOrder, LatestOnItsWay
  <2> QED
    BY <2>1, <2>2
<1>6. CASE Connect
  BY <1>6 DEF Connect, ConnectionFits, InOrder, LatestOnItsWay
<1>7. CASE ReadSnapshot
  <2>1. /\ wire # <<>> /\ wire' = Tail(wire) /\ accepted' = Head(wire)
        /\ message' = message /\ pending' = pending /\ link' = link /\ blocked' = blocked
    BY <1>7, FirstIsNew DEF ReadSnapshot, Admit
  <2>2. /\ Head(wire) = wire[1] /\ Len(wire) \in Nat \ {0} /\ Len(wire') = Len(wire) - 1
        /\ DOMAIN wire' = 1..(Len(wire) - 1)
        /\ \A i \in 1..(Len(wire) - 1) : wire'[i] = wire[i + 1]
        /\ wire' = <<>> => Len(wire) = 1
    BY <1>0, <2>1, WireTail
  <2>3. \A i \in DOMAIN wire' : i + 1 \in DOMAIN wire /\ wire'[i] = wire[i + 1]
    BY <1>0, <2>2
  <2>4. \A i, j \in DOMAIN wire' : i < j => wire'[i].revision < wire'[j].revision
    <3> SUFFICES ASSUME NEW i \in DOMAIN wire', NEW j \in DOMAIN wire', i < j
                 PROVE  wire'[i].revision < wire'[j].revision
      OBVIOUS
    <3>1. i + 1 < j + 1
      BY <2>2
    <3> QED
      BY <2>3, <3>1 DEF InOrder
  <2>5. \A i \in DOMAIN wire' : accepted'.revision < wire'[i].revision
    <3> SUFFICES ASSUME NEW i \in DOMAIN wire' PROVE accepted'.revision < wire'[i].revision
      OBVIOUS
    <3>1. 1 \in DOMAIN wire /\ 1 < i + 1
      BY <1>0, <2>2
    <3> QED
      BY <2>1, <2>2, <2>3, <3>1 DEF InOrder
  <2>6. 1 \in DOMAIN wire
    BY <1>0, <2>2
  <2>7. InOrder'
    BY <1>0, <2>1, <2>2, <2>3, <2>4, <2>5, <2>6 DEF InOrder
  <2>8. LatestOnItsWay'
    <3> SUFFICES ASSUME link = "open"
                 PROVE  \/ blocked /\ pending = message
                        \/ pending = None /\ wire' # <<>> /\ wire'[Len(wire')] = message
                        \/ pending = None /\ wire' = <<>> /\ accepted' = message
      BY <2>1 DEF LatestOnItsWay
    <3>1. CASE blocked /\ pending = message
      BY <3>1
    <3>2. CASE pending = None /\ wire[Len(wire)] = message
      <4>1. CASE wire' = <<>>
        BY <2>1, <2>2, <3>2, <4>1
      <4>2. CASE wire' # <<>>
        <5>1. Len(wire') \in Nat \ {0}
          BY <1>0, <2>1, <4>2, WireTail, EmptySeq
        <5>2. wire'[Len(wire')] = wire[Len(wire)]
          BY <2>2, <5>1
        <5> QED
          BY <3>2, <4>2, <5>2
      <4> QED
        BY <4>1, <4>2
    <3> QED
      BY <2>1, <3>1, <3>2 DEF LatestOnItsWay
  <2> QED
    BY <2>7, <2>8
<1>8. CASE ReadEnd
  BY <1>8 DEF ReadEnd, InOrder, LatestOnItsWay
<1>9. CASE Send \/ Wake \/ Main
  BY <1>9 DEF Send, Wake, Main, ClearWakeup, Receive, Drained, InOrder, LatestOnItsWay
<1>10. CASE UNCHANGED vars
  BY <1>10 DEF vars, InOrder, LatestOnItsWay
<1> QED
  BY <1>1, <1>2, <1>3, <1>4, <1>5, <1>6, <1>7, <1>8, <1>9, <1>10
     DEF Next, Bridge, Callback, Worker

(* The only event that reports a rejection is sent for an outdated one.    *)
LEMMA RejectedStep == TypeOK /\ InOrder /\ NeverRejected /\ [Next]_vars => NeverRejected'
<1> SUFFICES ASSUME TypeOK, InOrder, NeverRejected, [Next]_vars, ~Republishes
             PROVE  event'.kind # "rejected"
  BY DEF NeverRejected
<1> USE DEF bridgeVars, workerVars, mainVars
<1>1. CASE Bridge \/ Callback
  BY <1>1 DEF Bridge, Publish, BridgeStops, BridgeStarts, Callback, Accept, FlushPending, NeverRejected
<1>2. CASE Connect \/ ReadEnd
  BY <1>2 DEF Connect, ReadEnd, SendEvent, Event
<1>3. CASE ReadSnapshot
  BY <1>3, FirstIsNew DEF ReadSnapshot, Admit, SendEvent, Event
<1>4. CASE Send \/ Wake \/ Main
  BY <1>4 DEF Send, Wake, Main, ClearWakeup, Receive, Drained, NeverRejected
<1>5. CASE UNCHANGED vars
  BY <1>5 DEF vars, NeverRejected
<1> QED
  BY <1>1, <1>2, <1>3, <1>4, <1>5 DEF Next, Worker

-----------------------------------------------------------------------------
(* Every reachable state is well typed: in particular at most WireRoom     *)
(* snapshots wait for a slow Renderer, whatever the Bridge publishes.      *)
THEOREM TypeCorrect == Spec => []TypeOK
<1>1. Init => TypeOK /\ ConnectionFits
  BY TypeInit
<1>2. TypeOK /\ ConnectionFits /\ [Next]_vars => TypeOK' /\ ConnectionFits'
  BY TypeStep, FitsStep
<1> QED
  BY <1>1, <1>2, PTL DEF Spec

(* No event waits in the channel without somebody coming for it.           *)
THEOREM WakeupsKept == Spec => []NoLostWakeup
<1>1. Init => NoLostWakeup
  BY DEF Init, NoLostWakeup
<1> QED
  BY <1>1, WakeupStep, PTL DEF Spec

(* Backpressure never drops the snapshot published last.                   *)
THEOREM LatestKept == Spec => []LatestOnItsWay
<1>1. Init => TypeOK /\ ConnectionFits /\ InOrder /\ LatestOnItsWay
  BY TypeInit, OrderInit
<1>2. TypeOK /\ ConnectionFits /\ InOrder /\ LatestOnItsWay /\ [Next]_vars
        => TypeOK' /\ ConnectionFits' /\ InOrder' /\ LatestOnItsWay'
  BY TypeStep, FitsStep, OrderStep
<1> QED
  BY <1>1, <1>2, PTL DEF Spec

(* The Renderer never rejects a snapshot of a Bridge whose revisions grow. *)
THEOREM NothingRejected == Spec => []NeverRejected
<1> DEFINE Inv == TypeOK /\ ConnectionFits /\ InOrder /\ LatestOnItsWay /\ NeverRejected
<1>1. Init => Inv
  BY TypeInit, OrderInit DEF Init, NeverRejected, Event
<1>2. Inv /\ [Next]_vars => Inv'
  BY TypeStep, FitsStep, OrderStep, RejectedStep
<1>3. Inv => NeverRejected
  OBVIOUS
<1> QED
  BY <1>1, <1>2, <1>3, PTL DEF Spec

-----------------------------------------------------------------------------
LEMMA MessageNumbers == \A m \in Message : m.epoch \in Nat /\ m.revision \in Nat
BY ChannelAssumption DEF Message

(* Every snapshot on the wire was there before, or has just been written.  *)
LEMMA AppendElements ==
  ASSUME TypeOK, NEW m \in Message
  PROVE  \A i \in DOMAIN Append(wire, m) :
            \/ Append(wire, m)[i] = m
            \/ \E j \in DOMAIN wire : Append(wire, m)[i] = wire[j]
<1> DEFINE w == Append(wire, m)
<1>1. /\ DOMAIN w = 1..(Len(wire) + 1) /\ DOMAIN wire = 1..Len(wire) /\ Len(wire) \in Nat
      /\ \A i \in 1..Len(wire) : w[i] = wire[i]
      /\ w[Len(wire) + 1] = m
  BY WireAppend, OnItsWay
<1> HIDE DEF w
<1>2. \A i \in DOMAIN w : w[i] = m \/ \E j \in DOMAIN wire : w[i] = wire[j]
  BY <1>1
<1> QED
  BY <1>2 DEF w

LEMMA TailElements ==
  ASSUME TypeOK, wire # <<>>
  PROVE  /\ 1 \in DOMAIN wire /\ Head(wire) = wire[1] /\ wire[1] \in Message
         /\ \A i \in DOMAIN Tail(wire) : \E j \in DOMAIN wire : Tail(wire)[i] = wire[j]
<1> DEFINE w == Tail(wire)
<1>1. /\ Len(wire) \in Nat \ {0} /\ DOMAIN wire = 1..Len(wire) /\ Head(wire) = wire[1]
      /\ DOMAIN w = 1..(Len(wire) - 1)
      /\ \A i \in 1..(Len(wire) - 1) : w[i] = wire[i + 1]
      /\ Head(wire) \in Message
  BY WireTail, OnItsWay
<1> HIDE DEF w
<1>2. \A i \in DOMAIN w : i + 1 \in DOMAIN wire /\ w[i] = wire[i + 1]
  BY <1>1
<1> QED
  BY <1>1, <1>2 DEF w

LEMMA PrefixElements ==
  ASSUME TypeOK, NEW n \in 0..Len(wire)
  PROVE  \A i \in DOMAIN SubSeq(wire, 1, n) :
            i \in DOMAIN wire /\ SubSeq(wire, 1, n)[i] = wire[i]
<1> DEFINE w == SubSeq(wire, 1, n)
<1>1. /\ DOMAIN w = 1..n /\ DOMAIN wire = 1..Len(wire) /\ Len(wire) \in Nat
      /\ \A i \in 1..n : w[i] = wire[i]
  BY WirePrefix, OnItsWay
<1> HIDE DEF w
<1>2. \A i \in DOMAIN w : i \in DOMAIN wire /\ w[i] = wire[i]
  BY <1>1
<1> QED
  BY <1>2 DEF w

-----------------------------------------------------------------------------
(* What each step does to the wire and the snapshots behind the worker.    *)

(* A connected Bridge writes or keeps a snapshot of its own epoch.         *)
Written == /\ \A i \in DOMAIN wire' :
                \/ wire'[i].epoch = message'.epoch
                \/ \E j \in DOMAIN wire : wire'[i] = wire[j]
           /\ pending' # None => pending'.epoch = message'.epoch
           /\ message'.epoch = message.epoch
           /\ serving' = serving /\ accepted' = accepted

LEMMA WritesOwnEpoch ==
  ASSUME TypeOK, ConnectionFits, OneProcessPerLink,
         \/ \E revision \in 0..MaxRevision : Publish(revision)
         \/ Accept \/ FlushPending
  PROVE  Written
<1> USE DEF bridgeVars, workerVars, mainVars
<1>1. ASSUME NEW revision \in 0..MaxRevision, Publish(revision) PROVE Written
  <2>1. message' \in Message /\ message'.epoch = message.epoch
    BY <1>1 DEF Publish, TypeOK, Message
  <2>2. CASE link # "open"
    BY <1>1, <2>1, <2>2 DEF Publish, Written, OneProcessPerLink
  <2>3. CASE link = "open" /\ blocked
    BY <1>1, <2>1, <2>3 DEF Publish, WriteLatest, Written
  <2>4. CASE link = "open" /\ ~blocked
    <3>1. wire' = Append(wire, message') /\ pending' = pending
      BY <1>1, <2>4 DEF Publish, WriteLatest
    <3>2. \A i \in DOMAIN wire' : wire'[i] = message' \/ \E j \in DOMAIN wire : wire'[i] = wire[j]
      BY <2>1, <3>1, AppendElements
    <3> QED
      BY <1>1, <2>1, <3>1, <3>2 DEF Publish, Written, OneProcessPerLink
  <2> QED
    BY <2>2, <2>3, <2>4
<1>2. CASE Accept
  <2>1. wire' = Append(wire, message) /\ pending' = pending /\ message' = message
    BY <1>2 DEF Accept, WriteLatest, ConnectionFits
  <2>2. \A i \in DOMAIN wire' : wire'[i] = message \/ \E j \in DOMAIN wire : wire'[i] = wire[j]
    BY <2>1, AppendElements DEF TypeOK
  <2> QED
    BY <1>2, <2>1, <2>2 DEF Accept, Written, OneProcessPerLink
<1>3. CASE FlushPending
  <2>1. CASE pending = None
    BY <1>3, <2>1 DEF FlushPending, Written
  <2>2. CASE pending # None
    <3>1. wire' = Append(wire, pending) /\ pending \in Message /\ pending' = None
      BY <1>3, <2>2 DEF FlushPending, TypeOK
    <3>2. \A i \in DOMAIN wire' : wire'[i] = pending \/ \E j \in DOMAIN wire : wire'[i] = wire[j]
      BY <3>1, AppendElements
    <3> QED
      BY <1>3, <2>2, <3>1, <3>2 DEF FlushPending, Written, OneProcessPerLink
  <2> QED
    BY <2>1, <2>2
<1> QED
  BY <1>1, <1>2, <1>3

(* One connection carries the snapshots of one Bridge process.             *)
LEMMA OneProcessStep ==
  TypeOK /\ ConnectionFits /\ OneProcessPerLink /\ [Next]_vars => OneProcessPerLink'
<1> SUFFICES ASSUME TypeOK, ConnectionFits, OneProcessPerLink, [Next]_vars
             PROVE  OneProcessPerLink'
  OBVIOUS
<1> USE DEF bridgeVars, workerVars, mainVars
<1>0. /\ wire \in Seq(Message) /\ DOMAIN wire = 1..Len(wire)
      /\ \A i \in DOMAIN wire : wire[i].epoch \in Nat
      /\ message.epoch \in Nat
      /\ accepted # None => accepted.epoch \in Nat
  BY OnItsWay, MessageNumbers
<1>1. CASE (\E revision \in 0..MaxRevision : Publish(revision)) \/ Accept \/ FlushPending
  <2>1. CASE link' # "open"
    <3>1. /\ link' = link /\ wire' = wire /\ pending' = pending
          /\ accepted' = accepted /\ serving' = serving /\ message'.epoch = message.epoch
      BY <1>1, <2>1, WritesOwnEpoch DEF Publish, Accept, FlushPending, Written
    <3> QED
      BY <2>1, <3>1 DEF OneProcessPerLink
  <2>2. CASE link' = "open"
    <3>1. Written /\ link \in {"backlog", "open"}
      BY <1>1, <2>2, WritesOwnEpoch DEF Publish, Accept, FlushPending
    <3>2. \A i \in DOMAIN wire : wire[i].epoch = message.epoch
      <4>1. CASE link = "open"
        BY <4>1 DEF OneProcessPerLink
      <4>2. CASE link = "backlog"
        BY <4>2 DEF ConnectionFits
      <4> QED
        BY <3>1, <4>1, <4>2
    <3>3. \A i \in DOMAIN wire' : wire'[i].epoch = message'.epoch
      BY <3>1, <3>2 DEF Written
    <3>4. accepted' # None => accepted'.epoch = message'.epoch
      BY <3>1 DEF Written, OneProcessPerLink, ConnectionFits
    <3> QED
      BY <1>0, <2>2, <3>1, <3>3, <3>4 DEF Written, OneProcessPerLink
  <2> QED
    BY <2>1, <2>2
<1>2. CASE BridgeStops
  <2>1. PICK sent \in 0..Len(wire) : wire' = SubSeq(wire, 1, sent)
    BY <1>2 DEF BridgeStops
  <2>2. \A i \in DOMAIN wire' : i \in DOMAIN wire /\ wire'[i] = wire[i]
    BY <2>1, PrefixElements
  <2> QED
    BY <1>2, <2>2 DEF BridgeStops, OneProcessPerLink
<1>3. CASE BridgeStarts
  <2>1. /\ message'.epoch = message.epoch + 1 /\ link \notin {"backlog", "open"}
        /\ pending = None
    BY <1>3 DEF BridgeStarts, ConnectionFits
  <2>2. \A i \in DOMAIN wire : wire[i].epoch < message'.epoch
    BY <1>0, <2>1 DEF OneProcessPerLink
  <2>3. accepted # None => accepted.epoch < message'.epoch
    BY <1>0, <2>1 DEF OneProcessPerLink
  <2>4. /\ wire' = wire /\ link' = link /\ accepted' = accepted /\ pending' = pending
    BY <1>3 DEF BridgeStarts
  <2> QED
    BY <1>0, <2>1, <2>2, <2>3, <2>4 DEF OneProcessPerLink
<1>4. CASE Connect
  <2>1. wire' = <<>> /\ DOMAIN wire' = {} /\ accepted' = None /\ pending' = None
    BY <1>4 DEF Connect, ConnectionFits
  <2> QED
    BY <2>1 DEF OneProcessPerLink
<1>5. CASE ReadSnapshot
  <2>1. /\ wire # <<>> /\ wire' = Tail(wire) /\ link' = link /\ serving' = serving
        /\ message' = message /\ pending' = pending
        /\ accepted' = accepted \/ accepted' = Head(wire)
    BY <1>5 DEF ReadSnapshot, Reject, Admit
  <2>2. /\ 1 \in DOMAIN wire /\ Head(wire) = wire[1]
        /\ \A i \in DOMAIN wire' : \E j \in DOMAIN wire : wire'[i] = wire[j]
    BY <2>1, TailElements
  <2>3. CASE accepted' = accepted
    BY <2>1, <2>2, <2>3 DEF OneProcessPerLink
  <2>4. CASE accepted' = wire[1]
    <3>1. link \in {"open", "ended"}
      BY <2>1 DEF ConnectionFits, TypeOK
    <3> QED
      BY <2>1, <2>2, <2>4, <3>1 DEF OneProcessPerLink
  <2> QED
    BY <2>1, <2>2, <2>3, <2>4
<1>6. CASE ReadEnd
  BY <1>6 DEF ReadEnd, OneProcessPerLink
<1>7. CASE Send \/ Wake \/ Main
  BY <1>7 DEF Send, Wake, Main, ClearWakeup, Receive, Drained, OneProcessPerLink
<1>8. CASE UNCHANGED vars
  BY <1>8 DEF vars, OneProcessPerLink
<1> QED
  BY <1>1, <1>2, <1>3, <1>4, <1>5, <1>6, <1>7, <1>8 DEF Next, Bridge, Callback, Worker

-----------------------------------------------------------------------------
(* A step of the Bridge or a socket callback, or a connect, leaves behind  *)
(* what was behind.                                                        *)
LEMMA StaysBehind ==
  ASSUME TypeOK, ConnectionFits, OneProcessPerLink, NEW m \in Message, Behind(m),
         Bridge \/ Callback \/ Connect
  PROVE  Behind(m)'
<1> USE DEF bridgeVars, workerVars, mainVars
<1>0. /\ m.epoch \in Nat /\ message.epoch \in Nat
      /\ wire \in Seq(Message) /\ \A i \in DOMAIN wire : wire[i].epoch \in Nat
  BY OnItsWay, MessageNumbers
<1>1. CASE (\E revision \in 0..MaxRevision : Publish(revision)) \/ Accept \/ FlushPending
  <2>1. Written
    BY <1>1, WritesOwnEpoch
  <2>2. CASE link' # "open"
    <3>1. link' = link /\ wire' = wire
      BY <1>1, <2>2 DEF Publish, Accept, FlushPending
    <3> QED
      BY <2>1, <3>1 DEF Written, Behind
  <2>3. CASE link' = "open"
    <3>1. link \in {"backlog", "open"}
      BY <1>1, <2>3 DEF Publish, Accept, FlushPending
    <3> QED
      BY <2>1, <2>3, <3>1 DEF Written, Behind
  <2> QED
    BY <2>2, <2>3
<1>2. CASE BridgeStops
  <2>1. PICK sent \in 0..Len(wire) : wire' = SubSeq(wire, 1, sent)
    BY <1>2 DEF BridgeStops
  <2>2. \A i \in DOMAIN wire' : i \in DOMAIN wire /\ wire'[i] = wire[i]
    BY <2>1, PrefixElements
  <2>3. /\ message' = message /\ accepted' = accepted /\ serving' = FALSE
        /\ link' \notin {"backlog", "open"}
    BY <1>2 DEF BridgeStops
  <2> QED
    BY <2>2, <2>3 DEF Behind
<1>3. CASE BridgeStarts
  <2>1. /\ message'.epoch = message.epoch + 1 /\ link' = link /\ wire' = wire
        /\ accepted' = accepted
    BY <1>3 DEF BridgeStarts
  <2>2. m.epoch < message'.epoch
    BY <1>0, <2>1 DEF Behind
  <2>3. m.epoch <= message'.epoch
    BY <1>0, <2>1, <2>2
  <2> QED
    BY <2>1, <2>2, <2>3 DEF Behind
<1>4. CASE Connect
  <2>1. /\ DOMAIN wire' = {} /\ accepted' = None /\ message' = message
        /\ link = "none" /\ serving /\ link' = "backlog"
    BY <1>4 DEF Connect, ConnectionFits
  <2> QED
    BY <2>1 DEF Behind
<1> QED
  BY <1>1, <1>2, <1>3, <1>4 DEF Bridge, Callback

(* Admitting the first snapshot on the wire: it is newer than everything   *)
(* in transit, and both are behind what is left.                           *)
LEMMA AdmitsNewer ==
  ASSUME TypeOK, ConnectionFits, OneProcessPerLink, wire # <<>>, ~Outdated(Head(wire)),
         wire' = Tail(wire), accepted' = Head(wire),
         UNCHANGED <<message, link, serving>>,
         NEW m \in Message, Behind(m)
  PROVE  /\ Abstract!Older(m, Head(wire)) /\ ~Abstract!Older(Head(wire), m)
         /\ Behind(m)'
<1>1. /\ 1 \in DOMAIN wire /\ Head(wire) = wire[1] /\ wire[1] \in Message
      /\ \A i \in DOMAIN Tail(wire) : \E j \in DOMAIN wire : Tail(wire)[i] = wire[j]
  BY TailElements
<1>2. /\ m.epoch \in Nat /\ m.revision \in Nat
      /\ wire[1].epoch \in Nat /\ wire[1].revision \in Nat
      /\ accepted # None => accepted.epoch \in Nat /\ accepted.revision \in Nat
  BY <1>1, OnItsWay, MessageNumbers
<1>3. accepted # None => /\ wire[1].epoch = accepted.epoch
                         /\ accepted.revision < wire[1].revision
  BY <1>1, <1>2 DEF OneProcessPerLink, Outdated
<1>4. Abstract!Older(m, wire[1]) /\ ~Abstract!Older(wire[1], m)
  <2>1. CASE accepted = None
    <3>1. m.epoch < wire[1].epoch
      BY <1>1, <2>1 DEF Behind
    <3> QED
      BY <1>2, <3>1 DEF Abstract!Older
  <2>2. CASE accepted # None
    <3>1. ~Abstract!Older(accepted, m)
      BY <2>2 DEF Behind
    <3> QED
      BY <1>2, <1>3, <2>2, <3>1 DEF Abstract!Older
  <2> QED
    BY <2>1, <2>2
<1>5. wire[1] # None
  BY <1>1, ChannelAssumption
<1> QED
  BY <1>1, <1>4, <1>5 DEF Behind

(* The snapshot admitted is itself behind what is left on the wire.        *)
LEMMA AdmittedIsBehind ==
  ASSUME TypeOK, ConnectionFits, OneProcessPerLink, wire # <<>>,
         wire' = Tail(wire), accepted' = Head(wire),
         UNCHANGED <<message, link, serving>>
  PROVE  accepted' \in Message /\ (\A m \in Message : m = accepted' => Behind(m)')
<1>1. /\ 1 \in DOMAIN wire /\ Head(wire) = wire[1] /\ wire[1] \in Message
  BY TailElements
<1>2. wire[1].epoch \in Nat /\ wire[1].revision \in Nat /\ wire[1] # None
  BY <1>1, MessageNumbers, ChannelAssumption
<1>3. ~Abstract!Older(wire[1], wire[1])
  BY <1>2 DEF Abstract!Older
<1>4. link \in {"open", "ended"}
  BY DEF ConnectionFits, TypeOK
<1>5. /\ wire[1].epoch <= message.epoch
      /\ link = "ended" /\ serving => wire[1].epoch < message.epoch
  BY <1>1 DEF OneProcessPerLink
<1> QED
  BY <1>1, <1>2, <1>3, <1>4, <1>5 DEF Behind

LEMMA TransitInit == Init => OneProcessPerLink /\ TransitInOrder
<1> SUFFICES ASSUME Init PROVE OneProcessPerLink /\ TransitInOrder
  OBVIOUS
<1>1. DOMAIN wire = {}
  BY DEF Init
<1>2. OneProcessPerLink
  BY <1>1 DEF Init, OneProcessPerLink
<1>3. \A m \in Message : InTransit(m) => m.epoch = 0
  BY DEF Init, InTransit, Event
<1>4. TransitInOrder
  BY <1>1, <1>3 DEF Init, TransitInOrder, Behind, Event
<1> QED
  BY <1>2, <1>4

(* Snapshots leave the worker, and reach the screen, in the order sent.    *)
LEMMA TransitStep ==
  TypeOK /\ ConnectionFits /\ OneProcessPerLink /\ TransitInOrder /\ [Next]_vars
    => TransitInOrder'
<1> SUFFICES ASSUME TypeOK, ConnectionFits, OneProcessPerLink, TransitInOrder, [Next]_vars
             PROVE  TransitInOrder'
  OBVIOUS
<1> USE DEF bridgeVars, workerVars, mainVars
<1>0. /\ shown.message \in Message /\ InTransit(shown.message)
      /\ slot # None /\ slot.kind = "snapshot" => slot.message \in Message /\ InTransit(slot.message)
      /\ None \notin Events
  <2>1. slot # None /\ slot.kind = "snapshot" => slot.message \in Message
    BY DEF TypeOK, Events
  <2> QED
    BY <2>1, ChannelAssumption DEF TypeOK, InTransit
<1>1. CASE Bridge \/ Callback \/ Connect
  <2>1. /\ shown' = shown /\ slot' = slot
        /\ \/ worker' = worker /\ event' = event /\ accepted' = accepted
           \/ worker' = "sending" /\ event'.kind # "snapshot"
    <3>1. CASE Bridge \/ Callback
      BY <3>1 DEF Bridge, Publish, BridgeStops, BridgeStarts, Callback, Accept, FlushPending
    <3>2. CASE Connect
      BY <3>2 DEF Connect, SendEvent, Event
    <3> QED
      BY <1>1, <3>1, <3>2
  <2>2. \A m \in Message : InTransit(m)' => InTransit(m)
    BY <2>1 DEF InTransit
  <2>3. \A m \in Message : InTransit(m)' => Behind(m)'
    BY <1>1, <2>2, StaysBehind DEF TransitInOrder
  <2> QED
    BY <2>1, <2>3 DEF TransitInOrder
<1>2. CASE ReadSnapshot
  <2>1. /\ wire # <<>> /\ wire' = Tail(wire) /\ worker = "reading"
        /\ shown' = shown /\ slot' = slot
        /\ UNCHANGED <<message, link, serving>>
    BY <1>2 DEF ReadSnapshot
  <2>2. CASE Outdated(Head(wire))
    <3>1. /\ accepted' = accepted /\ accepted # None
          /\ worker' = "sending" => event'.kind # "snapshot"
      BY <1>2, <2>1, <2>2 DEF ReadSnapshot, Reject, SendEvent, Event, Outdated
    <3>2. \A m \in Message : InTransit(m)' => InTransit(m)
      BY <2>1, <3>1 DEF InTransit
    <3>3. \A m \in Message : InTransit(m)' => Behind(m)'
      BY <2>1, <3>1, <3>2 DEF TransitInOrder, Behind
    <3> QED
      BY <2>1, <3>1, <3>3 DEF TransitInOrder
  <2>3. CASE ~Outdated(Head(wire))
    <3>1. /\ accepted' = Head(wire) /\ worker' = "sending"
          /\ event'.kind = "snapshot" /\ event'.message = Head(wire)
      BY <1>2, <2>3 DEF ReadSnapshot, Admit, SendEvent, Event
    <3>2. \A m \in Message : InTransit(m)' => InTransit(m) \/ m = accepted'
      BY <2>1, <3>1 DEF InTransit
    <3>3. \A m \in Message : InTransit(m) =>
             Abstract!Older(m, Head(wire)) /\ Behind(m)'
      BY <2>1, <2>3, <3>1, AdmitsNewer DEF TransitInOrder
    <3>4. \A m \in Message : m = accepted' => Behind(m)'
      BY <2>1, <3>1, AdmittedIsBehind
    <3>5. \A m \in Message : InTransit(m)' => Behind(m)'
      BY <3>2, <3>3, <3>4
    <3>6. /\ Abstract!Older(shown.message, Head(wire))
          /\ slot # None /\ slot.kind = "snapshot" => Abstract!Older(slot.message, Head(wire))
      BY <1>0, <3>3
    <3> QED
      BY <2>1, <3>1, <3>5, <3>6 DEF TransitInOrder
  <2> QED
    BY <2>2, <2>3
<1>3. CASE ReadEnd
  <2>1. /\ shown' = shown /\ slot' = slot /\ worker' = "sending" /\ event'.kind # "snapshot"
        /\ UNCHANGED <<message, wire, accepted, serving>> /\ link = "ended" /\ link' = "none"
    BY <1>3 DEF ReadEnd, SendEvent, Event
  <2>2. \A m \in Message : InTransit(m)' => InTransit(m)
    BY <2>1 DEF InTransit
  <2>3. \A m \in Message : InTransit(m)' => Behind(m)'
    BY <2>1, <2>2 DEF TransitInOrder, Behind
  <2> QED
    BY <2>1, <2>3 DEF TransitInOrder
<1>4. CASE Send \/ Wake \/ ClearWakeup \/ Drained \/ UNCHANGED vars
  <2>1. /\ shown' = shown
        /\ UNCHANGED <<message, wire, accepted, link, serving, event>>
        /\ \/ worker' = worker /\ slot' = slot
           \/ worker = "sending" /\ worker' = "waking" /\ slot' = event
           \/ worker' # "sending" /\ slot' = slot
    BY <1>4 DEF Send, Wake, ClearWakeup, Drained, vars
  <2>2. \A m \in Message : InTransit(m)' => InTransit(m)
    BY <2>1 DEF InTransit
  <2>3. \A m \in Message : InTransit(m)' => Behind(m)'
    BY <2>1, <2>2 DEF TransitInOrder, Behind
  <2> QED
    BY <2>1, <2>3 DEF TransitInOrder
<1>5. CASE Receive
  <2>1. /\ slot # None /\ slot' = None
        /\ UNCHANGED <<message, wire, accepted, link, serving, event, worker>>
        /\ shown'.message = IF slot.kind = "snapshot" THEN slot.message ELSE shown.message
    BY <1>5 DEF Receive, Received, TypeOK
  <2>2. \A m \in Message : InTransit(m)' => InTransit(m)
    BY <2>1 DEF InTransit
  <2>3. \A m \in Message : InTransit(m)' => Behind(m)'
    BY <2>1, <2>2 DEF TransitInOrder, Behind
  <2>4. worker' = "sending" /\ event'.kind = "snapshot" =>
           Abstract!Older(shown'.message, event'.message)
    BY <2>1 DEF TransitInOrder
  <2> QED
    BY <2>1, <2>3, <2>4 DEF TransitInOrder
<1> QED
  BY <1>1, <1>2, <1>3, <1>4, <1>5 DEF Next, Worker, Main

(* One step never takes the screen back.                                   *)
LEMMA ShownStep ==
  TypeOK /\ TransitInOrder /\ [Next]_vars
    => [shown'.message # shown.message => Abstract!Older(shown.message, shown'.message)]_vars
<1> SUFFICES ASSUME TypeOK, TransitInOrder, [Next]_vars, shown'.message # shown.message
             PROVE  Abstract!Older(shown.message, shown'.message)
  OBVIOUS
<1> USE DEF bridgeVars, workerVars, mainVars
<1>1. CASE Receive
  <2>1. slot # None /\ shown'.message = IF slot.kind = "snapshot" THEN slot.message ELSE shown.message
    BY <1>1 DEF Receive, Received, TypeOK
  <2> QED
    BY <2>1 DEF TransitInOrder
<1>2. CASE Bridge \/ Callback
  BY <1>2 DEF Bridge, Publish, BridgeStops, BridgeStarts, Callback, Accept, FlushPending
<1>3. CASE Worker \/ ClearWakeup \/ Drained \/ UNCHANGED vars
  BY <1>3 DEF Worker, Connect, ReadSnapshot, ReadEnd, Send, Wake, ClearWakeup, Drained, vars
<1> QED
  BY <1>1, <1>2, <1>3 DEF Next, Main

-----------------------------------------------------------------------------
(* What the Renderer shows never goes back, however many Bridge processes  *)
(* follow each other and whatever revisions they publish.                  *)
THEOREM ShownNeverGoesBack == Spec => ShownAdvances
<1> DEFINE Inv == TypeOK /\ ConnectionFits /\ OneProcessPerLink /\ TransitInOrder
<1>1. Init => Inv
  BY TypeInit, TransitInit
<1>2. Inv /\ [Next]_vars => Inv'
  BY TypeStep, FitsStep, OneProcessStep, TransitStep
<1>3. Inv /\ [Next]_vars
        => [shown'.message # shown.message => Abstract!Older(shown.message, shown'.message)]_vars
  BY ShownStep
<1> QED
  BY <1>1, <1>2, <1>3, PTL DEF Spec, ShownAdvances

-----------------------------------------------------------------------------
(* The refinement.  A publication makes the latest snapshot newer, so what *)
(* was not newer than it before is not newer after.                        *)
LEMMA PublicationsAreNewer ==
  ASSUME TypeOK, ~Republishes, NEW revision \in 0..MaxRevision, Publish(revision)
  PROVE  /\ message' \in Message /\ Abstract!Older(message, message')
         /\ ~Abstract!Older(message', message')
         /\ \A m \in Message : ~Abstract!Older(message, m) => ~Abstract!Older(message', m)
<1>1. /\ message' \in Message /\ message'.epoch = message.epoch
      /\ message'.revision = message.revision + 1
  BY ChannelAssumption DEF Publish, NextRevision, TypeOK, Message
<1>2. /\ message.epoch \in Nat /\ message.revision \in Nat
      /\ \A m \in Message : m.epoch \in Nat /\ m.revision \in Nat
  BY MessageNumbers DEF TypeOK
<1> QED
  BY <1>1, <1>2 DEF Abstract!Older

LEMMA NewestStep ==
  TypeOK /\ ConnectionFits /\ LatestOnItsWay /\ LatestIsNewest /\ [Next]_vars
    => LatestIsNewest'
<1> SUFFICES ASSUME TypeOK, ConnectionFits, LatestOnItsWay, LatestIsNewest, [Next]_vars,
                    ~Republishes
             PROVE  LatestIsNewest'
  BY DEF LatestIsNewest
<1> USE DEF bridgeVars, workerVars, mainVars
<1>0. /\ message \in Message /\ ~Abstract!Older(message, message)
      /\ wire \in Seq(Message) /\ \A i \in DOMAIN wire : wire[i] \in Message
  BY OnItsWay, MessageNumbers DEF Abstract!Older
<1>1. ASSUME NEW revision \in 0..MaxRevision, Publish(revision) PROVE LatestIsNewest'
  <2>1. \A i \in DOMAIN wire' : wire'[i] = message' \/ \E j \in DOMAIN wire : wire'[i] = wire[j]
    <3>1. wire' = wire \/ wire' = Append(wire, message')
      BY <1>1 DEF Publish, WriteLatest
    <3> QED
      BY <1>1, <3>1, PublicationsAreNewer, AppendElements
  <2>2. \A m \in Message : InTransit(m)' => InTransit(m)
    BY <1>1 DEF Publish, InTransit
  <2>3. \A i \in DOMAIN wire' : ~Abstract!Older(message', wire'[i])
    BY <1>0, <1>1, <2>1, PublicationsAreNewer DEF LatestIsNewest
  <2>4. \A m \in Message : InTransit(m)' => ~Abstract!Older(message', m)
    BY <1>1, <2>2, PublicationsAreNewer DEF LatestIsNewest
  <2> QED
    BY <2>3, <2>4 DEF LatestIsNewest
<1>2. CASE Accept \/ FlushPending
  <2>1. message' = message /\ (wire' = wire \/ wire' = Append(wire, message))
    BY <1>2 DEF Accept, WriteLatest, FlushPending, LatestOnItsWay
  <2>2. \A i \in DOMAIN wire' : wire'[i] = message \/ \E j \in DOMAIN wire : wire'[i] = wire[j]
    BY <1>0, <2>1, AppendElements
  <2>3. \A m \in Message : InTransit(m)' => InTransit(m)
    BY <1>2 DEF Accept, FlushPending, InTransit
  <2> QED
    BY <1>0, <2>1, <2>2, <2>3 DEF LatestIsNewest
<1>3. CASE BridgeStops
  <2>1. PICK sent \in 0..Len(wire) : wire' = SubSeq(wire, 1, sent)
    BY <1>3 DEF BridgeStops
  <2>2. \A i \in DOMAIN wire' : i \in DOMAIN wire /\ wire'[i] = wire[i]
    BY <2>1, PrefixElements
  <2>3. message' = message /\ \A m \in Message : InTransit(m)' => InTransit(m)
    BY <1>3 DEF BridgeStops, InTransit
  <2> QED
    BY <2>2, <2>3 DEF LatestIsNewest
<1>4. CASE BridgeStarts
  <2>1. message'.epoch = message.epoch + 1 /\ wire' = wire
    BY <1>4 DEF BridgeStarts
  <2>2. \A m \in Message : InTransit(m)' => InTransit(m)
    BY <1>4 DEF BridgeStarts, InTransit
  <2>3. \A m \in Message : ~Abstract!Older(message, m) => ~Abstract!Older(message', m)
    BY <1>0, <2>1, MessageNumbers DEF Abstract!Older
  <2> QED
    BY <1>0, <2>1, <2>2, <2>3 DEF LatestIsNewest
<1>5. CASE ReadSnapshot
  <2>1. /\ wire # <<>> /\ wire' = Tail(wire) /\ message' = message
    BY <1>5 DEF ReadSnapshot
  <2>2. /\ 1 \in DOMAIN wire /\ Head(wire) = wire[1]
        /\ \A i \in DOMAIN wire' : \E j \in DOMAIN wire : wire'[i] = wire[j]
    BY <2>1, TailElements
  <2>3. \A m \in Message : InTransit(m)' => InTransit(m) \/ m = wire[1]
    BY <1>5, <2>2 DEF ReadSnapshot, Reject, Admit, SendEvent, Event, InTransit
  <2> QED
    BY <2>1, <2>2, <2>3 DEF LatestIsNewest
<1>6. CASE Connect \/ ReadEnd
  <2>1. message' = message /\ wire' = wire
    BY <1>6 DEF Connect, ReadEnd
  <2>2. \A m \in Message : InTransit(m)' => InTransit(m)
    BY <1>6 DEF Connect, ReadEnd, SendEvent, Event, InTransit
  <2> QED
    BY <2>1, <2>2 DEF LatestIsNewest
<1>7. CASE Send \/ Wake \/ ClearWakeup \/ Drained \/ UNCHANGED vars
  <2>1. message' = message /\ wire' = wire
    BY <1>7 DEF Send, Wake, ClearWakeup, Drained, vars
  <2>2. \A m \in Message : InTransit(m)' => InTransit(m)
    BY <1>7 DEF Send, Wake, ClearWakeup, Drained, vars, InTransit
  <2> QED
    BY <2>1, <2>2 DEF LatestIsNewest
<1>8. CASE Receive
  <2>1. message' = message /\ wire' = wire
    BY <1>8 DEF Receive
  <2>2. /\ slot # None /\ slot' = None /\ event' = event /\ worker' = worker
        /\ shown'.message = IF slot.kind = "snapshot" THEN slot.message ELSE shown.message
    BY <1>8 DEF Receive, Received, TypeOK
  <2>3. \A m \in Message : InTransit(m)' => InTransit(m)
    BY <2>2 DEF InTransit
  <2> QED
    BY <2>1, <2>3 DEF LatestIsNewest
<1> QED
  BY <1>1, <1>2, <1>3, <1>4, <1>5, <1>6, <1>7, <1>8 DEF Next, Bridge, Callback, Worker, Main

(* Initial states map to initial states...                                 *)
LEMMA RefinesInit == Init => Abstract!Init /\ LatestIsNewest
<1> SUFFICES ASSUME Init PROVE Abstract!Init /\ LatestIsNewest
  OBVIOUS
<1>1. Abstract!Init
  BY DEF Init, Abstract!Init
<1>2. DOMAIN wire = {}
  BY DEF Init
<1>3. \A m \in Message : InTransit(m) => m.epoch = 0
  BY DEF Init, InTransit, Event
<1>4. LatestIsNewest
  BY <1>2, <1>3 DEF Init, LatestIsNewest, Abstract!Older
<1> QED
  BY <1>1, <1>4

(* ... and steps to steps, or stutters.                                    *)
LEMMA RefinesStep ==
  TypeOK /\ TransitInOrder /\ LatestIsNewest /\ ~Republishes /\ [Next]_vars
    => [Abstract!Next]_(Abstract!vars)
<1> SUFFICES ASSUME TypeOK, TransitInOrder, LatestIsNewest, ~Republishes, [Next]_vars
             PROVE  Abstract!Next \/ UNCHANGED <<message, serving, shown>>
  BY DEF Abstract!vars
<1> USE DEF bridgeVars, workerVars, mainVars
<1>1. ASSUME NEW revision \in 0..MaxRevision, Publish(revision) PROVE Abstract!Publish
  BY <1>1, PublicationsAreNewer DEF Publish, Abstract!Publish
<1>2. CASE BridgeStops
  BY <1>2 DEF BridgeStops, Abstract!Stop, Abstract!Next
<1>3. CASE BridgeStarts
  <2>1. message' \in Message /\ message'.epoch = message.epoch + 1 /\ message.epoch \in Nat
    BY <1>3, ChannelAssumption DEF BridgeStarts, TypeOK, Message
  <2>2. Abstract!Older(message, message')
    BY <2>1 DEF Abstract!Older
  <2>3. serving' = TRUE /\ shown' = shown
    BY <1>3 DEF BridgeStarts
  <2> QED
    BY <2>1, <2>2, <2>3 DEF Abstract!Publish, Abstract!Next
<1>4. CASE Receive
  <2>1. slot # None /\ slot \in Events /\ UNCHANGED <<message, serving>>
    BY <1>4 DEF Receive, TypeOK
  <2>2. CASE slot.kind = "snapshot"
    <3>1. slot.message \in Message /\ InTransit(slot.message)
      BY <2>1, <2>2 DEF Events, InTransit
    <3>2. Abstract!Show(slot.message)
      BY <1>4, <2>1, <2>2, <3>1
         DEF Receive, Received, TransitInOrder, LatestIsNewest, Abstract!Show
    <3> QED
      BY <3>1, <3>2 DEF Abstract!Next
  <2>3. CASE slot.kind = "disconnected"
    <3>1. shown' = [shown EXCEPT !.connected = FALSE]
      BY <1>4, <2>3 DEF Receive, Received
    <3>2. CASE shown.connected
      BY <2>1, <3>1, <3>2 DEF Abstract!Disconnect, Abstract!Next
    <3>3. CASE ~shown.connected
      <4>1. shown' = shown
        BY <3>1, <3>3 DEF TypeOK
      <4> QED
        BY <2>1, <4>1
    <3> QED
      BY <3>2, <3>3
  <2>4. CASE slot.kind \notin {"snapshot", "disconnected"}
    BY <1>4, <2>1, <2>4 DEF Receive, Received
  <2> QED
    BY <2>2, <2>3, <2>4
<1>5. CASE Callback
  BY <1>5 DEF Callback, Accept, FlushPending
<1>6. CASE Connect \/ ReadEnd \/ Send \/ Wake
  BY <1>6 DEF Connect, ReadEnd, Send, Wake
<1>7. CASE ReadSnapshot
  BY <1>7 DEF ReadSnapshot
<1>8. CASE ClearWakeup \/ Drained \/ UNCHANGED vars
  BY <1>8 DEF ClearWakeup, Drained, vars
<1> QED
  BY <1>1, <1>2, <1>3, <1>4, <1>5, <1>6, <1>7, <1>8 DEF Next, Bridge, Worker, Main, Abstract!Next

(* The channel implements the latest-snapshot register: whatever the       *)
(* backpressure, restarts and schedules, the Renderer only ever shows a    *)
(* newer snapshot, and none newer than the last one published.             *)
THEOREM ChannelImplementsRegister == ~Republishes /\ Spec => Abstract!SafeSpec
<1> DEFINE Inv == /\ TypeOK /\ ConnectionFits /\ InOrder /\ LatestOnItsWay
                  /\ OneProcessPerLink /\ TransitInOrder /\ LatestIsNewest
<1> SUFFICES ASSUME ~Republishes PROVE Spec => Abstract!SafeSpec
  OBVIOUS
<1>1. Init => Inv /\ Abstract!Init
  BY TypeInit, OrderInit, TransitInit, RefinesInit
<1>2. Inv /\ [Next]_vars => Inv'
  BY TypeStep, FitsStep, OrderStep, OneProcessStep, TransitStep, NewestStep
<1>3. Inv /\ [Next]_vars => [Abstract!Next]_(Abstract!vars)
  BY RefinesStep
<1> QED
  BY <1>1, <1>2, <1>3, PTL DEF Spec, Abstract!SafeSpec
=============================================================================
