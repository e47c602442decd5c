-------------------------- MODULE LyricFeed_proofs --------------------------
(***************************************************************************)
(* The lyrics the feed holds are the tracked track's, for any zones, songs  *)
(* and keys, however far the two connections are apart.                     *)
(*                                                                          *)
(* The argument: on the private connection a zone's lyrics come after the   *)
(* report that the zone plays their song and before the next one.  So the   *)
(* song a zone is known to play when its lyrics arrive is theirs, and what  *)
(* is retained or accepted names the track it belongs to.                   *)
(*                                                                          *)
(* And every variable keeps its type: the correlated keys are never more    *)
(* than the limit, and none of them is there twice.                         *)
(***************************************************************************)
EXTENDS LyricFeed, SequenceTheorems, TLAPS

Items == [kind : {"subscribed"}, zones : [Zones -> Playing]]
           \cup [kind : {"zone"}, zone : Zones, playing : Playing]
           \cup [kind : {"lyrics"}, zone : Zones, playing : Songs]

Wires == Seq(Items)

(* What an item says of a zone, if it does.                                *)
Tells(item, z) == item.kind = "subscribed" \/ (item.kind = "zone" /\ item.zone = z)
Told(item, z) == IF item.kind = "subscribed" THEN item.zones[z] ELSE item.playing

(* With the first n items of the wire, z is known to play song.            *)
Heard(wire, zones, z, n, song) ==
  \/ zones[z] = song /\ \A k \in 1..n : ~Tells(wire[k], z)
  \/ \E j \in 1..n : /\ Tells(wire[j], z) /\ Told(wire[j], z) = song
                     /\ \A k \in j+1..n : ~Tells(wire[k], z)

Feeds(f) ==
  /\ f = [tracked |-> f.tracked, accepted |-> f.accepted, keys |-> f.keys, pending |-> f.pending]
  /\ f.tracked \in Tracks \cup {None} /\ f.accepted \in Playing
  /\ f.pending \in [Zones -> LyricEvents \cup {None}]

Types ==
  /\ playing \in [Zones -> Playing] /\ mainZones \in [Zones -> Playing]
  /\ privateZones \in [Zones -> Playing]
  /\ mainWire \in Seq([zone : Zones, playing : Playing]) /\ privateWire \in Wires
  /\ due \subseteq {z \in Zones : playing[z] # None} /\ output \in Zones \cup {None}
  /\ Feeds(feed)

(* Every event retained was observed with its own song.                    *)
Observed(f) == \A z \in Zones : f.pending[z] # None => f.pending[z].observed = f.pending[z].song
Matched(f) == f.accepted # None => f.tracked # None /\ f.accepted = f.tracked.playing

(* The wire ends with what the zones play, and each lyrics on it follow    *)
(* the report of their song.                                               *)
InOrder ==
  /\ link # "paired" => privateWire = <<>>
  /\ link = "paired" =>
       \A z \in Zones : Heard(privateWire, privateZones, z, Len(privateWire), playing[z])
  /\ \A i \in 1..Len(privateWire) :
       privateWire[i].kind = "lyrics" =>
         Heard(privateWire, privateZones, privateWire[i].zone, i, privateWire[i].playing)

Inv == /\ Types /\ InOrder /\ Observed(feed) /\ Matched(feed)
       /\ link # "paired" => feed.accepted = None /\ feed.keys = <<>> /\ feed.pending = NoZones

-----------------------------------------------------------------------------
(* Items that are appended change nothing of what was heard before them.   *)
LEMMA HeardBefore ==
  ASSUME NEW wire \in Wires, NEW zones, NEW z \in Zones, NEW song, NEW item \in Items,
         NEW n \in 0..Len(wire)
  PROVE  Heard(Append(wire, item), zones, z, n, song) <=> Heard(wire, zones, z, n, song)
<1>1. \A k \in 1..n : Append(wire, item)[k] = wire[k]
  BY DEF Wires
<1>2. QED  BY <1>1 DEF Heard

(* What is appended last is what is heard last.                            *)
LEMMA HeardLast ==
  ASSUME NEW wire \in Wires, NEW zones, NEW z \in Zones, NEW song, NEW item \in Items,
         IF Tells(item, z) THEN Told(item, z) = song
         ELSE Heard(wire, zones, z, Len(wire), song)
  PROVE  Heard(Append(wire, item), zones, z, Len(wire) + 1, song)
<1> DEFINE n == Len(wire)
<1>1. n \in Nat /\ Append(wire, item)[n + 1] = item
  BY DEF Wires
<1>2. CASE Tells(item, z)
  <2>1. \A k \in (n+1)+1..n+1 : ~Tells(Append(wire, item)[k], z)
    BY <1>1
  <2>2. n + 1 \in 1..n+1
    BY <1>1
  <2>3. QED  BY <1>1, <1>2, <2>1, <2>2 DEF Heard
<1>3. CASE ~Tells(item, z)
  <2>1. Heard(Append(wire, item), zones, z, n, song)
    BY <1>1, <1>3, HeardBefore
  <2>2. \A k \in 1..n+1 : k \in 1..n \/ k = n + 1
    BY <1>1
  <2>3. \A j \in 1..n : j \in 1..n+1 /\ \A k \in j+1..n+1 : k \in j+1..n \/ k = n + 1
    BY <1>1
  <2>4. QED  BY <1>1, <1>3, <2>1, <2>2, <2>3 DEF Heard
<1>4. QED  BY <1>2, <1>3

(* Taking the first item, and what it says, changes nothing of what is     *)
(* heard with the items after it.                                          *)
LEMMA HeardAfter ==
  ASSUME NEW wire \in Wires, wire # <<>>, NEW zones, NEW after, NEW z \in Zones, NEW song,
         NEW n \in 1..Len(wire), Heard(wire, zones, z, n, song),
         after[z] = IF Tells(Head(wire), z) THEN Told(Head(wire), z) ELSE zones[z]
  PROVE  Heard(Tail(wire), after, z, n - 1, song)
<1>1. Head(wire) = wire[1] /\ \A k \in 1..n-1 : Tail(wire)[k] = wire[k + 1]
  BY DEF Wires
<1>2. CASE zones[z] = song /\ \A k \in 1..n : ~Tells(wire[k], z)
  <2>1. after[z] = song
    BY <1>1, <1>2
  <2>2. \A k \in 1..n-1 : k + 1 \in 1..n
    OBVIOUS
  <2>3. QED  BY <1>1, <1>2, <2>1, <2>2 DEF Heard
<1>3. CASE \E j \in 1..n : /\ Tells(wire[j], z) /\ Told(wire[j], z) = song
                           /\ \A k \in j+1..n : ~Tells(wire[k], z)
  <2>1. PICK j \in 1..n : /\ Tells(wire[j], z) /\ Told(wire[j], z) = song
                          /\ \A k \in j+1..n : ~Tells(wire[k], z)
    BY <1>3
  <2>2. CASE j = 1
    <3>1. after[z] = song
      BY <1>1, <2>1, <2>2
    <3>2. \A k \in 1..n-1 : k + 1 \in j+1..n
      BY <2>2
    <3>3. QED  BY <1>1, <2>1, <3>1, <3>2 DEF Heard
  <2>3. CASE j # 1
    <3>1. j - 1 \in 1..n-1 /\ Tail(wire)[j - 1] = wire[j]
      BY <1>1, <2>3
    <3>2. \A k \in (j-1)+1..n-1 : k \in 1..n-1 /\ k + 1 \in j+1..n
      BY <2>3
    <3>3. \A k \in (j-1)+1..n-1 : ~Tells(Tail(wire)[k], z)
      BY <1>1, <2>1, <3>2
    <3>4. QED  BY <2>1, <3>1, <3>3 DEF Heard
  <2>4. QED  BY <2>2, <2>3
<1>4. QED  BY <1>2, <1>3 DEF Heard

-----------------------------------------------------------------------------
(* The feed                                                                *)
(* Accepting a timeline of the tracked track keeps the feed matched.        *)
LEMMA AcceptMatches ==
  ASSUME NEW f, Feeds(f), Observed(f), Matched(f),
         NEW e \in LyricEvents,
         f.tracked # None => e.song = f.tracked.playing
  PROVE  /\ Feeds(AcceptEvent(f, e)) /\ Observed(AcceptEvent(f, e)) /\ Matched(AcceptEvent(f, e))
         /\ AcceptEvent(f, e).tracked = f.tracked
<1> DEFINE g == AcceptEvent(f, e)
<1>1. e.song \in Songs
  BY DEF LyricEvents
<1>2. \/ g = f
      \/ g = [f EXCEPT !.accepted = None]
      \/ f.tracked # None /\ g = [f EXCEPT !.accepted = e.song, !.keys = Correlated(f, e)]
  BY DEF AcceptEvent, Clear
<1>3. /\ g.tracked = f.tracked /\ g.pending = f.pending
      /\ \/ g.accepted = f.accepted
         \/ g.accepted = None
         \/ f.tracked # None /\ g.accepted = e.song
      /\ g = [tracked |-> g.tracked, accepted |-> g.accepted, keys |-> g.keys, pending |-> g.pending]
  <2> HIDE DEF g
  <2>1. f = [tracked |-> f.tracked, accepted |-> f.accepted, keys |-> f.keys, pending |-> f.pending]
    BY DEF Feeds
  <2>2. QED  BY <1>2, <2>1
<1>4. g.accepted \in Playing
  BY <1>1, <1>3 DEF Feeds, Playing
<1> HIDE DEF g
<1>5. Feeds(g) /\ Observed(g) /\ Matched(g)
  BY <1>3, <1>4 DEF Feeds, Observed, Matched
<1>6. QED  BY <1>3, <1>5 DEF g

(* An event observed with its own song is accepted for it or retained.     *)
LEMMA EventMatches ==
  ASSUME NEW f, Feeds(f), Observed(f), Matched(f),
         NEW e \in LyricEvents, e.observed = e.song
  PROVE  Feeds(OnEvent(f, e)) /\ Observed(OnEvent(f, e)) /\ Matched(OnEvent(f, e))
<1>1. e.zone \in Zones /\ e.song \in Songs /\ e.observed \in Playing
  BY DEF LyricEvents
<1>2. ASSUME NEW kept \in {None, e}
      PROVE  LET g == [f EXCEPT !.pending[e.zone] = kept]
             IN Feeds(g) /\ Observed(g) /\ Matched(g) /\ g.tracked = f.tracked
  <2> DEFINE g == [f EXCEPT !.pending[e.zone] = kept]
  <2>1. /\ g.tracked = f.tracked /\ g.accepted = f.accepted
        /\ g.pending = [f.pending EXCEPT ![e.zone] = kept]
        /\ g = [tracked |-> g.tracked, accepted |-> g.accepted, keys |-> g.keys, pending |-> g.pending]
    BY DEF Feeds
  <2> HIDE DEF g
  <2>2. Feeds(g)
    BY <1>1, <2>1 DEF Feeds
  <2>3. Observed(g)
    BY <1>1, <2>1 DEF Feeds, Observed
  <2>4. Matched(g)
    BY <2>1 DEF Matched
  <2>5. QED  BY <2>1, <2>2, <2>3, <2>4 DEF g
<1>3. CASE f.tracked = [zone |-> e.zone, playing |-> e.observed]
  <2> DEFINE g == [f EXCEPT !.pending[e.zone] = None]
  <2>1. Feeds(g) /\ Observed(g) /\ Matched(g) /\ g.tracked = f.tracked
    BY <1>2
  <2>2. g.tracked # None => e.song = g.tracked.playing
    BY <1>3, <2>1
  <2>3. OnEvent(f, e) = AcceptEvent(g, e)
    BY <1>3 DEF OnEvent
  <2> HIDE DEF g
  <2>4. QED  BY <2>1, <2>2, <2>3, AcceptMatches
<1>4. CASE f.tracked # [zone |-> e.zone, playing |-> e.observed]
  <2>1. OnEvent(f, e) = [f EXCEPT !.pending[e.zone] = e]
    BY <1>4 DEF OnEvent, RetainEvent
  <2>2. QED  BY <1>2, <2>1
<1>5. QED  BY <1>3, <1>4

(* A track that becomes tracked has the timeline retained for it, or none. *)
LEMMA TrackMatches ==
  ASSUME NEW f, Feeds(f), Observed(f), Matched(f),
         NEW next \in Tracks \cup {None}
  PROVE  Feeds(Track(f, next)) /\ Observed(Track(f, next)) /\ Matched(Track(f, next))
<1> DEFINE h == Retracked(f, next)
<1>1. /\ h.tracked = next /\ h.pending = f.pending
      /\ h.accepted = None \/ (h.accepted = f.accepted /\ f.tracked = next)
      /\ h = [tracked |-> h.tracked, accepted |-> h.accepted, keys |-> h.keys, pending |-> h.pending]
  BY DEF Feeds, Retracked, Clear
<1> HIDE DEF h
<1>2. Feeds(h) /\ Observed(h) /\ Matched(h)
  BY <1>1 DEF Feeds, Observed, Matched, Playing
<1>3. CASE next = None
  BY <1>2, <1>3 DEF Track, h
<1>4. CASE next # None
  <2>1. next.zone \in Zones /\ next.playing \in Songs
    BY <1>4 DEF Tracks
  <2> DEFINE e == f.pending[next.zone]
             g == [h EXCEPT !.pending[next.zone] = None]
  <2>2. /\ g.tracked = next /\ g.accepted = h.accepted
        /\ g.pending = [h.pending EXCEPT ![next.zone] = None]
        /\ g = [tracked |-> g.tracked, accepted |-> g.accepted, keys |-> g.keys, pending |-> g.pending]
    BY <1>1
  <2>3. Track(f, next) = IF e # None /\ e.observed \in {None, next.playing} THEN AcceptEvent(g, e) ELSE g
    BY <1>4 DEF Track, h
  <2> HIDE DEF g
  <2>4. Feeds(g)
    BY <1>2, <2>1, <2>2 DEF Feeds
  <2>5. Observed(g)
    BY <1>2, <2>1, <2>2 DEF Feeds, Observed
  <2>6. Matched(g)
    BY <1>1, <1>2, <2>2 DEF Matched
  <2>7. ASSUME e # None, e.observed \in {None, next.playing}
        PROVE  e \in LyricEvents /\ e.song = next.playing
    <3>1. e \in LyricEvents /\ e.observed = e.song
      BY <2>1, <2>7 DEF Feeds, Observed
    <3>2. e.song # None
      BY <3>1, FeedAssumption DEF LyricEvents
    <3>3. QED  BY <2>7, <3>1, <3>2
  <2> HIDE DEF e
  <2>8. QED  BY <2>2, <2>3, <2>4, <2>5, <2>6, <2>7, AcceptMatches
<1>5. QED  BY <1>3, <1>4

-----------------------------------------------------------------------------
(* The steps                                                               *)
(* The invariant holds before anything is paired.                          *)
LEMMA InvInit == Init => Inv
<1> SUFFICES ASSUME Init PROVE Inv
  OBVIOUS
<1> USE DEF Init
<1>1. NoZones \in [Zones -> Playing] /\ NoZones \in [Zones -> LyricEvents \cup {None}]
  BY DEF NoZones, Playing
<1>2. Feeds(feed) /\ Observed(feed) /\ Matched(feed)
  BY <1>1 DEF NewFeed, Feeds, Observed, Matched, NoZones, Playing
<1>3. Types
  BY <1>1, <1>2 DEF Types, Wires
<1>4. InOrder
  BY DEF InOrder
<1>5. QED  BY <1>2, <1>3, <1>4 DEF Inv, NewFeed

(* The server appends what it sends.                                       *)
LEMMA PlayOrder ==
  ASSUME Inv, NEW z \in Zones, NEW song \in Playing, Play(z, song)
  PROVE  Inv'
<1> DEFINE item == [kind |-> "zone", zone |-> z, playing |-> song]
<1> USE DEF Play
<1>1. item \in Items
  BY DEF Items
<1>2. Types'
  <2>1. playing' \in [Zones -> Playing] /\ mainWire' \in Seq([zone : Zones, playing : Playing])
    BY DEF Inv, Types
  <2>2. privateWire' \in Wires
    BY <1>1 DEF Inv, Types, Wires, Send
  <2>3. due' \subseteq {y \in Zones : playing'[y] # None}
    BY DEF Inv, Types
  <2>4. Feeds(feed)'
    BY DEF Inv, Types, Feeds
  <2>5. QED  BY <2>1, <2>2, <2>3, <2>4 DEF Inv, Types, mainVars, linkVars
<1>3. InOrder'
  <2>1. CASE link # "paired"
    BY <2>1 DEF Inv, InOrder, Send
  <2>2. CASE link = "paired"
    <3>1. privateWire' = Append(privateWire, item) /\ link' = link /\ privateZones' = privateZones
      BY <2>2 DEF Send
    <3>2. /\ privateWire \in Wires /\ Len(privateWire) \in Nat
          /\ Len(privateWire') = Len(privateWire) + 1
          /\ privateWire'[Len(privateWire) + 1] = item
          /\ \A i \in 1..Len(privateWire) : privateWire'[i] = privateWire[i] /\ privateWire[i] \in Items
      <4>1. privateWire \in Seq(Items)
        BY DEF Inv, Types, Wires
      <4> HIDE DEF item, Play
      <4>2. QED  BY <1>1, <3>1, <4>1 DEF Wires
    <3>3. ASSUME NEW y \in Zones
          PROVE  Heard(privateWire', privateZones', y, Len(privateWire'), playing'[y])
      <4>1. IF Tells(item, y) THEN Told(item, y) = playing'[y]
            ELSE Heard(privateWire, privateZones, y, Len(privateWire), playing'[y])
        <5>1. Tells(item, y) <=> y = z
          BY DEF Tells
        <5>2. y # z => playing'[y] = playing[y]
          BY DEF Inv, Types
        <5>3. y = z => Told(item, y) = playing'[y]
          BY DEF Inv, Types, Told
        <5>4. Heard(privateWire, privateZones, y, Len(privateWire), playing[y])
          BY <2>2 DEF Inv, InOrder
        <5>5. QED  BY <5>1, <5>2, <5>3, <5>4
      <4> HIDE DEF item, Play
      <4>2. Heard(Append(privateWire, item), privateZones, y, Len(privateWire) + 1, playing'[y])
        BY <1>1, <3>2, <4>1, HeardLast
      <4>3. QED  BY <3>1, <3>2, <4>2
    <3>4. ASSUME NEW i \in 1..Len(privateWire'), privateWire'[i].kind = "lyrics"
          PROVE  Heard(privateWire', privateZones', privateWire'[i].zone, i, privateWire'[i].playing)
      <4>1. i \in 1..Len(privateWire)
        BY <3>2, <3>4
      <4>2. privateWire[i].zone \in Zones
        BY <3>2, <3>4, <4>1 DEF Items
      <4>3. Heard(privateWire, privateZones, privateWire[i].zone, i, privateWire[i].playing)
        BY <3>2, <3>4, <4>1 DEF Inv, InOrder
      <4>4. i \in 0..Len(privateWire)
        BY <3>2, <4>1
      <4> HIDE DEF item
      <4>5. Heard(Append(privateWire, item), privateZones, privateWire[i].zone, i, privateWire[i].playing)
        BY <1>1, <3>2, <4>2, <4>3, <4>4, HeardBefore
      <4>6. QED  BY <3>1, <3>2, <4>1, <4>5
    <3>5. QED  BY <2>2, <3>1, <3>3, <3>4 DEF InOrder
  <2>3. QED  BY <2>1, <2>2
<1>4. QED  BY <1>2, <1>3 DEF Inv, Observed, Matched, linkVars

LEMMA SendOrder ==
  ASSUME Inv, NEW z \in Zones, SendLyrics(z)
  PROVE  Inv'
<1> DEFINE item == [kind |-> "lyrics", zone |-> z, playing |-> playing[z]]
<1> USE DEF SendLyrics
<1>1. item \in Items /\ \A y \in Zones : ~Tells(item, y)
  BY DEF Items, Tells, Inv, Types, Playing
<1>2. Types'
  BY <1>1 DEF Inv, Types, Wires, Feeds, mainVars
<1>3. InOrder'
  <2>1. privateWire' = Append(privateWire, item) /\ link' = link /\ link = "paired"
        /\ privateZones' = privateZones /\ playing' = playing
    OBVIOUS
  <2>2. /\ privateWire \in Wires /\ Len(privateWire) \in Nat
        /\ Len(privateWire') = Len(privateWire) + 1
        /\ privateWire'[Len(privateWire) + 1] = item
        /\ \A i \in 1..Len(privateWire) : privateWire'[i] = privateWire[i] /\ privateWire[i] \in Items
    BY <1>1, <2>1 DEF Inv, Types, Wires
  <2>3. ASSUME NEW y \in Zones
        PROVE  Heard(privateWire', privateZones', y, Len(privateWire'), playing'[y])
    <3>1. Heard(privateWire, privateZones, y, Len(privateWire), playing[y])
      BY <2>1 DEF Inv, InOrder
    <3>2. QED  BY <1>1, <2>1, <2>2, <3>1, HeardLast
  <2>4. ASSUME NEW i \in 1..Len(privateWire'), privateWire'[i].kind = "lyrics"
        PROVE  Heard(privateWire', privateZones', privateWire'[i].zone, i, privateWire'[i].playing)
    <3>1. CASE i \in 1..Len(privateWire)
      <4>1. privateWire[i].zone \in Zones
        BY <2>2, <2>4, <3>1 DEF Items
      <4>2. Heard(privateWire, privateZones, privateWire[i].zone, i, privateWire[i].playing)
        BY <2>2, <2>4, <3>1 DEF Inv, InOrder
      <4>3. i \in 0..Len(privateWire)
        BY <2>2, <3>1
      <4> HIDE DEF item
      <4>4. Heard(Append(privateWire, item), privateZones, privateWire[i].zone, i, privateWire[i].playing)
        BY <1>1, <2>2, <4>1, <4>2, <4>3, HeardBefore
      <4>5. QED  BY <2>1, <2>2, <3>1, <4>4
    <3>2. CASE i = Len(privateWire) + 1
      BY <2>1, <2>2, <2>3, <3>2
    <3>3. QED  BY <2>2, <3>1, <3>2
  <2>5. QED  BY <2>1, <2>3, <2>4 DEF InOrder
<1>4. QED  BY <1>2, <1>3 DEF Inv, Observed, Matched

(* What is delivered is what was heard first.                              *)
LEMMA DeliveredOrder ==
  ASSUME Inv, Delivered
  PROVE  Inv'
<1> DEFINE item == Head(privateWire)
<1> USE DEF Delivered
<1>1. /\ privateWire \in Wires /\ privateWire # <<>> /\ Len(privateWire) \in Nat \ {0}
      /\ item = privateWire[1] /\ item \in Items
      /\ privateWire' = Tail(privateWire) /\ Tail(privateWire) \in Wires
      /\ Len(Tail(privateWire)) = Len(privateWire) - 1
      /\ \A i \in 1..Len(privateWire) - 1 : /\ Tail(privateWire)[i] = privateWire[i + 1]
                                            /\ i + 1 \in 1..Len(privateWire)
      /\ \A i \in 1..Len(privateWire) : privateWire[i] \in Items
  BY DEF Inv, Types, Wires
<1>2. link = "paired" /\ link' = link /\ playing' = playing
  BY DEF Inv, InOrder, serverVars
<1>3. /\ privateZones' \in [Zones -> Playing]
      /\ \A y \in Zones : privateZones'[y] = IF Tells(item, y) THEN Told(item, y) ELSE privateZones[y]
  <2>1. privateZones \in [Zones -> Playing]
    BY DEF Inv, Types
  <2>2. CASE item.kind = "subscribed" /\ privateZones' = item.zones
    BY <1>1, <2>2 DEF Items, Tells, Told
  <2>3. CASE item.kind = "zone" /\ privateZones' = [privateZones EXCEPT ![item.zone] = item.playing]
    BY <1>1, <2>1, <2>3 DEF Items, Tells, Told
  <2>4. CASE item.kind = "lyrics" /\ privateZones' = privateZones
    BY <2>1, <2>4 DEF Tells, Told
  <2>5. QED  BY <2>2, <2>3, <2>4
<1>4. Feeds(feed') /\ Observed(feed') /\ Matched(feed')
  <2>1. Feeds(feed) /\ Observed(feed) /\ Matched(feed)
    BY DEF Inv, Types
  <2>2. CASE feed' = feed
    BY <2>1, <2>2
  <2>3. CASE item.kind = "lyrics"
    <3> DEFINE e == [zone |-> item.zone, song |-> item.playing, observed |-> privateZones[item.zone]]
    <3>1. feed' = OnEvent(feed, e)
      BY <2>3
    <3>2. item.zone \in Zones /\ item.playing \in Songs
      BY <1>1, <2>3 DEF Items
    <3>3. e \in LyricEvents
      BY <3>2 DEF Inv, Types, LyricEvents
    <3>4. ~Tells(item, item.zone)
      BY <2>3 DEF Tells
    <3>5. Heard(privateWire, privateZones, item.zone, 1, item.playing)
      BY <1>1, <2>3 DEF Inv, InOrder
    <3>6. privateZones[item.zone] = item.playing
      <4>1. \A j \in 1..1 : privateWire[j] = item
        BY <1>1
      <4>2. QED  BY <3>4, <3>5, <4>1 DEF Heard
    <3>7. e.observed = e.song
      BY <3>6
    <3> HIDE DEF e
    <3>8. QED  BY <2>1, <3>1, <3>3, <3>7, EventMatches
  <2>4. QED  BY <2>2, <2>3
<1>5. Types'
  BY <1>1, <1>2, <1>3, <1>4 DEF Inv, Types, Feeds, serverVars, mainVars
<1>6. InOrder'
  <2> HIDE DEF item
  <2>1. ASSUME NEW y \in Zones
        PROVE  Heard(privateWire', privateZones', y, Len(privateWire'), playing'[y])
    <3>1. Heard(privateWire, privateZones, y, Len(privateWire), playing[y])
      BY <1>2 DEF Inv, InOrder
    <3>2. Len(privateWire) \in 1..Len(privateWire)
      BY <1>1
    <3>3. privateZones'[y] = IF Tells(Head(privateWire), y) THEN Told(Head(privateWire), y) ELSE privateZones[y]
      BY <1>3 DEF item
    <3>4. Heard(Tail(privateWire), privateZones', y, Len(privateWire) - 1, playing[y])
      BY <1>1, <3>1, <3>2, <3>3, HeardAfter
    <3>5. QED  BY <1>1, <1>2, <3>4
  <2>2. ASSUME NEW i \in 1..Len(privateWire'), privateWire'[i].kind = "lyrics"
        PROVE  Heard(privateWire', privateZones', privateWire'[i].zone, i, privateWire'[i].playing)
    <3>1. i \in 1..Len(privateWire) - 1 /\ i + 1 \in 1..Len(privateWire) /\ (i + 1) - 1 = i
          /\ privateWire'[i] = privateWire[i + 1]
      BY <1>1, <2>2
    <3>2. privateWire[i + 1].zone \in Zones
      BY <1>1, <2>2, <3>1 DEF Items
    <3>3. Heard(privateWire, privateZones, privateWire[i + 1].zone, i + 1, privateWire[i + 1].playing)
      BY <2>2, <3>1 DEF Inv, InOrder
    <3>4. \A y \in Zones : privateZones'[y] = IF Tells(Head(privateWire), y) THEN Told(Head(privateWire), y)
                                               ELSE privateZones[y]
      BY <1>3 DEF item
    <3>5. Heard(Tail(privateWire), privateZones', privateWire[i + 1].zone, (i + 1) - 1, privateWire[i + 1].playing)
      BY <1>1, <3>1, <3>2, <3>3, <3>4, HeardAfter
    <3>6. QED  BY <1>1, <3>1, <3>5
  <2>3. QED  BY <1>2, <2>1, <2>2 DEF InOrder
<1>7. QED  BY <1>2, <1>4, <1>5, <1>6 DEF Inv

(* The Bridge's own connection                                             *)
LEMMA ReconcileMatches ==
  ASSUME Inv, NEW zones \in [Zones -> Playing], NEW z \in Zones \cup {None}, Reconcile(zones, z),
         UNCHANGED <<serverVars, linkVars>>, mainWire' \in Seq([zone : Zones, playing : Playing])
  PROVE  Inv'
<1>1. TrackedIn(zones, z) \in Tracks \cup {None}
  BY DEF TrackedIn, Tracks, Playing
<1>2. Feeds(feed) /\ Observed(feed) /\ Matched(feed)
  BY DEF Inv, Types
<1>3. Feeds(feed') /\ Observed(feed') /\ Matched(feed')
  BY <1>1, <1>2, TrackMatches DEF Reconcile
<1>4. Types'
  BY <1>3 DEF Inv, Types, Feeds, Reconcile, serverVars, linkVars
<1>5. InOrder'
  BY DEF Inv, InOrder, serverVars, linkVars
<1>6. link # "paired" => feed'.accepted = None /\ feed'.keys = <<>> /\ feed'.pending = NoZones
  <2> SUFFICES ASSUME link # "paired"
               PROVE feed'.accepted = None /\ feed'.keys = <<>> /\ feed'.pending = NoZones
    OBVIOUS
  <2> DEFINE next == TrackedIn(zones, z)
             h == Retracked(feed, next)
  <2>1. feed.accepted = None /\ feed.keys = <<>> /\ feed.pending = NoZones
    BY DEF Inv
  <2>2. /\ h.accepted = None /\ h.keys = <<>> /\ h.pending = NoZones
        /\ h = [tracked |-> h.tracked, accepted |-> h.accepted, keys |-> h.keys, pending |-> h.pending]
    BY <1>2, <2>1 DEF Feeds, Retracked, Clear
  <2>3. feed' = Track(feed, next)
    BY DEF Reconcile
  <2>4. CASE next = None
    BY <2>2, <2>3, <2>4 DEF Track
  <2>5. CASE next # None
    <3>1. next.zone \in Zones
      BY <1>1, <2>5 DEF Tracks
    <3>2. NoZones[next.zone] = None /\ [NoZones EXCEPT ![next.zone] = None] = NoZones
      BY <3>1 DEF NoZones
    <3> HIDE DEF h, next
    <3>3. feed' = [h EXCEPT !.pending[next.zone] = None]
      BY <2>1, <2>3, <2>5, <3>2 DEF Track, h
    <3>4. QED  BY <2>2, <3>2, <3>3
  <2>6. QED  BY <2>4, <2>5
<1>7. QED  BY <1>3, <1>4, <1>5, <1>6 DEF Inv, linkVars

(* What is lost is forgotten.                                              *)
LEMMA ForgottenMatches ==
  ASSUME NEW f, Feeds(f)
  PROVE  LET g == LoseConnection(f)
         IN /\ Feeds(g) /\ Observed(g) /\ Matched(g)
            /\ g.accepted = None /\ g.keys = <<>> /\ g.pending = NoZones
<1> DEFINE c == [f EXCEPT !.accepted = None]
           g == LoseConnection(f)
<1>0. /\ c.tracked = f.tracked /\ c.accepted = None
      /\ c = [tracked |-> c.tracked, accepted |-> c.accepted, keys |-> c.keys, pending |-> c.pending]
  BY DEF Feeds
<1>1. /\ g.tracked = f.tracked /\ g.accepted = None /\ g.keys = <<>> /\ g.pending = NoZones
      /\ g = [tracked |-> g.tracked, accepted |-> g.accepted, keys |-> g.keys, pending |-> g.pending]
  <2>1. g = [c EXCEPT !.keys = <<>>, !.pending = NoZones]
    BY DEF LoseConnection, Clear
  <2> HIDE DEF c, g
  <2>2. QED  BY <1>0, <2>1
<1>2. NoZones \in [Zones -> LyricEvents \cup {None}] /\ \A z \in Zones : NoZones[z] = None
  BY DEF NoZones
<1> HIDE DEF g
<1>3. Feeds(g) /\ Observed(g) /\ Matched(g)
  BY <1>1, <1>2 DEF Feeds, Observed, Matched, Playing
<1>4. QED  BY <1>1, <1>3 DEF g

(* Every step of the server, the two connections and the Bridge keeps it.  *)
LEMMA InvNext == Inv /\ [Next]_vars => Inv'
<1> SUFFICES ASSUME Inv, [Next]_vars PROVE Inv'
  OBVIOUS
<1>1. ASSUME NEW z \in Zones, NEW song \in Playing, Play(z, song) PROVE Inv'
  BY <1>1, PlayOrder
<1>2. ASSUME NEW z \in Zones, SendLyrics(z) PROVE Inv'
  BY <1>2, SendOrder
<1>3. CASE ZoneReported
  <2>1. /\ Head(mainWire) \in [zone : Zones, playing : Playing]
        /\ Tail(mainWire) \in Seq([zone : Zones, playing : Playing])
    <3>1. mainWire # <<>> /\ mainWire \in Seq([zone : Zones, playing : Playing])
      BY <1>3 DEF ZoneReported, Inv, Types
    <3>2. \A S : \A wire \in Seq(S) : wire # <<>> => Head(wire) \in S /\ Tail(wire) \in Seq(S)
      OBVIOUS
    <3>3. QED  BY <3>1, <3>2
  <2>2. [mainZones EXCEPT ![Head(mainWire).zone] = Head(mainWire).playing] \in [Zones -> Playing]
    BY <2>1 DEF Inv, Types
  <2>3. output \in Zones \cup {None}
    BY DEF Inv, Types
  <2>4. QED  BY <1>3, <2>1, <2>2, <2>3, ReconcileMatches DEF ZoneReported
<1>4. CASE SeekReported
  <2>1. mainZones \in [Zones -> Playing] /\ output \in Zones \cup {None}
        /\ mainWire' \in Seq([zone : Zones, playing : Playing])
    BY <1>4 DEF SeekReported, Inv, Types
  <2>2. QED  BY <1>4, <2>1, ReconcileMatches DEF SeekReported
<1>5. ASSUME NEW z \in Zones \cup {None}, OutputMoved(z) PROVE Inv'
  <2>1. mainZones \in [Zones -> Playing] /\ mainWire' \in Seq([zone : Zones, playing : Playing])
    BY <1>5 DEF OutputMoved, Inv, Types
  <2>2. QED  BY <1>5, <2>1, ReconcileMatches DEF OutputMoved
<1>6. CASE Stop \/ Lost
  <2>1. feed' = LoseConnection(feed) /\ link' = "closed" /\ privateWire' = <<>> /\ privateZones' = NoZones
        /\ due' = {} /\ playing' = playing /\ mainWire' = mainWire /\ mainZones' = mainZones /\ output' = output
    BY <1>6 DEF Stop, Lost, mainVars
  <2>2. Feeds(feed)
    BY DEF Inv, Types
  <2>3. /\ Feeds(feed') /\ Observed(feed') /\ Matched(feed')
        /\ feed'.accepted = None /\ feed'.keys = <<>> /\ feed'.pending = NoZones
    BY <2>1, <2>2, ForgottenMatches
  <2>4. Types'
    BY <2>1, <2>3 DEF Inv, Types, Feeds, Wires, NoZones, Playing
  <2>5. InOrder'
    BY <2>1 DEF InOrder
  <2>6. QED  BY <2>3, <2>4, <2>5 DEF Inv
<1>7. CASE Open
  <2>1. link # "paired" /\ link' # "paired" /\ UNCHANGED <<playing, due, mainWire, mainZones, output, privateWire, privateZones, feed>>
    BY <1>7 DEF Open, serverVars, mainVars
  <2>2. Types' /\ InOrder'
    BY <2>1 DEF Inv, Types, Feeds, InOrder
  <2>3. QED  BY <2>1, <2>2 DEF Inv, Observed, Matched
<1>8. CASE Paired
  <2> DEFINE item == [kind |-> "subscribed", zones |-> playing]
  <2>1. /\ privateWire' = <<item>> /\ link' = "paired" /\ due' = {z \in Zones : playing[z] # None}
        /\ UNCHANGED <<playing, mainWire, mainZones, output, privateZones, feed>>
    BY <1>8 DEF Paired, mainVars
  <2>2. item \in Items /\ \A y \in Zones : Tells(item, y) /\ Told(item, y) = playing[y]
    BY DEF Inv, Types, Items, Tells, Told
  <2>3. Types'
    <3>1. <<item>> \in Wires
      BY <2>2 DEF Wires
    <3>2. QED  BY <2>1, <3>1 DEF Inv, Types, Feeds
  <2>4. InOrder'
    <3>1. Len(privateWire') = 1 /\ privateWire'[1] = item /\ item.kind # "lyrics"
      BY <2>1
    <3> HIDE DEF item
    <3>2. \A y \in Zones : Heard(privateWire', privateZones', y, 1, playing'[y])
      BY <2>1, <2>2, <3>1 DEF Heard
    <3>3. QED  BY <2>1, <3>1, <3>2 DEF InOrder
  <2>5. QED  BY <2>1, <2>3, <2>4 DEF Inv, Observed, Matched
<1>9. CASE Delivered
  BY <1>9, DeliveredOrder
<1>10. CASE UNCHANGED vars
  BY <1>10 DEF vars, Inv, Types, InOrder, Feeds, Observed, Matched
<1>11. QED
  BY <1>1, <1>2, <1>3, <1>4, <1>5, <1>6, <1>7, <1>8, <1>9, <1>10 DEF Next, Server, Bridge, Private

(* The timeline the Bridge is given is the tracked track's, and nothing    *)
(* learnt from a connection outlives it, for any zones, songs and keys,    *)
(* and however far the connections are apart.                              *)
THEOREM LyricsMatch == Spec => []LyricsAreCurrent
<1>1. Inv => LyricsAreCurrent
  BY DEF Inv, Matched, LyricsAreCurrent, LyricsOfTrackedTrack, ForgottenWithConnection
<1>2. QED  BY InvInit, InvNext, <1>1, PTL DEF Spec

-----------------------------------------------------------------------------
(* The correlated keys                                                     *)
Correlations == [key : Songs, track : Songs]
Apart(keys) == \A i, j \in 1..Len(keys) : keys[i].key = keys[j].key => i = j
Keyed(f) == /\ f.keys \in Seq(Correlations)
            /\ Len(f.keys) <= MAX_CORRELATED_KEYS
            /\ Apart(f.keys)

KInv == /\ Keyed(feed)
        /\ changes \in 0..MaxChanges /\ losses \in 0..MaxLosses
        /\ link \in {"closed", "open", "paired"} /\ stopped \in BOOLEAN

(* Deleting one entry of a sequence keeps the others, in their order.      *)
LEMMA DeletedEntries ==
  ASSUME NEW keys \in Seq(Correlations), NEW i \in 1..Len(keys)
  PROVE  /\ Deleted(keys, i) \in Seq(Correlations)
         /\ Len(Deleted(keys, i)) = Len(keys) - 1
         /\ \A j \in 1..Len(keys) - 1 : Deleted(keys, i)[j] = IF j < i THEN keys[j] ELSE keys[j + 1]
<1> DEFINE before == SubSeq(keys, 1, i - 1)
           after  == SubSeq(keys, i + 1, Len(keys))
<1>1. Len(keys) \in Nat /\ i \in Nat \ {0}
  OBVIOUS
<1>2. /\ before \in Seq(Correlations) /\ Len(before) = i - 1
      /\ \A j \in 1..i - 1 : before[j] = keys[j]
  BY <1>1
<1>3. /\ after \in Seq(Correlations) /\ Len(after) = Len(keys) - i
      /\ \A j \in 1..Len(keys) - i : after[j] = keys[i + j]
  BY <1>1
<1> HIDE DEF before, after
<1>4. Deleted(keys, i) = before \o after
  BY DEF Deleted, before, after
<1>5. /\ before \o after \in Seq(Correlations) /\ Len(before \o after) = Len(before) + Len(after)
      /\ \A j \in 1..Len(before) + Len(after) :
           (before \o after)[j] = IF j <= Len(before) THEN before[j] ELSE after[j - Len(before)]
  BY <1>2, <1>3, ConcatProperties
<1>6. ASSUME NEW j \in 1..Len(keys) - 1
      PROVE  (before \o after)[j] = IF j < i THEN keys[j] ELSE keys[j + 1]
  <2>1. CASE j < i
    BY <1>1, <1>2, <1>3, <1>5, <2>1
  <2>2. CASE j >= i
    <3>1. j - (i - 1) \in 1..Len(keys) - i /\ i + (j - (i - 1)) = j + 1 /\ ~(j <= i - 1) /\ ~(j < i)
      BY <1>1, <2>2
    <3>2. after[j - (i - 1)] = keys[j + 1]
      BY <1>3, <3>1
    <3>3. QED  BY <1>1, <1>2, <1>3, <1>5, <3>1, <3>2
  <2>3. i \in Int /\ j \in Int
    BY <1>1
  <2>4. j < i \/ j >= i
    BY <2>3
  <2>5. QED  BY <2>1, <2>2, <2>4
<1>7. QED  BY <1>1, <1>2, <1>3, <1>4, <1>5, <1>6

(* A key that is accepted again moves to the end; one too many drops the   *)
(* first.                                                                  *)
LEMMA CorrelatedKeyed ==
  ASSUME NEW f, Feeds(f), Keyed(f), f.tracked # None, NEW e \in LyricEvents
  PROVE  /\ Correlated(f, e) \in Seq(Correlations)
         /\ Len(Correlated(f, e)) <= MAX_CORRELATED_KEYS
         /\ Apart(Correlated(f, e))
<1> DEFINE others == Uncorrelated(f, e)
           new    == [key |-> Key[e.song], track |-> f.tracked.playing]
           keys   == Append(others, new)
<1>1. new \in Correlations
  BY FeedAssumption DEF Feeds, Tracks, LyricEvents, Correlations
<1>2. /\ others \in Seq(Correlations) /\ Len(others) <= MAX_CORRELATED_KEYS /\ Apart(others)
      /\ \A j \in 1..Len(others) : others[j].key # new.key
  <2>1. CASE Correlation(f, e) = {}
    BY <2>1 DEF Uncorrelated, Keyed, Correlation
  <2>2. CASE Correlation(f, e) # {}
    <3>1. PICK i \in Correlation(f, e) : others = Deleted(f.keys, i)
      BY <2>2 DEF Uncorrelated
    <3>2. i \in 1..Len(f.keys) /\ f.keys[i].key = Key[e.song]
      BY <3>1 DEF Correlation, Keyed
    <3>3. /\ others \in Seq(Correlations) /\ Len(others) = Len(f.keys) - 1
          /\ \A j \in 1..Len(f.keys) - 1 : others[j] = IF j < i THEN f.keys[j] ELSE f.keys[j + 1]
      BY <3>1, <3>2, DeletedEntries DEF Keyed
    <3>4. Len(f.keys) \in Nat /\ Len(f.keys) <= MAX_CORRELATED_KEYS /\ Apart(f.keys) /\ MAX_CORRELATED_KEYS \in Nat
      BY FeedAssumption DEF Keyed
    <3> HIDE DEF others
    <3>5. ASSUME NEW j \in 1..Len(others)
          PROVE  \E m \in 1..Len(f.keys) : /\ m = (IF j < i THEN j ELSE j + 1)
                                           /\ m # i /\ others[j] = f.keys[m]
      BY <3>2, <3>3, <3>4
    <3>6. \A j \in 1..Len(others) : others[j].key # new.key
      BY <3>2, <3>4, <3>5 DEF Apart
    <3>7. Apart(others)
      <4> SUFFICES ASSUME NEW j \in 1..Len(others), NEW k \in 1..Len(others), others[j].key = others[k].key
                   PROVE  j = k
        BY DEF Apart
      <4>1. PICK m \in 1..Len(f.keys) : m = (IF j < i THEN j ELSE j + 1) /\ others[j] = f.keys[m]
        BY <3>5
      <4>2. PICK n \in 1..Len(f.keys) : n = (IF k < i THEN k ELSE k + 1) /\ others[k] = f.keys[n]
        BY <3>5
      <4>3. m = n
        BY <3>4, <4>1, <4>2 DEF Apart
      <4>4. QED  BY <3>2, <4>1, <4>2, <4>3
    <3>8. QED  BY <3>3, <3>4, <3>6, <3>7
  <2>3. QED  BY <2>1, <2>2
<1> HIDE DEF others, new
<1>3. /\ keys \in Seq(Correlations) /\ Len(keys) = Len(others) + 1 /\ Len(others) \in Nat
      /\ keys[Len(others) + 1] = new /\ \A j \in 1..Len(others) : keys[j] = others[j]
  BY <1>1, <1>2
<1> HIDE DEF keys
<1>4. Apart(keys)
  <2> SUFFICES ASSUME NEW j \in 1..Len(keys), NEW k \in 1..Len(keys), keys[j].key = keys[k].key
               PROVE  j = k
    BY DEF Apart
  <2>1. (j \in 1..Len(others) \/ j = Len(others) + 1) /\ (k \in 1..Len(others) \/ k = Len(others) + 1)
    BY <1>3
  <2>2. QED  BY <1>2, <1>3, <2>1 DEF Apart
<1>5. Correlated(f, e) = IF Len(keys) > MAX_CORRELATED_KEYS THEN Tail(keys) ELSE keys
  BY DEF Correlated, keys, others, new
<1>6. /\ Tail(keys) \in Seq(Correlations) /\ Len(Tail(keys)) = Len(others)
      /\ \A j \in 1..Len(others) : Tail(keys)[j] = keys[j + 1] /\ j + 1 \in 1..Len(keys)
  BY <1>3
<1>7. Apart(Tail(keys))
  <2> SUFFICES ASSUME NEW j \in 1..Len(others), NEW k \in 1..Len(others), Tail(keys)[j].key = Tail(keys)[k].key
               PROVE  j = k
    BY <1>6 DEF Apart
  <2>1. j + 1 = k + 1
    BY <1>4, <1>6 DEF Apart
  <2>2. QED  BY <1>3, <2>1
<1>8. QED  BY <1>2, <1>3, <1>4, <1>5, <1>6, <1>7, FeedAssumption

(* A feed accepts an event with the key of its song, or with none.         *)
LEMMA AcceptKeyed ==
  ASSUME NEW f, Feeds(f), Keyed(f), NEW e \in LyricEvents
  PROVE  Keyed(AcceptEvent(f, e))
<1> DEFINE g == AcceptEvent(f, e)
<1>1. \/ g = f
      \/ g = [f EXCEPT !.accepted = None]
      \/ f.tracked # None /\ g = [f EXCEPT !.accepted = e.song, !.keys = Correlated(f, e)]
  BY DEF AcceptEvent, Clear
<1>2. f = [tracked |-> f.tracked, accepted |-> f.accepted, keys |-> f.keys, pending |-> f.pending]
  BY DEF Feeds
<1> HIDE DEF g
<1>3. g.keys = f.keys \/ (f.tracked # None /\ g.keys = Correlated(f, e))
  BY <1>1, <1>2
<1>4. QED  BY <1>3, CorrelatedKeyed DEF Keyed, g

(* Retaining an event, or using it up, leaves the keys.                    *)
LEMMA PendingKeyed ==
  ASSUME NEW f, Feeds(f), Keyed(f), NEW z \in Zones, NEW kept \in LyricEvents \cup {None}
  PROVE  LET g == [f EXCEPT !.pending[z] = kept] IN Feeds(g) /\ Keyed(g)
<1> DEFINE g == [f EXCEPT !.pending[z] = kept]
<1>1. /\ g.tracked = f.tracked /\ g.accepted = f.accepted /\ g.keys = f.keys
      /\ g.pending = [f.pending EXCEPT ![z] = kept]
      /\ g = [tracked |-> g.tracked, accepted |-> g.accepted, keys |-> g.keys, pending |-> g.pending]
  BY DEF Feeds
<1> HIDE DEF g
<1>2. QED  BY <1>1 DEF Feeds, Keyed, g

(* An event, and a track, add at most the key they accept.                 *)
LEMMA EventKeyed ==
  ASSUME NEW f, Feeds(f), Keyed(f), NEW e \in LyricEvents
  PROVE  Keyed(OnEvent(f, e))
<1>1. e.zone \in Zones
  BY DEF LyricEvents
<1>2. CASE f.tracked = [zone |-> e.zone, playing |-> e.observed]
  <2> DEFINE g == [f EXCEPT !.pending[e.zone] = None]
  <2>1. Feeds(g) /\ Keyed(g)
    BY <1>1, PendingKeyed
  <2>2. OnEvent(f, e) = AcceptEvent(g, e)
    BY <1>2 DEF OnEvent
  <2> HIDE DEF g
  <2>3. QED  BY <2>1, <2>2, AcceptKeyed
<1>3. CASE f.tracked # [zone |-> e.zone, playing |-> e.observed]
  <2>1. OnEvent(f, e) = [f EXCEPT !.pending[e.zone] = e]
    BY <1>3 DEF OnEvent, RetainEvent
  <2>2. QED  BY <1>1, <2>1, PendingKeyed
<1>4. QED  BY <1>2, <1>3

(* The same of a track that becomes tracked.                               *)
LEMMA TrackKeyed ==
  ASSUME NEW f, Feeds(f), Keyed(f), NEW next \in Tracks \cup {None}
  PROVE  Keyed(Track(f, next))
<1> DEFINE h == Retracked(f, next)
<1>1. /\ h.tracked = next /\ h.pending = f.pending /\ h.keys = f.keys /\ h.accepted \in {None, f.accepted}
      /\ h = [tracked |-> h.tracked, accepted |-> h.accepted, keys |-> h.keys, pending |-> h.pending]
  BY DEF Feeds, Retracked, Clear
<1> HIDE DEF h
<1>2. Feeds(h) /\ Keyed(h)
  BY <1>1 DEF Feeds, Keyed, Playing
<1>3. CASE next = None
  BY <1>2, <1>3 DEF Track, h
<1>4. CASE next # None
  <2> DEFINE e == f.pending[next.zone]
             g == [h EXCEPT !.pending[next.zone] = None]
  <2>1. next.zone \in Zones
    BY <1>4 DEF Tracks
  <2>2. Feeds(g) /\ Keyed(g)
    BY <1>2, <2>1, PendingKeyed
  <2>3. e \in LyricEvents \cup {None}
    BY <2>1 DEF Feeds
  <2>4. Track(f, next) = g \/ (e # None /\ Track(f, next) = AcceptEvent(g, e))
    BY <1>4 DEF Track, h
  <2> HIDE DEF g, e
  <2>5. QED  BY <2>2, <2>3, <2>4, AcceptKeyed
<1>5. QED  BY <1>3, <1>4

(* Every step keeps the keys, the counters and the connection in range.    *)
LEMMA KInvNext == Inv /\ KInv /\ [Next]_vars => KInv'
<1> SUFFICES ASSUME Inv, KInv, [Next]_vars PROVE KInv'
  OBVIOUS
<1>1. Feeds(feed) /\ Keyed(feed)
  BY DEF Inv, Types, KInv
<1>2. Keyed(feed')
  <2>1. ASSUME NEW zones \in [Zones -> Playing], NEW z \in Zones \cup {None}, Reconcile(zones, z)
        PROVE  Keyed(feed')
    <3>1. TrackedIn(zones, z) \in Tracks \cup {None}
      BY DEF TrackedIn, Tracks, Playing
    <3>2. QED  BY <1>1, <2>1, <3>1, TrackKeyed DEF Reconcile
  <2>2. CASE Bridge /\ ~Stop
    <3>1. CASE ZoneReported
      <4>1. /\ mainWire # <<>> /\ mainWire \in Seq([zone : Zones, playing : Playing])
        BY <3>1 DEF ZoneReported, Inv, Types
      <4>2. \A S : \A wire \in Seq(S) : wire # <<>> => Head(wire) \in S
        OBVIOUS
      <4>3. Head(mainWire) \in [zone : Zones, playing : Playing]
        BY <4>1, <4>2
      <4>4. [mainZones EXCEPT ![Head(mainWire).zone] = Head(mainWire).playing] \in [Zones -> Playing]
            /\ output \in Zones \cup {None}
        BY <4>3 DEF Inv, Types
      <4>5. QED  BY <2>1, <3>1, <4>4 DEF ZoneReported
    <3>2. CASE SeekReported
      BY <2>1, <3>2 DEF SeekReported, Inv, Types
    <3>3. ASSUME NEW z \in Zones \cup {None}, OutputMoved(z) PROVE Keyed(feed')
      BY <2>1, <3>3 DEF OutputMoved, Inv, Types
    <3>4. QED  BY <2>2, <3>1, <3>2, <3>3 DEF Bridge
  <2>3. CASE Stop \/ Lost
    <3>1. feed'.keys = <<>>
      BY <1>1, <2>3, ForgottenMatches DEF Stop, Lost
    <3>2. QED  BY <3>1, FeedAssumption DEF Keyed, Apart
  <2>4. CASE Delivered
    <3>1. /\ privateWire \in Wires /\ privateWire # <<>>
      BY <2>4 DEF Delivered, Inv, Types
    <3>2. Head(privateWire) \in Items
      BY <3>1 DEF Wires
    <3>3. CASE feed' = feed
      BY <1>1, <3>3
    <3>4. CASE Head(privateWire).kind = "lyrics"
      <4> DEFINE item == Head(privateWire)
                 e == [zone |-> item.zone, song |-> item.playing, observed |-> privateZones[item.zone]]
      <4>1. item.zone \in Zones /\ item.playing \in Songs
        BY <3>2, <3>4 DEF Items
      <4>2. e \in LyricEvents
        BY <4>1 DEF Inv, Types, LyricEvents
      <4>3. feed' = OnEvent(feed, e)
        BY <2>4, <3>4 DEF Delivered
      <4> HIDE DEF e
      <4>4. QED  BY <1>1, <4>2, <4>3, EventKeyed
    <3>5. QED  BY <2>4, <3>3, <3>4 DEF Delivered
  <2>5. CASE Server \/ Open \/ Paired \/ UNCHANGED vars
    <3>1. UNCHANGED feed
      BY <2>5 DEF Server, Play, SendLyrics, Open, Paired, vars
    <3>2. QED  BY <1>1, <3>1
  <2>6. QED  BY <2>2, <2>3, <2>4, <2>5 DEF Next, Bridge, Private
<1>3. changes' \in 0..MaxChanges
  <2>1. changes' = changes \/ (changes < MaxChanges /\ changes' = changes + 1)
    BY DEF Next, Server, Bridge, Private, Play, SendLyrics, ZoneReported, SeekReported, OutputMoved, Stop, Open,
       Paired, Delivered, Lost, vars, serverVars
  <2>2. QED  BY <2>1, FeedAssumption DEF KInv
<1>4. losses' \in 0..MaxLosses
  <2>1. losses' = losses \/ (losses < MaxLosses /\ losses' = losses + 1)
    BY DEF Next, Server, Bridge, Private, Play, SendLyrics, ZoneReported, SeekReported, OutputMoved, Stop, Open,
       Paired, Delivered, Lost, vars, linkVars
  <2>2. QED  BY <2>1, FeedAssumption DEF KInv
<1>5. link' \in {link, "closed", "open", "paired"} /\ stopped' \in {stopped, TRUE}
  BY DEF Next, Server, Bridge, Private, Play, SendLyrics, ZoneReported, SeekReported, OutputMoved, Stop, Open,
     Paired, Delivered, Lost, vars, linkVars
<1>6. QED  BY <1>2, <1>3, <1>4, <1>5 DEF KInv

(* Every variable keeps its type, for any zones, songs and keys: there are *)
(* never more correlated keys than the limit, and none of them twice.      *)
THEOREM TypeCorrect == Spec => []TypeOK
<1>1. Init => KInv
  <2>1. SUFFICES ASSUME Init  PROVE KInv
    OBVIOUS
  <2>2. feed.keys = <<>> /\ changes = 0 /\ losses = 0 /\ link = "open" /\ stopped = FALSE
    BY <2>1 DEF Init, NewFeed
  <2>3. 0 \in 0..MaxChanges /\ 0 \in 0..MaxLosses /\ MAX_CORRELATED_KEYS \in Nat
    BY FeedAssumption
  <2>4. <<>> \in Seq(Correlations) /\ Len(<<>>) = 0
    OBVIOUS
  <2>5. Keyed(feed)
    BY <2>2, <2>3, <2>4 DEF Keyed, Apart
  <2>6. QED  BY <2>2, <2>3, <2>5 DEF KInv
<1>2. Inv /\ KInv => TypeOK
  <2>1. SUFFICES ASSUME Inv, KInv  PROVE TypeOK
    OBVIOUS
  <2>2. /\ feed.keys \in Seq(Correlations) /\ Len(feed.keys) <= MAX_CORRELATED_KEYS
        /\ \A i, j \in 1..Len(feed.keys) : feed.keys[i].key = feed.keys[j].key => i = j
    BY <2>1 DEF KInv, Keyed, Apart
  <2>3. DOMAIN feed.keys = 1..Len(feed.keys)
    BY <2>2
  <2>4. feed.keys \in Seq([key : Songs, track : Songs])
    BY <2>2 DEF Correlations
  <2>5. /\ feed.tracked \in Tracks \cup {None} /\ feed.accepted \in Playing
        /\ feed.pending \in [Zones -> LyricEvents \cup {None}]
    BY <2>1 DEF Inv, Types, Feeds
  <2>6. /\ playing \in [Zones -> Playing] /\ mainZones \in [Zones -> Playing]
        /\ privateZones \in [Zones -> Playing] /\ due \subseteq Zones /\ output \in Zones \cup {None}
    BY <2>1 DEF Inv, Types
  <2>7. QED  BY <2>1, <2>2, <2>3, <2>4, <2>5, <2>6 DEF KInv, TypeOK
<1>3. QED  BY InvInit, InvNext, KInvNext, <1>1, <1>2, PTL DEF Spec
=============================================================================
