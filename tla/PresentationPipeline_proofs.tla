--------------------- MODULE PresentationPipeline_proofs ---------------------
(***************************************************************************)
(* What is on the screen is of one presentation, and superseded content     *)
(* never makes its first appearance, for any presentations and however the  *)
(* worker thread, its channels and the main loop interleave.                *)
(*                                                                          *)
(* The argument: a generation is one song's, and within it a revision is    *)
(* one snapshot's; the state displayed and the one that lyrics are timed by *)
(* are of the same generation, and a reply that bears the current number    *)
(* answers the current question.                                            *)
(***************************************************************************)
EXTENDS PresentationPipeline, SequenceTheorems, WellFoundedInduction, TLAPS

Places == {"idle", "preparing", "notifying"}

(* Requests made by the time of number t; those of that number ask for k.  *)
Work(t, k) == {w \in [token : 1..t, key : Keys] : w.token = t => w.key = k}

Unanswered == Len(requests) + Len(replies) + (IF worker.at = "preparing" THEN 1 ELSE 0)

AskedInv ==
  /\ incoming \in States /\ updates \in 0..MaxUpdates /\ incoming.gen <= updates
  /\ key = PreparationKey(incoming)
  /\ token \in 1..(updates + 1)
  /\ ready \in {None, key} /\ installed \in Keys \cup {None}
  /\ requests \in Seq(Work(token, key)) /\ replies \in Seq(Work(token, key))
  /\ worker = [at |-> worker.at, work |-> worker.work] /\ worker.at \in Places
  /\ worker.at # "idle" => worker.work \in Work(token, key)
  /\ Unanswered <= token

(* y may be what became of x: a generation keeps its song, and a revision  *)
(* of it is one snapshot.                                                  *)
Follows(x, y) ==
  /\ x.gen <= y.gen
  /\ x.gen = y.gen => x.rev <= y.rev /\ x.shows.song = y.shows.song
  /\ x.gen = y.gen /\ x.rev = y.rev => x.shows = y.shows

TimelineInv ==
  LET d == displayed
  IN /\ d = [state |-> d.state, timing |-> d.timing, art |-> d.art]
     /\ d.state \in States /\ d.timing \in States
     /\ d.state.gen = d.timing.gen
     /\ Follows(d.timing, d.state) /\ Follows(d.state, incoming)
     /\ Full(d.state.shows) <=> Full(d.timing.shows)

(* What is on the screen against what it is made of.                       *)
Composed(s, d, i) ==
  /\ s = [song |-> s.song, name |-> s.name, art |-> s.art, cue |-> s.cue]
  /\ Full(s) <=> Full(d.state.shows)
  /\ ~Full(d.state.shows) =>
       /\ d.state.shows.song \in Untitled => d.art # None
       /\ s.song = d.state.shows.song /\ s.art = d.art /\ s.cue = d.timing.shows.cue
       /\ d.art # None => d.art[1] = s.song
       /\ i # None => /\ i.shows.song = s.song
                      /\ s.cue # None => i.shows.cue = s.cue

FlagsInv == /\ generation \in 0..MaxUpdates /\ departure \in {"none", "going", "over"}
            /\ dirty \in BOOLEAN /\ woken \in BOOLEAN

PInv == AskedInv /\ TimelineInv /\ Composed(shown, displayed, installed) /\ FlagsInv

-----------------------------------------------------------------------------
(* Some index is the last.                                                 *)
LEMMA LastIndex ==
  ASSUME NEW n \in Nat, NEW S \in SUBSET (1..n), S # {}
  PROVE  \E i \in S : \A j \in S : j <= i
<1> DEFINE R == OpToRel(<, Nat)
           Q == {n - i : i \in S}
<1>1. IsWellFoundedOn(R, Nat)
  BY NatLessThanWellFounded
<1>2. Q \subseteq Nat /\ Q # {}
  <2>1. \A i \in S : n - i \in Nat
    OBVIOUS
  <2>2. QED  BY <2>1
<1>3. PICK m \in Q : \A x \in Q : ~(<<x, m>> \in R)
  BY <1>1, <1>2, WFMin
<1>4. \A x \in Q : ~(x < m)
  BY <1>2, <1>3 DEF OpToRel
<1>5. PICK i \in S : m = n - i
  OBVIOUS
<1>6. \A j \in S : ~(n - j < n - i)
  BY <1>4, <1>5
<1>7. QED  BY <1>5, <1>6

(* A reply that answers the latest request is about it.                    *)
LEMMA AdoptedIsAsked ==
  ASSUME AskedInv
  PROVE  Adopted \in {None, key}
<1>1. Len(replies) \in Nat /\ DOMAIN replies = 1..Len(replies)
      /\ \A i \in 1..Len(replies) : replies[i] \in Work(token, key)
  BY DEF AskedInv
<1>2. CASE Answers = {}
  BY <1>2 DEF Adopted, AskedInv
<1>3. CASE Answers # {}
  <2>1. Answers \subseteq 1..Len(replies)
    BY <1>1 DEF Answers
  <2>2. \E i \in Answers : \A j \in Answers : j <= i
    BY <1>1, <1>3, <2>1, LastIndex
  <2>3. PICK i \in Answers : i = CHOOSE k \in Answers : \A j \in Answers : j <= k
    BY <2>2
  <2>4. Adopted = replies[i].key
    BY <1>3, <2>3 DEF Adopted
  <2>5. replies[i] \in Work(token, key) /\ replies[i].token = token
    BY <1>1, <2>1 DEF Answers
  <2>6. QED  BY <2>4, <2>5 DEF Work
<1>4. QED  BY <1>2, <1>3

(* The events keep a generation to one song and a revision to one snapshot. *)
LEMMA EventFollows ==
  ASSUME NEW x, NEW y \in States, NEW z \in AfterEvent(y), x.gen \in Nat, x.rev \in Nat, Follows(x, y)
  PROVE  Follows(x, z)
<1> USE PipelineAssumption
<1>1. y.gen \in Nat /\ y.rev \in Nat /\ y = [rev |-> y.rev, gen |-> y.gen, shows |-> y.shows]
  BY DEF States
<1>2. CASE z = Disconnect(y)
  BY <1>1, <1>2 DEF Disconnect, Follows
<1>3. ASSUME NEW rev \in {r \in 1..MaxRevision : r > y.rev \/ y.shows = Disconnected},
             NEW p \in Contents, z = Update(y, rev, p)
      PROVE  Follows(x, z)
  <2>1. z.rev = rev /\ z.shows = p /\ z.gen = IF Continues(y.shows, p) THEN y.gen ELSE y.gen + 1
    BY <1>3 DEF Update
  <2>2. Continues(y.shows, p) => rev > y.rev /\ p.song = y.shows.song
    BY <1>3 DEF Continues
  <2>3. rev \in Nat
    BY <1>3
  <2>4. QED  BY <1>1, <2>1, <2>2, <2>3 DEF Follows
<1>4. QED  BY <1>2, <1>3 DEF AfterEvent

(* An event leaves a state, of the same generation or of the next.         *)
LEMMA EventTyped ==
  ASSUME NEW y \in States, NEW z \in AfterEvent(y), y.gen < MaxUpdates
  PROVE  z \in States /\ z.gen <= y.gen + 1
<1> USE PipelineAssumption
<1>1. y.gen \in Nat /\ y.rev \in 0..MaxRevision /\ y = [rev |-> y.rev, gen |-> y.gen, shows |-> y.shows]
  BY DEF States
<1>2. CASE z = Disconnect(y)
  <2>1. z = [rev |-> y.rev, gen |-> y.gen + 1, shows |-> Disconnected]
    BY <1>1, <1>2 DEF Disconnect
  <2>2. y.gen + 1 \in 0..MaxUpdates
    BY <1>1
  <2>3. QED  BY <1>1, <2>1, <2>2 DEF States
<1>3. ASSUME NEW rev \in 1..MaxRevision, NEW p \in Contents, z = Update(y, rev, p)
      PROVE  z \in States /\ z.gen <= y.gen + 1
  BY <1>1, <1>3 DEF Update, States
<1>4. QED  BY <1>2, <1>3 DEF AfterEvent

(* A later number makes every earlier request one that is thrown away.     *)
LEMMA WorkGrows ==
  ASSUME NEW t \in Nat, NEW k, NEW k2, NEW s \in Seq(Work(t, k))
  PROVE  s \in Seq(Work(t + 1, k2))
<1>1. Work(t, k) \subseteq Work(t + 1, k2)
  BY DEF Work
<1>2. QED  BY <1>1

-----------------------------------------------------------------------------
(* The invariant holds at first ...                                        *)
LEMMA InitPInv == Init => PInv
<1> SUFFICES ASSUME Init PROVE PInv
  OBVIOUS
<1> USE PipelineAssumption, ContentsAssumption
<1>1. Start \in States /\ Start.gen = 0 /\ Start.shows = Disconnected /\ Start.rev = 0
  BY DEF Start, States
<1>2. PreparationKey(Start) \in Keys
  BY <1>1 DEF PreparationKey, Keys
<1>3. AskedInv
  <2> DEFINE w == [token |-> 1, key |-> PreparationKey(Start)]
  <2>1. w \in Work(1, PreparationKey(Start))
    BY <1>2 DEF Work
  <2>2. <<w>> \in Seq(Work(1, PreparationKey(Start))) /\ Len(<<w>>) = 1
    BY <2>1
  <2>3. QED  BY <1>1, <2>2 DEF Init, AskedInv, Unanswered, Places
<1>4. TimelineInv
  BY <1>1 DEF Init, TimelineInv, Follows
<1>5. Composed(shown, displayed, installed)
  BY <1>1 DEF Init, Composed, Full
<1>6. FlagsInv
  <2>1. 0 \in 0..MaxUpdates
    OBVIOUS
  <2>2. QED  BY <2>1, Zenon DEF Init, FlagsInv
<1>7. QED  BY <1>3, <1>4, <1>5, <1>6 DEF PInv

(* A handler that has changed the state asks the worker for it.            *)
LEMMA ObserveKeeps ==
  ASSUME PInv, NEW next \in States, NEW events \in {1, 2}, Follows(displayed.state, next),
         next.gen <= updates + events, Observe(next, events)
  PROVE  PInv'
<1> USE PipelineAssumption
<1>1. PreparationKey(next) \in Keys
  BY DEF PreparationKey, Keys, States
<1>2. AskedInv'
  <2>1. incoming' \in States /\ updates' \in 0..MaxUpdates /\ incoming'.gen <= updates'
    BY DEF Observe, PInv, AskedInv, States
  <2>2. CASE key = PreparationKey(next)
    BY <2>1, <2>2 DEF Observe, Request, PInv, AskedInv, Unanswered
  <2>3. CASE key # PreparationKey(next)
    <3> DEFINE w == [token |-> token + 1, key |-> PreparationKey(next)]
    <3>1. /\ token' = token + 1 /\ key' = PreparationKey(next) /\ ready' = None
          /\ requests' = Append(requests, w) /\ token \in Nat
      BY <2>3 DEF Observe, Request, PInv, AskedInv
    <3>2. w \in Work(token + 1, key')
      BY <1>1, <3>1 DEF Work
    <3>3. requests \in Seq(Work(token + 1, key')) /\ replies \in Seq(Work(token + 1, key'))
      BY <3>1, WorkGrows DEF PInv, AskedInv
    <3>4. requests' \in Seq(Work(token', key')) /\ Len(requests') = Len(requests) + 1
          /\ Len(requests) \in Nat /\ Len(replies) \in Nat
      BY <3>1, <3>2, <3>3
    <3>5. worker.at # "idle" => worker.work \in Work(token', key')
      BY <3>1 DEF PInv, AskedInv, Work
    <3>6. token' \in 1..(updates' + 1)
      BY <3>1 DEF Observe, PInv, AskedInv
    <3>7. Unanswered' <= token'
      BY <3>1, <3>4 DEF Observe, PInv, AskedInv, Unanswered
    <3>8. QED  BY <2>1, <3>1, <3>3, <3>4, <3>5, <3>6, <3>7 DEF Observe, PInv, AskedInv
  <2>4. QED  BY <2>2, <2>3
<1>3. TimelineInv'
  BY DEF Observe, PInv, TimelineInv
<1>4. QED  BY <1>2, <1>3 DEF Observe, PInv, FlagsInv

(* ... after snapshots have been drained ...                               *)
LEMMA SnapshotsKeep == ASSUME PInv, Snapshots PROVE PInv'
<1> USE PipelineAssumption
<1>0. /\ incoming \in States /\ incoming.gen \in Nat /\ updates \in Nat /\ incoming.gen <= updates
      /\ displayed.state.gen \in Nat /\ displayed.state.rev \in Nat
      /\ Follows(displayed.state, incoming)
  BY DEF PInv, AskedInv, TimelineInv, States
<1>1. PICK next \in AfterEvent(incoming) :
        Observe(next, 1) \/ \E last \in AfterEvent(next) : Observe(last, 2)
  BY DEF Snapshots
<1>2. updates < MaxUpdates
  BY <1>0, <1>1 DEF Observe
<1>3. next \in States /\ next.gen <= incoming.gen + 1 /\ next.gen \in Nat
  <2>1. next \in States /\ next.gen <= incoming.gen + 1
    BY <1>0, <1>2, EventTyped
  <2>2. QED  BY <2>1 DEF States
<1>4. Follows(displayed.state, next)
  BY <1>0, EventFollows
<1>5. CASE Observe(next, 1)
  BY <1>0, <1>3, <1>4, <1>5, ObserveKeeps
<1>6. ASSUME NEW last \in AfterEvent(next), Observe(last, 2) PROVE PInv'
  <2>1. updates + 2 <= MaxUpdates
    BY <1>6 DEF Observe
  <2>2. last \in States /\ last.gen <= next.gen + 1
    BY <1>0, <1>3, <2>1, EventTyped
  <2>3. last.gen \in Nat
    BY <2>2 DEF States
  <2>4. Follows(displayed.state, last)
    BY <1>0, <1>3, <1>4, EventFollows
  <2>5. QED  BY <1>0, <1>3, <1>6, <2>2, <2>3, <2>4, ObserveKeeps
<1>7. QED  BY <1>1, <1>5, <1>6

-----------------------------------------------------------------------------
(* Retained names leave the rest of a presentation.                        *)
LEMMA NamesRetained ==
  ASSUME NEW p, NEW revealing, ~revealing, ~Full(p), ~Full(shown),
         p = [song |-> p.song, name |-> p.name, art |-> p.art, cue |-> p.cue]
  PROVE  Retained(p, revealing) = [song |-> shown.song, name |-> shown.name, art |-> p.art, cue |-> p.cue]
<1>1. PICK q : q = [p EXCEPT !.song = shown.song]
  OBVIOUS
<1>2. q = [song |-> shown.song, name |-> p.name, art |-> p.art, cue |-> p.cue]
  BY <1>1
<1>3. [q EXCEPT !.name = shown.name]
        = [song |-> shown.song, name |-> shown.name, art |-> p.art, cue |-> p.cue]
  BY <1>2
<1>4. QED  BY <1>1, <1>3, Zenon DEF Retained

(* A frame that reveals shows the latest state whole; another shows the     *)
(* song that is displayed, with its own artwork and timeline.               *)
LEMMA FrameComposed ==
  ASSUME TimelineInv, incoming \in States, Composed(shown, displayed, installed),
         NEW revealing \in BOOLEAN, NEW i, revealing => i = PreparationKey(incoming), ~revealing => i = installed,
         NEW f, f = FrameAt(displayed, revealing, LyricsReady(incoming.shows))
  PROVE  /\ f.displayed = [state |-> f.displayed.state, timing |-> f.displayed.timing, art |-> f.displayed.art]
         /\ f.displayed.state \in States /\ f.displayed.timing \in States
         /\ f.displayed.state.gen = f.displayed.timing.gen
         /\ Follows(f.displayed.timing, f.displayed.state) /\ Follows(f.displayed.state, incoming)
         /\ Full(f.displayed.state.shows) <=> Full(f.displayed.timing.shows)
         /\ Composed(Retained(f.shows, revealing), f.displayed, i)
<1> DEFINE d == displayed
           ds == f.displayed
<1> USE PipelineAssumption
<1>0. /\ d.state \in States /\ d.timing \in States /\ d.state.gen = d.timing.gen
      /\ Follows(d.timing, d.state) /\ Follows(d.state, incoming)
      /\ Full(d.state.shows) <=> Full(d.timing.shows)
      /\ \A s \in States : s.gen \in Nat /\ s.rev \in Nat /\ s.shows \in Contents \cup {Disconnected}
  BY DEF TimelineInv, States
<1>1. Follows(incoming, incoming)
  BY <1>0 DEF Follows
<1>2. \A p \in Contents \cup {Disconnected} :
        /\ p = [song |-> p.song, name |-> p.name, art |-> p.art, cue |-> p.cue]
        /\ p.art # None => p.art[1] = p.song
        /\ p.cue # None => p.cue[1] = p.song
  BY ContentsAssumption
<1>3. CASE revealing
  <2>1. /\ ds.state = IF Changed(d) THEN incoming ELSE d.state
        /\ ds.timing = incoming /\ ds.art = incoming.shows.art
        /\ ds = [state |-> ds.state, timing |-> ds.timing, art |-> ds.art]
    BY <1>3 DEF FrameAt
  <2>2. ds.state.rev = incoming.rev /\ ds.state.gen = incoming.gen /\ ds.state.shows = incoming.shows
        /\ ds.state \in States
    BY <1>0, <2>1 DEF Changed, Follows
  <2>3. f.shows = incoming.shows
    <3>1. ds.timing.rev = ds.state.rev
      BY <2>1, <2>2
    <3>2. f.shows = [incoming.shows EXCEPT !.cue = @, !.art = @]
      BY <1>3, <2>1, <3>1 DEF FrameAt
    <3>3. incoming.shows \in Contents \cup {Disconnected}
      BY <1>0
    <3>4. QED  BY <1>2, <3>2, <3>3
  <2>4. Retained(f.shows, revealing) = incoming.shows
    BY <1>3, <2>3 DEF Retained
  <2>5. Composed(incoming.shows, ds, i)
    <3>1. incoming.shows \in Contents \cup {Disconnected}
      BY <1>0
    <3>2. i.shows = incoming.shows
      BY <1>3 DEF PreparationKey
    <3>3. ~Full(incoming.shows) /\ incoming.shows.song \in Untitled => incoming.shows.art # None
      BY DEF Full
    <3>4. QED  BY <1>2, <2>1, <2>2, <3>1, <3>2, <3>3 DEF Composed
  <2>6. Follows(ds.timing, ds.state) /\ Follows(ds.state, incoming)
    BY <1>1, <2>1, <2>2 DEF Follows
  <2>7. QED  BY <2>1, <2>2, <2>4, <2>5, <2>6
<1>4. CASE ~revealing /\ SameSong(d)
  <2>1. /\ ds.state = IF Changed(d) THEN incoming ELSE d.state
        /\ ds.timing = IF LyricsReady(incoming.shows) THEN incoming ELSE d.timing
        /\ ds.art = d.art
        /\ ds = [state |-> ds.state, timing |-> ds.timing, art |-> ds.art]
    BY <1>4 DEF FrameAt
  <2>2. incoming.gen = d.state.gen /\ ~Full(incoming.shows) /\ ~Full(d.state.shows)
    BY <1>4 DEF SameSong
  <2>3. ds.state.rev = incoming.rev /\ ds.state.gen = incoming.gen /\ ds.state.shows = incoming.shows
        /\ ds.state \in States
    BY <1>0, <2>1 DEF Changed, Follows
  <2>4. ds.timing \in States /\ ds.timing.gen = incoming.gen /\ ~Full(ds.timing.shows)
        /\ ds.timing.shows.song = incoming.shows.song
        /\ Follows(ds.timing, incoming)
    BY <1>0, <1>1, <2>1, <2>2 DEF Follows
  <2>5. f.shows = [incoming.shows EXCEPT !.cue = ds.timing.shows.cue, !.art = d.art]
    <3>1. f.shows = [incoming.shows EXCEPT
                       !.cue = IF ds.timing.rev # ds.state.rev THEN ds.timing.shows.cue ELSE @, !.art = d.art]
      BY <1>4, <2>1, <2>2, <2>4 DEF FrameAt
    <3>2. ds.timing.rev = ds.state.rev => ds.timing.shows.cue = incoming.shows.cue
      BY <2>3, <2>4 DEF Follows
    <3>3. QED  BY <1>0, <1>2, <3>1, <3>2
  <2>6. f.shows = [song |-> incoming.shows.song, name |-> incoming.shows.name,
                   art |-> d.art, cue |-> ds.timing.shows.cue]
    BY <1>0, <1>2, <2>5
  <2>7. incoming.shows.song = d.state.shows.song /\ incoming.shows.song # None
    BY <1>0, <2>2 DEF Follows, Full
  <2>8. ~Full(f.shows) /\ ~Full(shown)
    BY <2>2, <2>6, <2>7 DEF Composed, Full
  <2>9. Retained(f.shows, revealing) = [song |-> incoming.shows.song, name |-> shown.name,
                                        art |-> d.art, cue |-> ds.timing.shows.cue]
    <3>1. shown.song = incoming.shows.song
      BY <2>2, <2>7 DEF Composed
    <3>2. f.shows = [song |-> f.shows.song, name |-> f.shows.name, art |-> f.shows.art, cue |-> f.shows.cue]
      BY <2>6
    <3>3. Retained(f.shows, revealing) = [song |-> shown.song, name |-> shown.name,
                                      art |-> f.shows.art, cue |-> f.shows.cue]
      BY <1>4, <2>8, <3>2, NamesRetained
    <3>4. QED  BY <1>4, <2>6, <3>1, <3>3
  <2>10. ds.timing.shows.cue # None /\ installed # None => installed.shows.cue = ds.timing.shows.cue
    BY <2>1, <2>2 DEF LyricsReady, Composed
  <2>11. Composed(Retained(f.shows, revealing), ds, i)
    BY <1>0, <1>2, <1>4, <2>1, <2>2, <2>3, <2>4, <2>7, <2>8, <2>9, <2>10 DEF Composed, Full
  <2>12. Follows(ds.timing, ds.state) /\ Follows(ds.state, incoming)
    BY <1>0, <1>1, <2>3, <2>4 DEF Follows
  <2>13. QED  BY <2>1, <2>2, <2>3, <2>4, <2>11, <2>12
<1>5. CASE ~revealing /\ ~SameSong(d)
  <2>1. ds = [state |-> d.state, timing |-> d.timing, art |-> d.art]
    BY <1>5 DEF FrameAt, TimelineInv
  <2>2. Follows(ds.timing, ds.state) /\ Follows(ds.state, incoming)
    BY <1>0, <2>1
  <2>3. CASE Full(d.state.shows)
    <3>1. f.shows = d.state.shows
      <4>1. d.state.shows \in Contents \cup {Disconnected}
        BY <1>0
      <4>2. f.shows = [d.state.shows EXCEPT !.cue = @, !.art = @]
        BY <1>5, <2>3 DEF FrameAt
      <4>3. QED  BY <1>2, <4>1, <4>2
    <3>2. Retained(f.shows, revealing) = d.state.shows
      BY <2>3, <3>1 DEF Retained
    <3>3. Composed(d.state.shows, ds, i)
      BY <1>0, <1>2, <2>1, <2>3 DEF Composed
    <3>4. QED  BY <1>0, <2>1, <2>2, <3>2, <3>3
  <2>4. CASE ~Full(d.state.shows)
    <3>1. d.timing.rev = d.state.rev => d.timing.shows.cue = d.state.shows.cue
      BY <1>0 DEF Follows
    <3>2. f.shows = [d.state.shows EXCEPT !.cue = d.timing.shows.cue, !.art = d.art]
      BY <1>0, <1>2, <1>5, <2>4, <3>1 DEF FrameAt
    <3>3. f.shows = [song |-> d.state.shows.song, name |-> d.state.shows.name,
                     art |-> d.art, cue |-> d.timing.shows.cue]
      BY <1>0, <1>2, <3>2
    <3>4. ~Full(f.shows) /\ ~Full(shown)
      BY <2>4, <3>3 DEF Composed, Full
    <3>5. Retained(f.shows, revealing) = shown
      <4>1. shown = [song |-> d.state.shows.song, name |-> shown.name, art |-> d.art, cue |-> d.timing.shows.cue]
        BY <2>4 DEF Composed
      <4>2. f.shows = [song |-> f.shows.song, name |-> f.shows.name, art |-> f.shows.art, cue |-> f.shows.cue]
        BY <3>3
      <4>3. Retained(f.shows, revealing) = [song |-> shown.song, name |-> shown.name,
                                        art |-> f.shows.art, cue |-> f.shows.cue]
        BY <1>5, <3>4, <4>2, NamesRetained
      <4>4. shown.song = d.state.shows.song
        BY <2>4 DEF Composed
      <4>5. QED  BY <1>5, <3>3, <4>1, <4>3, <4>4
    <3>6. Composed(shown, ds, i)
      BY <1>5, <2>1 DEF Composed
    <3>7. QED  BY <1>0, <2>1, <2>2, <3>5, <3>6
  <2>5. QED  BY <2>3, <2>4
<1>6. QED  BY <1>3, <1>4, <1>5

(* What a frame does to the view, and to what is displayed.                *)
LEMMA RenderFrame ==
  ASSUME PInv, Render
  PROVE  \E revealing \in BOOLEAN :
           LET f == FrameAt(displayed, revealing, LyricsReady(incoming.shows))
           IN /\ displayed' = f.displayed
              /\ shown' = Retained(f.shows, revealing)
              /\ revealing => installed' = key
              /\ ~revealing => installed' = installed
              /\ installed' \in {installed, key}
              /\ ready' \in {None, key}
              /\ generation' \in {generation, f.displayed.state.gen}
              /\ departure' \in {departure, "none", "going", "over"}
<1>1. Adopted \in {None, key}
  BY AdoptedIsAsked DEF PInv
<1> DEFINE replacement == generation # incoming.gen \/ TransitionRequired(shown, incoming.shows)
           departing == IF ~replacement \/ installed = None \/ departure # "none" THEN departure
                        ELSE IF Animated THEN "going" ELSE "over"
           revealing == /\ Adopted # None \/ installed = key
                        /\ replacement /\ installed # None => departing = "over"
           f == FrameAt(displayed, revealing, LyricsReady(incoming.shows))
           install == revealing /\ Adopted # None
<1>2. /\ displayed' = f.displayed
      /\ shown' = Retained(f.shows, revealing)
      /\ ready' = IF install THEN None ELSE Adopted
      /\ installed' = IF install THEN Adopted ELSE installed
      /\ generation' = IF install THEN f.displayed.state.gen ELSE generation
      /\ departure' = IF install /\ replacement THEN "none" ELSE departing
  BY DEF Render
<1>3. revealing \in BOOLEAN /\ departing \in {departure, "going", "over"}
  OBVIOUS
<1>4. revealing => Adopted # None \/ installed = key
  OBVIOUS
<1> HIDE DEF replacement, departing, revealing, f
<1>5. QED  BY <1>1, <1>2, <1>3, <1>4 DEF f

(* ... and after a frame, whatever it installs or reveals.                 *)
LEMMA RenderKeeps == ASSUME PInv, Render PROVE PInv'
<1> USE PipelineAssumption
<1>1. PICK revealing \in BOOLEAN :
        LET f == FrameAt(displayed, revealing, LyricsReady(incoming.shows))
        IN /\ displayed' = f.displayed
           /\ shown' = Retained(f.shows, revealing)
           /\ revealing => installed' = key
           /\ ~revealing => installed' = installed
           /\ installed' \in {installed, key}
           /\ ready' \in {None, key}
           /\ generation' \in {generation, f.displayed.state.gen}
           /\ departure' \in {departure, "none", "going", "over"}
  BY RenderFrame
<1> DEFINE f == FrameAt(displayed, revealing, LyricsReady(incoming.shows))
<1>2. /\ f.displayed = [state |-> f.displayed.state, timing |-> f.displayed.timing, art |-> f.displayed.art]
      /\ f.displayed.state \in States /\ f.displayed.timing \in States
      /\ f.displayed.state.gen = f.displayed.timing.gen
      /\ Follows(f.displayed.timing, f.displayed.state) /\ Follows(f.displayed.state, incoming)
      /\ Full(f.displayed.state.shows) <=> Full(f.displayed.timing.shows)
      /\ Composed(Retained(f.shows, revealing), f.displayed, installed')
  BY <1>1, FrameComposed DEF PInv, AskedInv
<1> HIDE DEF f
<1>3. incoming' = incoming /\ displayed' = f.displayed /\ shown' = Retained(f.shows, revealing)
  BY <1>1 DEF Render, f
<1>4. TimelineInv' /\ Composed(shown', displayed', installed')
  BY <1>2, <1>3 DEF TimelineInv
<1>5. key \in Keys
  BY DEF PInv, AskedInv, PreparationKey, Keys, States
<1>6. AskedInv'
  <2>1. /\ replies' = <<>> /\ UNCHANGED <<incoming, key, token, requests, worker, updates>>
    BY DEF Render
  <2>2. <<>> \in Seq(Work(token, key)) /\ Len(<<>>) = 0
    OBVIOUS
  <2>3. Len(replies) \in Nat /\ Len(requests) \in Nat
    BY DEF PInv, AskedInv
  <2>4. Unanswered' <= token
    BY <2>1, <2>2, <2>3 DEF PInv, AskedInv, Unanswered
  <2>5. QED  BY <1>1, <1>5, <2>1, <2>2, <2>4 DEF PInv, AskedInv
<1>7. FlagsInv'
  <2>1. f.displayed.state.gen \in 0..MaxUpdates
    BY <1>2 DEF States
  <2>2. QED  BY <1>1, <2>1 DEF PInv, FlagsInv, Render, f
<1>8. QED  BY <1>4, <1>6, <1>7 DEF PInv, Composed

-----------------------------------------------------------------------------
(* The wakeups, the timer, the fading and the worker leave the screen.     *)
LEMMA WorkerKeeps == ASSUME PInv, Worker PROVE AskedInv' /\ UNCHANGED <<mainVars, dirty>> /\ woken' \in BOOLEAN
<1>0. /\ requests \in Seq(Work(token, key)) /\ replies \in Seq(Work(token, key))
      /\ Len(replies) \in Nat /\ Len(requests) \in Nat
  BY DEF PInv, AskedInv
<1>1. CASE Take
  <2>1. requests # <<>> /\ Len(requests) >= 1
    BY <1>0, <1>1 DEF Take
  <2>2. Latest(requests) \in Work(token, key)
    BY <1>0, <2>1 DEF Latest
  <2>3. <<>> \in Seq(Work(token, key)) /\ Len(<<>>) = 0
    OBVIOUS
  <2>4. worker' = worker \/ worker' = [at |-> "preparing", work |-> Latest(requests)]
    BY <1>1 DEF Take
  <2>5. Unanswered' <= token
    BY <1>0, <1>1, <2>1, <2>3, <2>4 DEF Take, Unanswered, PInv, AskedInv
  <2>6. QED  BY <1>1, <2>2, <2>3, <2>4, <2>5 DEF Take, PInv, AskedInv, mainVars, Places, FlagsInv
<1>2. CASE Prepared
  <2>1. worker.work \in Work(token, key) /\ worker.at = "preparing"
    BY <1>2 DEF Prepared, PInv, AskedInv
  <2>2. Append(replies, worker.work) \in Seq(Work(token, key))
        /\ Len(Append(replies, worker.work)) = Len(replies) + 1
    BY <1>0, <2>1
  <2>3. worker' = [at |-> worker'.at, work |-> worker.work] /\ worker'.at \in {"idle", "notifying"}
    BY <1>2 DEF Prepared, PInv, AskedInv
  <2>4. replies' \in {replies, Append(replies, worker.work)}
    BY <1>2 DEF Prepared
  <2>5. Unanswered' <= token
    BY <1>0, <1>2, <2>1, <2>2, <2>3, <2>4 DEF Prepared, Unanswered, PInv, AskedInv
  <2>6. QED  BY <1>0, <1>2, <2>1, <2>2, <2>3, <2>4, <2>5 DEF Prepared, PInv, AskedInv, mainVars, Places, FlagsInv
<1>3. CASE Notify
  BY <1>0, <1>3 DEF Notify, PInv, AskedInv, mainVars, Places, FlagsInv, Unanswered
<1>4. QED  BY <1>1, <1>2, <1>3 DEF Worker

(* Every step keeps the invariant.                                         *)
LEMMA PInvNext == PInv /\ [Next]_vars => PInv'
<1> SUFFICES ASSUME PInv, [Next]_vars PROVE PInv'
  OBVIOUS
<1>1. CASE UNCHANGED vars
  BY <1>1 DEF vars, mainVars, PInv, AskedInv, TimelineInv, FlagsInv, Unanswered
<1>2. CASE Wake \/ Timer
  BY <1>2 DEF Wake, Timer, mainVars, PInv, AskedInv, TimelineInv, FlagsInv, Unanswered
<1>3. CASE Departed
  BY <1>3 DEF Departed, PInv, AskedInv, TimelineInv, FlagsInv, Unanswered
<1>4. CASE Worker
  BY <1>4, WorkerKeeps DEF mainVars, PInv, TimelineInv, FlagsInv
<1>5. QED  BY <1>1, <1>2, <1>3, <1>4, SnapshotsKeep, RenderKeeps DEF Next, Main

-----------------------------------------------------------------------------
(* It types every variable ...                                             *)
LEMMA PInvTypes == PInv => TypeOK
<1> SUFFICES ASSUME PInv PROVE TypeOK
  OBVIOUS
<1>1. Len(requests) <= token /\ Len(replies) <= token
  BY DEF PInv, AskedInv, Unanswered
<1>2. token \in 1..(MaxUpdates + 1)
  BY PipelineAssumption DEF PInv, AskedInv
<1>3. Len(requests) \in Nat /\ Len(replies) \in Nat
  BY DEF PInv, AskedInv
<1>4. QED  BY <1>1, <1>2, <1>3, PipelineAssumption DEF PInv, AskedInv, TimelineInv, FlagsInv, TypeOK, Places

(* ... and says that one presentation is on the screen.                    *)
LEMMA PInvScreen == PInv => OnePresentationOnScreen
<1> SUFFICES ASSUME PInv PROVE OnePresentationOnScreen
  OBVIOUS
<1>1. displayed.timing.shows \in Contents \cup {Disconnected}
      /\ displayed.timing.shows.song = displayed.state.shows.song
  BY DEF PInv, TimelineInv, States, Follows
<1>2. QED
  BY <1>1, ContentsAssumption
  DEF PInv, Composed, OnePresentationOnScreen, OneSongOnScreen, LyricsOfTheirRevision

(* Every variable of the pipeline keeps its shape, and what waits for the   *)
(* view is what was asked for last, for any presentations and bounds.       *)
THEOREM TypeCorrect == Spec => []TypeOK
BY InitPInv, PInvNext, PInvTypes, PTL DEF Spec

(* Texts, pixels, artwork and lyrics on the screen are of one presentation, *)
(* whatever overtakes what while it is prepared.                            *)
THEOREM OnePresentationShown == Spec => []OnePresentationOnScreen
BY InitPInv, PInvNext, PInvScreen, PTL DEF Spec

(* NoObsoleteReveal's step.                                                *)
RevealsLatest == installed' # installed => installed' = PreparationKey(incoming)

(* What a step installs is what the state of that moment asks for.         *)
LEMMA StepReveals == PInv /\ [Next]_vars => RevealsLatest
<1> SUFFICES ASSUME PInv, [Next]_vars, installed' # installed PROVE installed' = PreparationKey(incoming)
  BY DEF RevealsLatest
<1>1. Render
  BY WorkerKeeps DEF Next, Main, vars, mainVars, Snapshots, Observe, Wake, Timer, Departed
<1>2. installed' = key
  BY <1>1, RenderFrame
<1>3. QED  BY <1>2 DEF PInv, AskedInv

(* Superseded content never makes its first appearance, however late the    *)
(* worker's replies come.                                                   *)
THEOREM NothingObsoleteRevealed == Spec => NoObsoleteReveal
<1>1. PInv /\ [Next]_vars => [RevealsLatest]_vars
  BY StepReveals
<1>2. Spec => [][RevealsLatest]_vars
  BY InitPInv, PInvNext, <1>1, PTL DEF Spec
<1>3. QED  BY <1>2 DEF NoObsoleteReveal, RevealsLatest
=============================================================================
