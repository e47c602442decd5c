-------------------------- MODULE RoonBridge_proofs --------------------------
(***************************************************************************)
(* The attempts at an image that may still change what is shown are those   *)
(* of the current request, whatever Roon reports, refuses or answers late;  *)
(* and the Bridge keeps its types, for any servers, zones and timelines.    *)
(*                                                                          *)
(* The argument: a file is requested once, and is then in one place only:   *)
(* with Roon, or in one operation of the store's queue.  Every request that *)
(* is not the current one is of an earlier generation.                      *)
(*                                                                          *)
(* Artwork, lyrics and metadata that viewers see are of one track, however  *)
(* late each of them came, as long as no text of the zones is refused: a    *)
(* refused text leaves the Bridge showing the track before it while the     *)
(* Lyric Feed already follows the next one.                                 *)
(*                                                                          *)
(* The argument: the coordinator's identity is that of the latest snapshot, *)
(* shown or held; the feed's is its track; and a file that answers the      *)
(* current request has the identity's key.                                  *)
(*                                                                          *)
(* And the file that viewers are told to open exists, and no other is left  *)
(* behind, however operations on the artwork directory queue and fail.      *)
(*                                                                          *)
(* The argument: behind the staging of the current image there is nothing   *)
(* in the queue but the removal of other images.  So what is published then *)
(* is kept until it is committed, and what it replaces is removed by that   *)
(* commit; what is taken off the screen is removed by a clear.              *)
(***************************************************************************)
EXTENDS RoonBridge, TLAPS

Operations == Store!Operations

(* r is of an earlier generation, or of the current artwork.               *)
Known(a, r) == /\ r.generation <= a.generation
               /\ r.generation = a.generation => a.identity # None /\ r.key = a.identity.key

(* No request or operation is about f.                                     *)
Free(f, reqs, q) == /\ f \notin reqs
                    /\ \A i \in 1..Len(q) : q[i].op # "clear" => q[i].file # f

Coordinator(a) ==
  a \in [identity : {a.identity}, pending : {a.pending}, generation : Nat,
         failures : Nat, retry : Files \cup {None}]

OncePlaced(a, reqs, q) ==
  /\ reqs \subseteq Files /\ q \in Seq(Operations)
  /\ \A r \in reqs : Known(a, r)
  /\ \A i \in 1..Len(q) : q[i].op # "clear" => Known(a, q[i].file) /\ q[i].file \notin reqs
  /\ \A i, j \in 1..Len(q) :
       q[i].op # "clear" /\ q[j].op # "clear" /\ q[i].file = q[j].file => i = j

HeldAwaited(a, reqs, q) ==
  a.pending # None => \/ Request(a) \in reqs
                      \/ \E i \in 1..Len(q) : q[i] = Store!Operation("stage", Request(a))

RetriedAlone(a, reqs, q) ==
  a.retry # None => /\ a.retry.generation = a.generation
                    /\ Known(a, a.retry) /\ Free(a.retry, reqs, q)

Attempts(a, reqs, q) == /\ Coordinator(a)
                        /\ OncePlaced(a, reqs, q)
                        /\ HeldAwaited(a, reqs, q)
                        /\ RetriedAlone(a, reqs, q)

-----------------------------------------------------------------------------
(* The records the coordinator's functions make.                           *)
LEMMA RecoveredFields ==
  ASSUME NEW a, Coordinator(a), NEW f \in Files
  PROVE  LET b == Recovered(a, f)
         IN /\ Coordinator(b) /\ b.generation = a.generation /\ b.identity = a.identity
            /\ b.pending = None /\ b.retry = f
<1> DEFINE n == a.failures + 1
           b == [a EXCEPT !.pending = None, !.failures = n, !.retry = f]
<1>1. n \in Nat /\ Recovered(a, f) = b
  BY DEF Recovered, Coordinator
<1> HIDE DEF n
<1>2. b \in [identity : {a.identity}, pending : {None}, generation : {a.generation}, failures : Nat, retry : {f}]
  BY <1>1 DEF Coordinator
<1> HIDE DEF b
<1>3. QED  BY <1>1, <1>2 DEF Coordinator

(* Resetting begins a generation with nothing held and no retry.           *)
LEMMA ResetFields ==
  ASSUME NEW a, Coordinator(a), NEW i
  PROVE  LET b == [ResetArtworkRequest(a) EXCEPT !.identity = i]
         IN /\ Coordinator(b) /\ b.generation = a.generation + 1 /\ b.identity = i
            /\ b.pending = None /\ b.retry = None
<1> DEFINE n == a.generation + 1
           b == [[a EXCEPT !.retry = None, !.generation = n, !.failures = 0, !.pending = None]
                   EXCEPT !.identity = i]
<1>1. n \in Nat /\ [ResetArtworkRequest(a) EXCEPT !.identity = i] = b
  BY DEF ResetArtworkRequest, Coordinator
<1> HIDE DEF n
<1>2. b \in [identity : {i}, pending : {None}, generation : {n}, failures : Nat, retry : {None}]
  BY <1>1 DEF Coordinator
<1> HIDE DEF b
<1>3. QED  BY <1>1, <1>2 DEF Coordinator, n

(* Beginning holds the state in a later generation.                        *)
LEMMA BeginFields ==
  ASSUME NEW a, Coordinator(a), NEW state
  PROVE  LET b == BeginArtworkRequest(a, state)
         IN /\ Coordinator(b) /\ b.generation > a.generation /\ b.identity = a.identity
            /\ b.pending = state /\ b.retry = None
<1> DEFINE n == a.generation + 1
           m == n + 1
           c == [a EXCEPT !.retry = None, !.generation = n, !.failures = 0, !.pending = None]
           b == [[c EXCEPT !.pending = state] EXCEPT !.generation = m]
<1>1. n \in Nat /\ ResetArtworkRequest(a) = c
  BY DEF ResetArtworkRequest, Coordinator
<1> HIDE DEF n
<1>2. c \in [identity : {a.identity}, pending : {None}, generation : {n}, failures : Nat, retry : {None}]
  BY <1>1 DEF Coordinator
<1>3. m \in Nat /\ m > a.generation
  BY DEF Coordinator, n
<1> HIDE DEF c
<1>4. BeginArtworkRequest(a, state) = b
  BY <1>1, <1>2 DEF BeginArtworkRequest, RequestArtwork
<1> HIDE DEF m
<1>5. b \in [identity : {a.identity}, pending : {state}, generation : {m}, failures : Nat, retry : {None}]
  BY <1>2, <1>3
<1> HIDE DEF b
<1>6. QED  BY <1>3, <1>4, <1>5 DEF Coordinator

-----------------------------------------------------------------------------
(* Fields of the store's operations.                                       *)
LEMMA OperationFields ==
  \A o \in Operations : /\ o = Store!Operation(o.op, o.file)
                        /\ o.op \in {"stage", "commit", "discard", "clear"}
                        /\ o.op # "clear" => o.file \in Files
BY DEF Operations, Store!Operations, Store!Operation

(* Chaining one operation appends it.                                      *)
LEMMA Chaining ==
  ASSUME NEW q \in Seq(Operations)
  PROVE  /\ q \o <<>> = q
         /\ \A o \in Operations : q \o <<o>> = Append(q, o)
OBVIOUS

(* A new generation makes every attempt an earlier one.                    *)
LEMMA Supersedes ==
  ASSUME NEW a, NEW b, NEW reqs, NEW q, Attempts(a, reqs, q), Coordinator(b),
         b.generation > a.generation, b.retry = None, b.pending = None
  PROVE  Attempts(b, reqs, q)
BY DEF Attempts, Coordinator, OncePlaced, HeldAwaited, RetriedAlone, Known, Files,
       Operations, Store!Operations

(* A new request is not yet anywhere.                                      *)
LEMMA Requests ==
  ASSUME NEW a, NEW b, NEW reqs, NEW q, Attempts(a, reqs, q), Coordinator(b),
         b.generation > a.generation, b.retry = None, b.identity.key \in Keys, b.identity # None
  PROVE  Attempts(b, reqs \cup {Request(b)}, q)
<1>1. Request(b) \in Files /\ Known(b, Request(b)) /\ Request(b).generation > a.generation
  BY DEF Coordinator, Request, Files, Known
<1>2. Free(Request(b), reqs, q)
  BY <1>1 DEF Free, Attempts, Coordinator, OncePlaced, Known, Files, Operations, Store!Operations
<1>3. OncePlaced(b, reqs \cup {Request(b)}, q)
  BY <1>1, <1>2 DEF Attempts, Coordinator, OncePlaced, Free, Known, Files, Operations, Store!Operations
<1>4. QED  BY <1>1, <1>3 DEF Attempts, HeldAwaited, RetriedAlone

(* The held snapshot is replaced or given up; failures are counted.        *)
LEMMA Holds ==
  ASSUME NEW a, NEW b, NEW reqs, NEW q, Attempts(a, reqs, q), Coordinator(b),
         b.generation = a.generation, b.retry = a.retry, b.identity = a.identity,
         b.pending # None => a.pending # None
  PROVE  Attempts(b, reqs, q)
BY DEF Attempts, Coordinator, OncePlaced, HeldAwaited, RetriedAlone, Known, Request

(* A failed attempt at the current artwork is retried.                     *)
LEMMA Retries ==
  ASSUME NEW a, NEW reqs, NEW q, Attempts(a, reqs, q), NEW f \in Files,
         Free(f, reqs, q), Known(a, f), f.generation = a.generation
  PROVE  Attempts(Recovered(a, f), reqs, q)
<1> DEFINE b == Recovered(a, f)
<1>1. /\ Coordinator(b) /\ b.generation = a.generation /\ b.identity = a.identity
      /\ b.pending = None /\ b.retry = f
  BY RecoveredFields DEF Attempts
<1> HIDE DEF b
<1>2. OncePlaced(b, reqs, q)
  BY <1>1 DEF Attempts, OncePlaced, Known
<1>3. RetriedAlone(b, reqs, q)
  BY <1>1 DEF RetriedAlone, Known
<1>4. QED  BY <1>1, <1>2, <1>3 DEF Attempts, HeldAwaited, b

(* An operation about a file that is nowhere else is chained.              *)
LEMMA Chains ==
  ASSUME NEW a, NEW reqs, NEW q, Attempts(a, reqs, q), NEW f \in Files,
         Free(f, reqs, q), Known(a, f), a.retry # f, NEW op \in {"stage", "commit", "discard"}
  PROVE  Attempts(a, reqs, Append(q, Store!Operation(op, f)))
<1> DEFINE o == Store!Operation(op, f)
           s == Append(q, o)
<1>1. o \in Operations /\ o.op # "clear" /\ o.file = f
  BY DEF Operations, Store!Operations, Store!Operation
<1>2. q \in Seq(Operations)
  BY DEF Attempts, OncePlaced
<1> HIDE DEF o
<1>3. /\ s \in Seq(Operations) /\ Len(s) = Len(q) + 1 /\ s[Len(q) + 1] = o
      /\ \A i \in 1..Len(q) : s[i] = q[i] /\ i \in 1..Len(s)
      /\ \A i \in 1..Len(s) : i \in 1..Len(q) \/ i = Len(q) + 1
  BY <1>1, <1>2
<1> HIDE DEF s
<1>4. OncePlaced(a, reqs, s)
  BY <1>1, <1>3 DEF Attempts, OncePlaced, Free
<1>5. HeldAwaited(a, reqs, s)
  BY <1>3 DEF Attempts, HeldAwaited
<1>6. RetriedAlone(a, reqs, s)
  BY <1>1, <1>3 DEF Attempts, RetriedAlone, Free
<1>7. QED  BY <1>4, <1>5, <1>6 DEF Attempts, s, o

(* A clear is about no file.                                               *)
LEMMA Clears ==
  ASSUME NEW a, NEW reqs, NEW q, Attempts(a, reqs, q)
  PROVE  Attempts(a, reqs, q \o Clear)
<1> DEFINE o == Store!Operation("clear", None)
           s == Append(q, o)
<1>1. o \in Operations /\ o.op = "clear"
  BY DEF Operations, Store!Operations, Store!Operation
<1>2. q \in Seq(Operations) /\ q \o Clear = s
  BY <1>1 DEF Attempts, OncePlaced, Clear
<1> HIDE DEF o
<1>3. /\ s \in Seq(Operations) /\ Len(s) = Len(q) + 1 /\ s[Len(q) + 1] = o
      /\ \A i \in 1..Len(q) : s[i] = q[i] /\ i \in 1..Len(s)
      /\ \A i \in 1..Len(s) : i \in 1..Len(q) \/ i = Len(q) + 1
  BY <1>1, <1>2
<1> HIDE DEF s
<1>4. OncePlaced(a, reqs, s)
  BY <1>1, <1>3 DEF Attempts, OncePlaced
<1>5. HeldAwaited(a, reqs, s) /\ RetriedAlone(a, reqs, s)
  BY <1>1, <1>3 DEF Attempts, HeldAwaited, RetriedAlone, Free
<1>6. QED  BY <1>2, <1>4, <1>5 DEF Attempts

(* The oldest operation settles: its file is nowhere any more.             *)
LEMMA Settles ==
  ASSUME NEW a, NEW b, NEW reqs, NEW q, Attempts(a, reqs, q), q # <<>>, Coordinator(b),
         b.generation = a.generation, b.retry = a.retry, b.identity = a.identity,
         b.pending # None => a.pending # None /\ Head(q) # Store!Operation("stage", Request(a))
  PROVE  /\ Attempts(b, reqs, Tail(q)) /\ Head(q) \in Operations
         /\ Head(q).op # "clear" =>
              Free(Head(q).file, reqs, Tail(q)) /\ Known(b, Head(q).file) /\ b.retry # Head(q).file
<1> DEFINE t == Tail(q)
<1>1. q \in Seq(Operations)
  BY DEF Attempts, OncePlaced
<1>2. /\ t \in Seq(Operations) /\ Len(t) = Len(q) - 1 /\ Len(q) \in Nat /\ Head(q) = q[1] /\ 1 \in 1..Len(q)
      /\ \A i \in 1..Len(t) : t[i] = q[i + 1] /\ i + 1 \in 1..Len(q) /\ i + 1 # 1
      /\ \A i \in 1..Len(q) : i = 1 \/ (i - 1 \in 1..Len(t) /\ t[i - 1] = q[i])
  BY <1>1
<1>3. Head(q) \in Operations
  BY <1>1, <1>2
<1> HIDE DEF t
<1>4. OncePlaced(b, reqs, t)
  BY <1>2 DEF Attempts, OncePlaced, Known
<1>5. HeldAwaited(b, reqs, t)
  BY <1>2 DEF Attempts, HeldAwaited, Request
<1>6. RetriedAlone(b, reqs, t)
  BY <1>2 DEF Attempts, RetriedAlone, Free, Known
<1>7. Head(q).op # "clear" =>
        Free(Head(q).file, reqs, t) /\ Known(b, Head(q).file) /\ b.retry # Head(q).file
  <2> SUFFICES ASSUME q[1].op # "clear"
               PROVE  Free(q[1].file, reqs, t) /\ Known(b, q[1].file) /\ b.retry # q[1].file
    BY <1>2
  <2>1. Known(b, q[1].file) /\ q[1].file \notin reqs /\ q[1].file \in Files
    BY <1>2, <1>3, OperationFields DEF Attempts, OncePlaced, Known
  <2>2. Free(q[1].file, reqs, t)
    BY <1>2, <2>1 DEF Attempts, OncePlaced, Free
  <2>3. b.retry # q[1].file
    BY <1>2, <2>1, NoneAssumption DEF Attempts, RetriedAlone, Free
  <2>4. QED  BY <2>1, <2>2, <2>3
<1>8. QED  BY <1>3, <1>4, <1>5, <1>6, <1>7 DEF Attempts, t
-----------------------------------------------------------------------------
(* The handlers                                                            *)
AInv == Attempts(art, requests, queue)

(* Nothing of the attempts changes.                                        *)
Untouched == UNCHANGED <<art, requests, queue>>

(* What leaves coordinator and store alone keeps the invariant.            *)
LEMMA UntouchedKeeps == AInv /\ Untouched => AInv'
BY DEF AInv, Untouched

(* Cancelling supersedes what is under way, and clears after it.           *)
LEMMA CancelKeeps == ASSUME AInv, NEW p, CancelAndClear(p) PROVE AInv'
<1> DEFINE b == [ResetArtworkRequest(art) EXCEPT !.identity = None]
<1>1. art' = b /\ requests' = requests /\ queue' = queue \o Clear
  BY DEF CancelAndClear, Store!Call
<1>2. Coordinator(art) /\ art.generation \in Nat
  BY DEF AInv, Attempts, Coordinator
<1>3. Coordinator(b) /\ b.generation = art.generation + 1 /\ b.pending = None /\ b.retry = None
  BY <1>2, ResetFields
<1> HIDE DEF b
<1>4. Attempts(b, requests, queue)
  BY <1>2, <1>3, Supersedes DEF AInv
<1>5. QED  BY <1>1, <1>4, Clears DEF AInv

(* A new image is asked for, with its own generation.                      *)
LEMMA BeginKeeps ==
  ASSUME AInv, NEW p, NEW i, i.key \in Keys, i # None, NEW state,
         \/ Begin(p, [art EXCEPT !.identity = i], state)
         \/ art.identity = i /\ Begin(p, art, state)
  PROVE  AInv'
<1>1. Coordinator(art) /\ art.generation \in Nat
  BY DEF AInv, Attempts, Coordinator
<1>2. PICK a : Coordinator(a) /\ a.generation = art.generation /\ a.identity = i /\ Begin(p, a, state)
  <2> DEFINE a == [art EXCEPT !.identity = i]
  <2>1. Coordinator(a) /\ a.generation = art.generation /\ a.identity = i
    BY <1>1 DEF Coordinator
  <2> HIDE DEF a
  <2>2. Begin(p, a, state) \/ (art.identity = i /\ Begin(p, art, state))
    BY DEF a
  <2>3. QED  BY <1>1, <2>1, <2>2
<1> DEFINE b == BeginArtworkRequest(a, state)
<1>3. Coordinator(b) /\ b.generation > art.generation /\ b.identity = i /\ b.retry = None
  BY <1>2, BeginFields
<1>4. art' = b /\ requests' = requests \cup {Request(b)} /\ queue' = queue
  BY <1>2 DEF Begin, storeVars, Request
<1> HIDE DEF b
<1>5. QED  BY <1>3, <1>4, Requests DEF AInv

(* The held snapshot is replaced by a newer one of the same artwork.       *)
LEMMA HoldKeeps ==
  ASSUME AInv, NEW state, art' = [art EXCEPT !.pending = state], state # None => art.pending # None,
         UNCHANGED <<requests, queue>>
  PROVE  AInv'
<1>1. Coordinator(art')
  BY DEF AInv, Attempts, Coordinator
<1>2. /\ art'.generation = art.generation /\ art'.retry = art.retry /\ art'.identity = art.identity
      /\ art'.pending = state
  BY DEF AInv, Attempts, Coordinator
<1>3. QED  BY <1>1, <1>2, Holds DEF AInv

(* So does presenting an observed zone, whichever branch it takes.         *)
LEMMA PresentKeeps == ASSUME AInv, NEW p, NEW z \in Observations, Present(p, z) PROVE AInv'
<1> DEFINE state == WithLyrics(AvailableState(z), p.lyrics)
           identity == [zone |-> z.zone, key |-> z.key]
<1>1. identity # None /\ (z.key # None => identity.key \in Keys)
  BY NoneAssumption DEF Keys, Identities
<1>2. CASE z.playback = "stopped"
  <2>1. PICK q : Publish(q) \/ CancelAndClear(q)
    BY <1>2 DEF Present, PresentStopped
  <2>2. QED  BY <2>1, CancelKeeps, UntouchedKeeps DEF Publish, Untouched, storeVars
<1>3. CASE ~Valid(state) /\ z.playback # "stopped"
  BY <1>3, UntouchedKeeps DEF Present, Publish, Untouched, storeVars
<1>4. CASE Valid(state) /\ z.playback # "stopped" /\ art.identity = identity
  <2>1. PresentRetained(Prepared(p, state), z, Fit(state))
    BY <1>4 DEF Present
  <2> HIDE DEF state
  <2>2. CASE art.pending # None
    BY <2>1, <2>2, HoldKeeps DEF PresentRetained, storeVars
  <2>3. CASE art.pending = None /\ Prepared(p, state).snapshot.track # Fit(state).track /\ z.key # None
    BY <1>1, <1>4, <2>1, <2>3, BeginKeeps DEF PresentRetained
  <2>4. CASE art.pending = None /\ ~(Prepared(p, state).snapshot.track # Fit(state).track /\ z.key # None)
    BY <2>1, <2>4, UntouchedKeeps DEF PresentRetained, Publish, Untouched, storeVars
  <2>5. QED  BY <2>2, <2>3, <2>4
<1>5. CASE Valid(state) /\ z.playback # "stopped" /\ art.identity # identity
  <2>1. PresentChanged(Prepared(p, state), identity, Fit(state))
    BY <1>5 DEF Present
  <2> HIDE DEF state
  <2>2. CASE identity.key = None
    <3> DEFINE b == [ResetArtworkRequest(art) EXCEPT !.identity = identity]
    <3>1. art' = b /\ requests' = requests /\ queue' = queue \o Clear
      BY <2>1, <2>2 DEF PresentChanged, Store!Call
    <3>2. Coordinator(art) /\ art.generation \in Nat
      BY DEF AInv, Attempts, Coordinator
    <3>3. Coordinator(b) /\ b.generation = art.generation + 1 /\ b.pending = None /\ b.retry = None
      BY <3>2, ResetFields
    <3> HIDE DEF b
    <3>4. Attempts(b, requests, queue)
      BY <3>2, <3>3, Supersedes DEF AInv
    <3>5. QED  BY <3>1, <3>4, Clears DEF AInv
  <2>3. CASE identity.key # None
    BY <1>1, <2>1, <2>3, BeginKeeps DEF PresentChanged
  <2>4. QED  BY <2>2, <2>3
<1>6. QED  BY <1>2, <1>3, <1>4, <1>5

-----------------------------------------------------------------------------
(* Roon's answers and the store's promises                                 *)
(* Roon has answered a request: it is with nobody.                         *)
LEMMA AnsweredFree ==
  ASSUME NEW a, NEW b, NEW reqs, NEW q, Attempts(a, reqs, q), NEW r \in reqs, Coordinator(b),
         b.generation = a.generation, b.retry = a.retry, b.identity = a.identity,
         b.pending # None => a.pending # None /\ r # Request(a)
  PROVE  /\ Attempts(b, reqs \ {r}, q)
         /\ Free(r, reqs \ {r}, q) /\ Known(b, r) /\ b.retry # r /\ r \in Files
<1>1. Coordinator(b) /\ OncePlaced(b, reqs \ {r}, q)
  BY DEF Attempts, OncePlaced, Known
<1>2. HeldAwaited(b, reqs \ {r}, q)
  BY DEF Attempts, HeldAwaited, Request
<1>3. RetriedAlone(b, reqs \ {r}, q)
  BY DEF Attempts, RetriedAlone, Free, Known
<1>4. r \in Files /\ Known(b, r) /\ Free(r, reqs \ {r}, q)
  BY DEF Attempts, OncePlaced, Known, Free
<1>5. b.retry # r
  BY <1>4, NoneAssumption DEF Attempts, RetriedAlone, Free
<1>6. QED  BY <1>1, <1>2, <1>3, <1>4, <1>5 DEF Attempts

(* An attempt that fails is forgotten if superseded, or else retried.      *)
LEMMA RecoverKeeps ==
  ASSUME AInv, NEW f \in Files, Recover(f), NEW reqs, NEW q,
         Attempts([art EXCEPT !.pending = None], reqs, q),
         Superseded(f) => Attempts(art, reqs, q),
         Free(f, reqs, q), Known(art, f), requests' = reqs, queue' = q \o RecoveryCalls(f)
  PROVE  AInv'
<1> DEFINE a == [art EXCEPT !.pending = None]
<1>1. q \in Seq(Operations) /\ Coordinator(art)
  BY DEF AInv, Attempts, OncePlaced
<1>2. CASE Superseded(f)
  BY <1>1, <1>2, Chaining DEF Recover, RecoveryCalls, AInv
<1>3. CASE ~Superseded(f)
  <2>1. Coordinator(a) /\ a.generation = art.generation /\ a.identity = art.identity /\ a.failures = art.failures
    BY <1>1 DEF Coordinator
  <2>2. Attempts(Recovered(a, f), reqs, q)
    BY <1>3, <2>1, Retries DEF Known, Superseded
  <2>3. Recovered(a, f) = Recovered(art, f)
    BY <1>1, <2>1 DEF Recovered, Coordinator
  <2>4. art' = Recovered(art, f) /\ queue' = q \o Clear
    BY <1>3 DEF Recover, RecoveryCalls
  <2>5. QED  BY <2>2, <2>3, <2>4, Clears DEF AInv
<1>4. QED  BY <1>2, <1>3

(* Letting go of the held snapshot changes nothing else.                   *)
LEMMA HoldingFields ==
  ASSUME AInv
  PROVE  LET a == [art EXCEPT !.pending = None]
         IN /\ Coordinator(a) /\ a.generation = art.generation /\ a.identity = art.identity
            /\ a.retry = art.retry /\ a.pending = None
BY DEF AInv, Attempts, Coordinator

(* An answer of Roon takes its request's file out of the requests.         *)
LEMMA AnswerKeeps == ASSUME AInv, NEW r \in requests, ImageArrived(r) \/ ImageFailed(r) PROVE AInv'
<1> DEFINE a == [art EXCEPT !.pending = None]
           reqs == requests \ {r}
<1>1. Coordinator(art) /\ queue \in Seq(Operations)
  BY DEF AInv, Attempts, OncePlaced
<1>2. Attempts(a, reqs, queue) /\ Free(r, reqs, queue) /\ Known(art, r) /\ r \in Files /\ art.retry # r
  <2>1. /\ Coordinator(a) /\ a.generation = art.generation /\ a.identity = art.identity
        /\ a.retry = art.retry /\ a.pending = None
    BY HoldingFields
  <2> HIDE DEF a
  <2>2. Attempts(a, reqs, queue) /\ Free(r, reqs, queue) /\ Known(a, r) /\ a.retry # r /\ r \in Files
    BY <2>1, AnsweredFree DEF AInv
  <2>3. QED  BY <2>1, <2>2 DEF Known
<1>3. Superseded(r) => Attempts(art, reqs, queue)
  <2>1. Superseded(r) => r # Request(art)
    BY DEF Superseded, Request
  <2>2. QED  BY <1>1, <2>1, AnsweredFree DEF AInv
<1>4. CASE ImageFailed(r)
  BY <1>2, <1>3, <1>4, RecoverKeeps DEF ImageFailed, Store!Call
<1>5. CASE ImageArrived(r) /\ Superseded(r)
  BY <1>1, <1>3, <1>5, Chaining DEF ImageArrived, Store!Call, AInv
<1>6. CASE ImageArrived(r) /\ ~Superseded(r)
  <2> DEFINE o == Store!Operation("stage", r)
             s == Append(queue, o)
  <2>1. Attempts(a, reqs, s)
    BY <1>2, Chains, HoldingFields DEF Known
  <2>2. queue' = s /\ requests' = reqs /\ art' = art
    BY <1>1, <1>2, <1>6, Chaining DEF ImageArrived, Store!Call, Operations, Store!Operations, Store!Operation
  <2>3. Request(art) = r
    BY <1>2, <1>6 DEF Superseded, Known, Request, Files
  <2>4. Len(s) \in Nat /\ Len(s) \in 1..Len(s) /\ s[Len(s)] = o
    BY <1>1
  <2> HIDE DEF s
  <2>5. HeldAwaited(art, reqs, s)
    BY <2>3, <2>4 DEF HeldAwaited
  <2> HIDE DEF reqs
  <2>6. OncePlaced(art, reqs, s) /\ RetriedAlone(art, reqs, s)
    BY <2>1, HoldingFields DEF Attempts, OncePlaced, RetriedAlone, Known
  <2>7. QED  BY <1>1, <2>2, <2>5, <2>6 DEF AInv, Attempts
<1>7. QED  BY <1>4, <1>5, <1>6

(* The store goes on with its oldest operation.                            *)
LEMMA PerformKeeps == AInv /\ StorePerform => AInv'
BY DEF AInv, StorePerform, Store!Perform, Store!PerformStage, Store!PerformCommit, Store!PerformDiscard,
   Store!PerformClear

(* A settled operation leaves the queue, and may chain one of its file.    *)
LEMMA SettledKeeps == ASSUME AInv, StoreSettled PROVE AInv'
<1> DEFINE done == Head(queue)
           f == done.file
           a == [art EXCEPT !.pending = None]
           q == Tail(queue)
<1>1. Coordinator(art) /\ queue # <<>> /\ UNCHANGED requests
  BY DEF AInv, Attempts, StoreSettled, Store!Settled
<1>2. /\ Attempts(a, requests, q) /\ done \in Operations
      /\ done.op # "clear" => Free(f, requests, q) /\ Known(a, f) /\ a.retry # f
  BY <1>1, Settles, HoldingFields DEF AInv
<1>3. done.op # "clear" => f \in Files
  BY <1>2, OperationFields
<1>4. q \in Seq(Operations)
  BY <1>2 DEF Attempts, OncePlaced
<1>5. ASSUME done # Store!Operation("stage", Request(art)) PROVE Attempts(art, requests, q)
  BY <1>1, <1>5, Settles DEF AInv
<1> HIDE DEF a, q
<1>6. done.op # "clear" => Known(art, f) /\ art.retry # f /\ (Superseded(f) => Attempts(art, requests, q))
  <2>1. done.op # "clear" => Known(art, f) /\ art.retry # f
    BY <1>2, HoldingFields DEF Known, a
  <2>2. ASSUME done.op # "clear", Superseded(f) PROVE done # Store!Operation("stage", Request(art))
    BY <2>2 DEF Superseded, Store!Operation, Request
  <2>3. QED  BY <1>5, <2>1, <2>2
<1>7. ASSUME done.op # "clear", progress = "failed", Recover(f), Store!Settle(RecoveryCalls(f)) PROVE AInv'
  <2>1. queue' = q \o RecoveryCalls(f)
    BY <1>7 DEF Store!Settle, q
  <2>2. QED  BY <1>1, <1>2, <1>3, <1>6, <1>7, <2>1, RecoverKeeps DEF a
<1>8. ASSUME done.op = "stage", Staged(f) PROVE AInv'
  <2>1. CASE Superseded(f)
    <3>1. art' = art /\ queue' = Append(q, Store!Operation("discard", f))
      BY <1>3, <1>4, <1>8, <2>1, Chaining DEF Staged, Store!Settle, q, Operations, Store!Operations, Store!Operation
    <3>2. QED  BY <1>1, <1>2, <1>3, <1>6, <1>8, <2>1, <3>1, Chains DEF AInv
  <2>2. CASE ~Superseded(f)
    <3>1. art' = a /\ queue' = Append(q, Store!Operation("commit", f))
      BY <1>3, <1>4, <1>8, <2>2, Chaining DEF Staged, Store!Settle, q, a, Operations, Store!Operations, Store!Operation
    <3>2. QED  BY <1>1, <1>2, <1>3, <1>8, <3>1, Chains DEF AInv
  <2>3. QED  BY <2>1, <2>2
<1>9. ASSUME done.op = "commit", Committed PROVE AInv'
  <2>1. Attempts(art, requests, q)
    BY <1>5, <1>9 DEF Store!Operation
  <2>2. art' = [art EXCEPT !.failures = 0] /\ queue' = q
    BY <1>4, <1>9, Chaining DEF Committed, Store!Settle, q
  <2>3. /\ Coordinator(art') /\ art'.generation = art.generation /\ art'.retry = art.retry
        /\ art'.identity = art.identity /\ art'.pending = art.pending
    BY <1>1, <2>2 DEF Coordinator
  <2>4. QED  BY <1>1, <2>1, <2>2, <2>3, Holds DEF AInv
<1>10. ASSUME done.op \in {"clear", "discard"}, Store!Settle(<<>>), UNCHANGED art PROVE AInv'
  <2>1. Attempts(art, requests, q)
    BY <1>5, <1>10 DEF Store!Operation
  <2>2. queue' = q
    BY <1>4, <1>10, Chaining DEF Store!Settle, q
  <2>3. QED  BY <1>1, <1>10, <2>1, <2>2 DEF AInv
<1>11. QED  BY <1>7, <1>8, <1>9, <1>10 DEF StoreSettled

(* The timer fires for the current artwork, with nothing beside it.        *)
LEMMA RetryKeeps == ASSUME AInv, RetryFires PROVE AInv'
<1> DEFINE n == art.generation + 1
           b == [[art EXCEPT !.retry = None] EXCEPT !.generation = n]
<1>1. /\ Coordinator(art) /\ art.generation \in Nat /\ art.retry \in Files
      /\ art.retry.generation = art.generation /\ art.retry.key = art.identity.key /\ art.identity # None
  BY DEF AInv, Attempts, Coordinator, RetriedAlone, RetryFires, Known
<1>2. art' = b /\ n \in Nat /\ n > art.generation
  BY <1>1 DEF RetryFires, RequestArtwork
<1> HIDE DEF n
<1>3. b \in [identity : {art.identity}, pending : {art.pending}, generation : {n}, failures : Nat, retry : {None}]
  BY <1>1, <1>2 DEF Coordinator
<1> HIDE DEF b
<1>4. Coordinator(b) /\ b.generation > art.generation /\ b.retry = None /\ b.identity.key \in Keys /\ b.identity # None
  BY <1>1, <1>2, <1>3 DEF Coordinator, Files
<1>5. requests' = requests \cup {Request(b)} /\ queue' = queue
  BY <1>1, <1>2, <1>3 DEF RetryFires, storeVars, Request
<1>6. QED  BY <1>2, <1>4, <1>5, Requests DEF AInv

-----------------------------------------------------------------------------
(* The bridge's and the feed's callbacks                                   *)
LEMMA PairKeeps == ASSUME AInv, NEW core, NEW configured, NEW lyricFeed, Pair(core, configured, lyricFeed) PROVE AInv'
<1>1. CASE configured
  BY <1>1, CancelKeeps DEF Pair, ChangeAvailability
<1>2. CASE ~configured
  <2>1. PICK state : art' = [art EXCEPT !.pending = state] /\ (state # None => art.pending # None)
    BY <1>2 DEF Pair, PendingWithLyrics
  <2>2. QED  BY <1>2, <2>1, HoldKeeps DEF Pair, storeVars
<1>3. QED  BY <1>1, <1>2

(* At first nothing is requested.                                          *)
LEMMA AttemptsInit == Init => AInv
<1> SUFFICES ASSUME Init PROVE AInv
  OBVIOUS
<1>1. /\ art = [identity |-> None, pending |-> None, generation |-> 0, failures |-> 0, retry |-> None]
      /\ requests = {} /\ queue = <<>>
  BY DEF Init, Store!StoreInit
<1>2. Coordinator(art) /\ art.pending = None /\ art.retry = None
  BY <1>1 DEF Coordinator
<1>3. QED  BY <1>1, <1>2 DEF AInv, Attempts, OncePlaced, HeldAwaited, RetriedAlone

(* Every step keeps the attempts those of the current request.             *)
LEMMA AttemptsNext == AInv /\ [Next]_vars => AInv'
<1> SUFFICES ASSUME AInv, [Next]_vars PROVE AInv'
  OBVIOUS
<1>1. CASE UNCHANGED vars
  BY <1>1, UntouchedKeeps DEF vars, Untouched
<1>2. CASE \E core \in Cores, configured, lyricFeed \in BOOLEAN : Pair(core, configured, lyricFeed)
  BY <1>2, PairKeeps
<1>3. CASE Unpair \/ OutputMissing \/ Stop
  BY <1>3, CancelKeeps DEF Unpair, OutputMissing, Stop, ChangeAvailability
<1>4. CASE \E z \in Observations : ZoneObserved(z)
  BY <1>4, PresentKeeps DEF ZoneObserved
<1>5. CASE \E l \in Timelines \cup {None} : TimelineChanged(l)
  <2>1. PICK l : TimelineChanged(l)
    BY <1>5
  <2>2. QED  BY <2>1, HoldKeeps DEF TimelineChanged, PendingWithLyrics, storeVars
<1>6. CASE LyricsVisible
  BY <1>6, UntouchedKeeps DEF LyricsVisible, Untouched, storeVars
<1>7. CASE ImageAnswered
  BY <1>7, AnswerKeeps DEF ImageAnswered
<1>8. CASE StorePerform \/ StoreSettled \/ RetryFires
  BY <1>8, PerformKeeps, SettledKeeps, RetryKeeps
<1>9. QED  BY <1>1, <1>2, <1>3, <1>4, <1>5, <1>6, <1>7, <1>8 DEF Next

(* A snapshot is held only while an attempt at its artwork is under way,   *)
(* and no retry is ever due beside another attempt: for any servers, zones *)
(* and timelines, with any faults of downloads and files.                  *)
THEOREM AttemptsOfCurrentRequest == Spec => []AttemptsAreCurrent
<1>1. AInv => AttemptsAreCurrent
  BY DEF AInv, Attempts, OncePlaced, HeldAwaited, RetriedAlone, Free, AttemptsAreCurrent, HeldSnapshotIsAwaited,
     RetryIsForCurrentRequest, Awaited, Store!Operation
<1>2. QED  BY AttemptsInit, AttemptsNext, <1>1, PTL DEF Spec

-----------------------------------------------------------------------------
Publications == [revision : Nat, failed : BOOLEAN, lyrics : Timelines \cup {None},
                 snapshot : States]

-----------------------------------------------------------------------------
(* Snapshot states                                                         *)
LEMMA StatesMade ==
  /\ \A z \in Observations : AvailableState(z) \in States
  /\ \A availability \in {"disconnected", "outputUnavailable"}, name \in Names :
       UnavailableState(availability, name) \in States
  /\ \A s \in States, l \in Timelines \cup {None} : WithLyrics(s, l) \in States
  /\ \A s \in States : Fit(s) \in States
  /\ \A s \in States, f \in Files \cup {None} : [s EXCEPT !.artwork = f] \in States
<1>1. \A z \in Observations : AvailableState(z) \in States
  BY BridgeAssumption DEF AvailableState, States, Names
<1>2. \A availability \in {"disconnected", "outputUnavailable"}, name \in Names :
        UnavailableState(availability, name) \in States
  BY DEF UnavailableState, States
<1>3. \A s \in States, l \in Timelines \cup {None} : WithLyrics(s, l) \in States
  BY DEF WithLyrics, States
<1>4. \A s \in States : Fit(s) \in States
  BY DEF Fit, States
<1>5. \A s \in States, f \in Files \cup {None} : [s EXCEPT !.artwork = f] \in States
  BY DEF States
<1>6. QED  BY <1>1, <1>2, <1>3, <1>4, <1>5

(* Preparing a state changes no snapshot, and at most drops lyrics.        *)
LEMMA PreparedMade ==
  ASSUME NEW p \in Publications, NEW s \in States
  PROVE  /\ Prepared(p, s) \in Publications
         /\ Prepared(p, s).snapshot = p.snapshot
         /\ Prepared(p, s).lyrics \in {None, p.lyrics}
BY DEF Prepared, Publications

(* A publication shows the state, its fit, or what was shown before.       *)
LEMMA PublishedMade ==
  ASSUME NEW p \in Publications, NEW s \in States
  PROVE  /\ PublishState(p, s) \in Publications
         /\ PublishState(p, s).lyrics \in {None, p.lyrics}
         /\ PublishState(p, s).snapshot \in {p.snapshot, s, Fit(s)}
         /\ Rejected = {} => /\ PublishState(p, s).snapshot \in {s, Fit(s)}
                             /\ s # p.snapshot => PublishState(p, s).revision # p.revision
<1> DEFINE q == Prepared(p, s)
           n == q.revision + 1
<1>1. q \in Publications /\ q.snapshot = p.snapshot /\ q.lyrics \in {None, p.lyrics} /\ Fit(s) \in States
  BY PreparedMade, StatesMade
<1>2. CASE s = p.snapshot /\ ~p.failed
  BY <1>2 DEF PublishState, Publications
<1>3. CASE ~(s = p.snapshot /\ ~p.failed) /\ ~Valid(s)
  BY <1>1, <1>3 DEF PublishState, Valid
<1>4. CASE ~(s = p.snapshot /\ ~p.failed) /\ Valid(s)
  <2>1. PublishState(p, s) = [q EXCEPT !.revision = n, !.snapshot = Fit(s), !.failed = FALSE]
    BY <1>4 DEF PublishState
  <2>2. n \in Nat
    BY <1>1 DEF Publications
  <2> HIDE DEF n, q
  <2>3. [q EXCEPT !.revision = n, !.snapshot = Fit(s), !.failed = FALSE] \in
          [revision : {n}, failed : {FALSE}, lyrics : {q.lyrics}, snapshot : {Fit(s)}]
    BY <1>1 DEF Publications
  <2>4. n # p.revision
    BY <1>1 DEF n, q, Publications, Prepared
  <2>5. QED  BY <1>1, <2>1, <2>2, <2>3, <2>4 DEF Publications
<1>5. QED  BY <1>2, <1>3, <1>4

(* What a state shows, whatever becomes of its lyrics.                     *)
Shows(s, u) == /\ s.availability = u.availability /\ s.zone = u.zone /\ s.track = u.track
               /\ s.artwork = u.artwork /\ s.lyrics \in {None, u.lyrics}

(* What fitting, artwork and lyrics leave of a state.                      *)
LEMMA ShowsMade ==
  /\ \A s \in States : Shows(s, s) /\ Shows(Fit(s), s)
  /\ \A s \in States, f \in Files \cup {None} :
       LET u == [Fit(s) EXCEPT !.artwork = f]
       IN /\ u.availability = s.availability /\ u.zone = s.zone /\ u.track = s.track
          /\ u.artwork = f /\ u.lyrics \in {None, s.lyrics}
  /\ \A s \in States, l \in Timelines \cup {None} :
       LET u == WithLyrics(s, l)
       IN /\ u.availability = s.availability /\ u.zone = s.zone /\ u.track = s.track
          /\ u.artwork = s.artwork /\ u.lyrics = IF s.track = None THEN None ELSE l
BY DEF Shows, Fit, WithLyrics, States

-----------------------------------------------------------------------------
(* What the handlers make of the published and of the held snapshot        *)
LEMMA CancelOutcome ==
  ASSUME AInv, NEW p, CancelAndClear(p)
  PROVE  pub' = p /\ art'.identity = None /\ art'.pending = None
BY ResetFields DEF CancelAndClear, AInv, Attempts

(* Beginning a request holds the state under the identity.                 *)
LEMMA BeginOutcome ==
  ASSUME AInv, NEW p, NEW i, NEW state,
         \/ Begin(p, [art EXCEPT !.identity = i], state)
         \/ art.identity = i /\ Begin(p, art, state)
  PROVE  pub' = p /\ art'.identity = i /\ art'.pending = state
<1>1. Coordinator(art)
  BY DEF AInv, Attempts
<1>2. CASE Begin(p, [art EXCEPT !.identity = i], state)
  <2> DEFINE a == [art EXCEPT !.identity = i]
  <2>1. Coordinator(a) /\ a.identity = i
    BY <1>1 DEF Coordinator
  <2> HIDE DEF a
  <2>2. Begin(p, a, state)
    BY <1>2 DEF a
  <2>3. QED  BY <2>1, <2>2, BeginFields DEF Begin
<1>3. CASE art.identity = i /\ Begin(p, art, state)
  BY <1>1, <1>3, BeginFields DEF Begin
<1>4. QED  BY <1>2, <1>3

Presented(p, z) == WithLyrics(AvailableState(z), p.lyrics)
Identity(z) == [zone |-> z.zone, key |-> z.key]

(* The outcomes of presenting an observed zone.                            *)
LEMMA PresentOutcome ==
  ASSUME AInv, NEW p \in Publications, NEW z \in Observations, Present(p, z)
  PROVE  LET s == Presented(p, z)
         IN \/ /\ z.playback = "stopped" /\ pub' = PublishState(p, s)
               /\ art'.identity = None /\ art'.pending = None
            \/ z.playback = "stopped" /\ Rejected # {} /\ pub' = PublishState(p, s) /\ art' = art
            \/ Rejected # {} /\ pub' = Prepared(p, s) /\ art' = art
            \/ /\ pub' = Prepared(p, s)
               /\ art'.identity = Identity(z) /\ art'.pending = Fit(s) /\ z.playback # "stopped"
            \/ /\ pub' = PublishState(Prepared(p, s), [Fit(s) EXCEPT !.artwork = Prepared(p, s).snapshot.artwork])
               /\ art' = art /\ art.identity = Identity(z) /\ art.pending = None /\ z.playback # "stopped"
            \/ /\ pub' = PublishState(Prepared(p, s), Fit(s)) /\ z.playback # "stopped"
               /\ art'.identity = Identity(z) /\ art'.pending = None
<1> DEFINE s == Presented(p, z)
           i == Identity(z)
<1>1. s \in States
  BY StatesMade DEF Presented, Publications
<1>2. /\ z.playback = "stopped" => PresentStopped(p, s)
      /\ z.playback # "stopped" =>
           \/ ~Valid(s) /\ Publish(Prepared(p, s))
           \/ art.identity = i /\ PresentRetained(Prepared(p, s), z, Fit(s))
           \/ PresentChanged(Prepared(p, s), i, Fit(s))
  BY DEF Present, Presented, Identity
<1> HIDE DEF s, i
<1>3. CASE z.playback = "stopped"
  <2> DEFINE u == [s EXCEPT !.artwork = p.snapshot.artwork]
  <2>1. Rejected = {} /\ u # p.snapshot => PublishState(p, s).revision # p.revision
    <3>1. s = p.snapshot => u = s
      BY <1>1 DEF States
    <3>2. QED  BY <1>1, <3>1, PublishedMade
  <2> HIDE DEF u
  <2>2. CASE u # p.snapshot /\ PublishState(p, s).revision = p.revision
    BY <1>2, <1>3, <2>1, <2>2 DEF PresentStopped, Publish, u, s
  <2>3. CASE ~(u # p.snapshot /\ PublishState(p, s).revision = p.revision)
    <3>1. CancelAndClear(PublishState(p, s))
      BY <1>2, <1>3, <2>3 DEF PresentStopped, u
    <3>2. QED  BY <1>3, <3>1, CancelOutcome DEF s
  <2>4. QED  BY <2>2, <2>3
<1>4. CASE z.playback # "stopped" /\ ~Valid(s) /\ Publish(Prepared(p, s))
  BY <1>4 DEF Publish, Valid, s
<1>5. CASE z.playback # "stopped" /\ art.identity = i /\ PresentRetained(Prepared(p, s), z, Fit(s))
  <2>1. CASE art.pending # None
    <3>1. pub' = Prepared(p, s) /\ art' = [art EXCEPT !.pending = Fit(s)]
      BY <1>5, <2>1 DEF PresentRetained
    <3>2. art'.identity = i /\ art'.pending = Fit(s)
      BY <1>5, <3>1 DEF AInv, Attempts, Coordinator
    <3>3. QED  BY <1>5, <3>1, <3>2 DEF s, i
  <2>2. CASE art.pending = None
    BY <1>5, <2>2, BeginOutcome DEF PresentRetained, Publish, s, i
  <2>3. QED  BY <2>1, <2>2
<1>6. CASE z.playback # "stopped" /\ PresentChanged(Prepared(p, s), i, Fit(s))
  <2>1. CASE i.key = None
    <3>1. pub' = PublishState(Prepared(p, s), Fit(s)) /\ art' = [ResetArtworkRequest(art) EXCEPT !.identity = i]
      BY <1>6, <2>1 DEF PresentChanged
    <3>2. QED  BY <1>6, <3>1, ResetFields DEF AInv, Attempts, s, i
  <2>2. CASE i.key # None
    <3>1. Begin(Prepared(p, s), [art EXCEPT !.identity = i], Fit(s))
      BY <1>6, <2>2 DEF PresentChanged
    <3>2. QED  BY <1>6, <3>1, BeginOutcome DEF s, i
  <2>3. QED  BY <2>1, <2>2
<1>7. QED  BY <1>2, <1>3, <1>4, <1>5, <1>6

(* What publishing lyrics makes of the snapshot.                           *)
LEMMA LyricsOutcome ==
  ASSUME NEW p \in Publications, NEW l \in Timelines \cup {None}, art.pending \in States \cup {None}
  PROVE  LET q == PublishLyrics(p, l)
             u == WithLyrics(p.snapshot, l)
         IN /\ q \in Publications /\ q.lyrics \in {None, l} /\ u \in States
            /\ art.pending # None => q.snapshot = p.snapshot
            /\ q.snapshot \in {p.snapshot, u, Fit(u)}
            /\ Rejected = {} /\ art.pending = None => q.snapshot \in {u, Fit(u)}
<1> DEFINE r == [p EXCEPT !.lyrics = l]
           u == WithLyrics(p.snapshot, l)
<1>1. r \in Publications /\ r.lyrics = l /\ r.snapshot = p.snapshot /\ u \in States
  BY StatesMade DEF Publications
<1>2. CASE art.pending # None
  <2> DEFINE h == WithLyrics(art.pending, l)
  <2>1. PublishLyrics(p, l) = Prepared(r, h) /\ h \in States
    BY <1>2, StatesMade DEF PublishLyrics, LyricsHeld
  <2> HIDE DEF r, h, u
  <2>2. /\ Prepared(r, h) \in Publications /\ Prepared(r, h).lyrics \in {None, l}
        /\ Prepared(r, h).snapshot = p.snapshot
    BY <1>1, <2>1, PreparedMade
  <2>3. QED  BY <1>1, <1>2, <2>1, <2>2 DEF u
<1>3. CASE art.pending = None
  <2>1. PublishLyrics(p, l) = PublishState(r, u)
    BY <1>3 DEF PublishLyrics, LyricsShown
  <2> HIDE DEF r, u
  <2>2. QED  BY <1>1, <1>3, <2>1, PublishedMade DEF u
<1>4. QED  BY <1>2, <1>3

(* What it makes of the held one.                                          *)
LEMMA HeldOutcome ==
  ASSUME NEW l \in Timelines \cup {None}, art.pending \in States \cup {None}
  PROVE  LET h == PendingWithLyrics(l)
             u == WithLyrics(art.pending, l)
         IN /\ art.pending = None => h = None
            /\ art.pending # None => u \in States /\ h = Fit(u) /\ h \in States /\ h # None
BY StatesMade, NoneAssumption DEF PendingWithLyrics

(* The held snapshot, or else the latest, gets its artwork or none.        *)
LEMMA ReleaseOutcome ==
  ASSUME NEW p \in Publications, NEW a, a.pending \in States \cup {None}, NEW f \in Files \cup {None}
  PROVE  LET q == Release(p, a, f)
             base == IF a.pending = None THEN p.snapshot ELSE a.pending
             u == [base EXCEPT !.artwork = f]
         IN /\ q \in Publications /\ q.lyrics \in {None, p.lyrics} /\ base \in States /\ u \in States
            /\ q.snapshot \in {p.snapshot, u, Fit(u)}
            /\ Rejected = {} => q.snapshot \in {u, Fit(u)}
<1> DEFINE base == IF a.pending = None THEN p.snapshot ELSE a.pending
           u == [base EXCEPT !.artwork = f]
<1>1. base \in States /\ u \in States
  BY StatesMade DEF Publications
<1>2. Release(p, a, f) = PublishState(p, u)
  BY DEF Release
<1> HIDE DEF u
<1>3. QED  BY <1>1, <1>2, PublishedMade DEF u

-----------------------------------------------------------------------------
(* Types                                                                   *)
Feeds == [on : BOOLEAN, tracked : NowPlayings \cup {None},
          accepted : Timelines \cup {None}, visible : BOOLEAN]
Connections == [core : Cores \cup {None}, subscribed : BOOLEAN, name : Names,
                zone : Observations \cup {None}]
DiskTypes == /\ disk \subseteq Files
             /\ currentPath \in Files \cup {None} /\ stagedPath \in Files \cup {None}
             /\ progress \in {"waiting", "done", "failed"}
ShownTypes == /\ pub \in Publications
              /\ art.identity \in Identities \cup {None} /\ art.pending \in States \cup {None}
Types == /\ AInv /\ DiskTypes /\ ShownTypes
         /\ conn \in Connections /\ feed \in Feeds /\ viewed \subseteq Timelines /\ running \in BOOLEAN

(* The types of the invariant are those the runs check.                    *)
LEMMA TypesSuffice == Types => TypeOK
<1> SUFFICES ASSUME Types PROVE TypeOK
  OBVIOUS
<1>1. requests \subseteq Files /\ queue \in Seq(Operations)
  BY DEF Types, AInv, Attempts, OncePlaced
<1>2. art \in [identity : Identities \cup {None}, pending : States \cup {None},
              generation : Nat, failures : Nat, retry : Files \cup {None}]
  BY DEF Types, AInv, Attempts, Coordinator, ShownTypes
<1>3. Store!StoreTypeOK
  BY <1>1 DEF Store!StoreTypeOK, Types, DiskTypes, Operations
<1>4. QED  BY <1>1, <1>2, <1>3 DEF Types, ShownTypes, TypeOK, Publications, Feeds, Connections

(* The feed's operations make feeds.                                       *)
LEMMA FeedMade ==
  /\ NoFeed \in Feeds /\ [NoFeed EXCEPT !.on = TRUE] \in Feeds
  /\ \A z \in Observations : TrackedNowPlaying(z) \in NowPlayings \cup {None}
  /\ \A f \in Feeds, l \in Timelines \cup {None} : Accepting(f, l) \in Feeds
  /\ \A f \in Feeds, n \in NowPlayings \cup {None} : Track(f, n) \in Feeds
<1>1. NoFeed \in Feeds /\ [NoFeed EXCEPT !.on = TRUE] \in Feeds
  BY DEF NoFeed, Feeds
<1>2. \A z \in Observations : TrackedNowPlaying(z) \in NowPlayings \cup {None}
  BY DEF TrackedNowPlaying, NowPlayings, Keys
<1>3. \A f \in Feeds, l \in Timelines \cup {None} : Accepting(f, l) \in Feeds
  BY DEF Accepting, Feeds
<1>4. \A f \in Feeds, n \in NowPlayings \cup {None} : Track(f, n) \in Feeds
  BY <1>3 DEF Track, Feeds
<1>5. QED  BY <1>1, <1>2, <1>3, <1>4

(* The store's variables, and what a handler leaves of them.               *)
LEMMA DiskKept ==
  ASSUME DiskTypes,
         \/ UNCHANGED storeVars
         \/ \E ops : Store!Call(ops)
         \/ \E ops : Store!Settle(ops)
  PROVE  DiskTypes'
BY DEF DiskTypes, storeVars, Store!Call, Store!Settle

(* Operations on the directory handle files only.                          *)
LEMMA DiskPerform ==
  ASSUME AInv, DiskTypes, StorePerform
  PROVE  DiskTypes'
<1> USE DEF DiskTypes, Store!Running, Store!Remove
<1>1. queue # <<>> => Head(queue) \in Operations
  BY DEF AInv, Attempts, OncePlaced
<1>2. CASE Store!PerformStage
  <2>1. Head(queue).file \in Files
    BY <1>1, <1>2, OperationFields DEF Store!PerformStage
  <2>2. QED  BY <1>2, <2>1 DEF Store!PerformStage
<1>3. CASE Store!PerformCommit
  <2>1. Head(queue).file \in Files
    BY <1>1, <1>3, OperationFields DEF Store!PerformCommit
  <2>2. QED  BY <1>3, <2>1 DEF Store!PerformCommit
<1>4. CASE Store!PerformDiscard
  BY <1>4 DEF Store!PerformDiscard
<1>5. CASE Store!PerformClear
  BY <1>5 DEF Store!PerformClear
<1>6. QED  BY <1>2, <1>3, <1>4, <1>5 DEF StorePerform, Store!Perform

(* What the handlers publish and hold are snapshot states.                 *)
LEMMA ChangeTypes ==
  ASSUME AInv, NEW q \in Publications, NEW availability \in {"disconnected", "outputUnavailable"}, NEW name \in Names,
         ChangeAvailability(q, availability, name)
  PROVE  ShownTypes' /\ (DiskTypes => DiskTypes')
<1>1. PublishState(q, UnavailableState(availability, name)) \in Publications
  BY StatesMade, PublishedMade
<1>2. CancelAndClear(PublishState(q, UnavailableState(availability, name)))
  BY DEF ChangeAvailability
<1>3. QED  BY <1>1, <1>2, CancelOutcome, DiskKept DEF ShownTypes, CancelAndClear

(* Presenting an observed zone keeps the types.                            *)
LEMMA PresentTypes ==
  ASSUME AInv, ShownTypes, DiskTypes, NEW p \in Publications, NEW z \in Observations, Present(p, z)
  PROVE  ShownTypes' /\ DiskTypes'
<1> DEFINE s == Presented(p, z)
<1>1. s \in States
  BY StatesMade DEF Presented, Publications
<1>2. Prepared(p, s) \in Publications /\ Fit(s) \in States /\ Identity(z) \in Identities
  BY <1>1, StatesMade, PreparedMade DEF Identity, Identities, Keys
<1>3. [Fit(s) EXCEPT !.artwork = Prepared(p, s).snapshot.artwork] \in States
  BY <1>2, StatesMade DEF Publications, States
<1> HIDE DEF s
<1>4. /\ PublishState(p, s) \in Publications
      /\ PublishState(Prepared(p, s), Fit(s)) \in Publications
      /\ PublishState(Prepared(p, s), [Fit(s) EXCEPT !.artwork = Prepared(p, s).snapshot.artwork]) \in Publications
  BY <1>1, <1>2, <1>3, PublishedMade
<1>5. ShownTypes'
  BY <1>2, <1>4, PresentOutcome DEF s, ShownTypes
<1>6. DiskTypes'
  BY DiskKept DEF Present, PresentStopped, PresentRetained, PresentChanged, Publish, Begin, CancelAndClear
<1>7. QED  BY <1>5, <1>6

(* So does stopping the feed,                                              *)
LEMMA StoppedTypes ==
  ASSUME ShownTypes
  PROVE  FeedStopped(pub) \in Publications
BY LyricsOutcome DEF FeedStopped, ShownTypes

(* reconciling with it,                                                    *)
LEMMA ReconciledTypes ==
  ASSUME NEW p \in Publications, NEW f \in Feeds, NEW g \in Feeds
  PROVE  /\ Reconciled(p, f, g) \in Publications
         /\ Reconciled(p, f, g).snapshot = p.snapshot
         /\ Reconciled(p, f, g).lyrics = IF g.accepted # f.accepted THEN g.accepted ELSE p.lyrics
BY DEF Reconciled, Publications, Feeds

(* recovering from a failed attempt,                                       *)
LEMMA RecoverTypes ==
  ASSUME AInv, ShownTypes, NEW f \in Files, Recover(f)
  PROVE  ShownTypes'
<1>1. CASE Superseded(f)
  BY <1>1 DEF Recover, ShownTypes
<1>2. CASE ~Superseded(f)
  <2>1. pub' = Release(pub, art, None) /\ art' = Recovered(art, f)
    BY <1>2 DEF Recover
  <2>2. QED  BY <2>1, ReleaseOutcome, RecoveredFields DEF ShownTypes, AInv, Attempts
<1>3. QED  BY <1>1, <1>2

(* and settling an operation.                                              *)
LEMMA SettledTypes ==
  ASSUME Types, StoreSettled
  PROVE  ShownTypes' /\ DiskTypes'
<1> DEFINE f == Head(queue).file
<1>1. Head(queue) \in Operations /\ (Head(queue).op # "clear" => f \in Files)
  <2>1. Head(queue) \in Operations
    BY DEF Types, AInv, Attempts, OncePlaced, StoreSettled, Store!Settled
  <2>2. QED  BY <2>1, OperationFields
<1> HIDE DEF f
<1>2. ASSUME Head(queue).op # "clear", Recover(f) PROVE ShownTypes'
  BY <1>1, <1>2, RecoverTypes DEF Types
<1>3. ASSUME Head(queue).op = "stage", Staged(f) PROVE ShownTypes'
  <2>1. CASE Superseded(f)
    BY <1>3, <2>1 DEF Staged, Types, ShownTypes
  <2>2. CASE ~Superseded(f)
    <3>1. pub' = Release(pub, art, f) /\ art' = [art EXCEPT !.pending = None]
      BY <1>3, <2>2 DEF Staged
    <3>2. QED  BY <1>1, <1>3, <3>1, ReleaseOutcome, HoldingFields DEF ShownTypes, Types
  <2>3. QED  BY <2>1, <2>2
<1>4. ASSUME Committed PROVE ShownTypes'
  BY <1>4 DEF Committed, Types, AInv, Attempts, Coordinator, ShownTypes
<1>5. ShownTypes'
  BY <1>2, <1>3, <1>4 DEF StoreSettled, f, Types, ShownTypes
<1>6. DiskTypes'
  BY DiskKept DEF StoreSettled, Staged, Committed, Types
<1>7. QED  BY <1>5, <1>6

(* Types hold at first,                                                    *)
LEMMA TypesInit == Init => Types
<1> SUFFICES ASSUME Init PROVE Types
  OBVIOUS
<1>1. pub \in Publications
  BY DEF Init, Publications, UnavailableState, States, Names
<1>2. DiskTypes /\ art.identity = None /\ art.pending = None
  BY DEF Init, Store!StoreInit, DiskTypes
<1>3. conn \in Connections /\ feed \in Feeds
  BY FeedMade DEF Init, Connections, Names
<1>4. QED  BY <1>1, <1>2, <1>3, AttemptsInit DEF Init, Types, ShownTypes

(* and after every step.                                                   *)
LEMMA TypesNext == Types /\ [Next]_vars => Types'
<1> SUFFICES ASSUME Types, [Next]_vars PROVE Types'
  OBVIOUS
<1>1. AInv'
  BY AttemptsNext DEF Types
<1> DEFINE Goal == /\ DiskTypes' /\ ShownTypes' /\ conn' \in Connections /\ feed' \in Feeds
                   /\ viewed' \subseteq Timelines /\ running' \in BOOLEAN
<1>2. ASSUME UNCHANGED vars PROVE Goal
  BY <1>2 DEF vars, Types, DiskTypes, ShownTypes
<1>3. ASSUME NEW core \in Cores, NEW configured \in BOOLEAN, NEW lyricFeed \in BOOLEAN, Pair(core, configured, lyricFeed)
      PROVE  Goal
  <2>1. conn' \in Connections /\ feed' \in Feeds /\ viewed' \subseteq Timelines /\ running' \in BOOLEAN
    <3>1. conn' \in Connections
      <4>1. conn' = [conn EXCEPT !.core = core, !.subscribed = configured, !.zone = None] /\ conn \in Connections
        BY <1>3 DEF Pair, Types
      <4>2. QED  BY <4>1 DEF Connections
    <3>2. feed' \in Feeds
      BY <1>3, FeedMade DEF Pair
    <3>3. QED  BY <1>3, <3>1, <3>2 DEF Pair, Types
  <2>2. FeedStopped(pub) \in Publications /\ conn.name \in Names
    BY StoppedTypes DEF Types, Connections
  <2>3. CASE configured
    BY <1>3, <2>1, <2>2, <2>3, ChangeTypes DEF Pair, Types
  <2>4. CASE ~configured
    <3>1. PICK h \in States \cup {None} : pub' = FeedStopped(pub) /\ art' = [art EXCEPT !.pending = h]
      BY <1>3, <2>4, HeldOutcome DEF Pair, Types, ShownTypes
    <3>2. ShownTypes'
      BY <2>2, <3>1 DEF Types, AInv, Attempts, Coordinator, ShownTypes
    <3>3. DiskTypes'
      BY <1>3, <2>4, DiskKept DEF Pair, Types
    <3>4. QED  BY <2>1, <3>2, <3>3
  <2>5. QED  BY <2>3, <2>4
<1>4. ASSUME Unpair PROVE Goal
  <2>1. conn' \in Connections /\ feed' \in Feeds /\ viewed' \subseteq Timelines /\ running' \in BOOLEAN
    BY <1>4, FeedMade DEF Unpair, Types, Connections
  <2>2. FeedStopped(pub) \in Publications /\ None \in Names
    BY StoppedTypes DEF Types, Names
  <2>3. QED  BY <1>4, <2>1, <2>2, ChangeTypes DEF Unpair, Types
<1>5. ASSUME OutputMissing PROVE Goal
  <2>1. conn' \in Connections /\ feed' \in Feeds /\ viewed' \subseteq Timelines /\ running' \in BOOLEAN
    BY <1>5, FeedMade DEF OutputMissing, Types, Connections
  <2>2. Reconciled(pub, feed, feed') \in Publications /\ conn.name \in Names
    BY <2>1, ReconciledTypes DEF Types, Connections, ShownTypes
  <2>3. QED  BY <1>5, <2>1, <2>2, ChangeTypes DEF OutputMissing, Types
<1>6. ASSUME NEW z \in Observations, ZoneObserved(z) PROVE Goal
  <2>1. conn' \in Connections /\ viewed' \subseteq Timelines /\ running' \in BOOLEAN
    BY <1>6 DEF ZoneObserved, Types, Connections, Names
  <2>2. feed' \in Feeds
    BY <1>6, FeedMade DEF ZoneObserved, Types
  <2>3. Reconciled(pub, feed, feed') \in Publications
    BY <2>2, ReconciledTypes DEF Types, ShownTypes
  <2>4. QED  BY <1>6, <2>1, <2>2, <2>3, PresentTypes DEF ZoneObserved, Types
<1>7. ASSUME NEW l \in Timelines \cup {None}, TimelineChanged(l) PROVE Goal
  <2>1. conn' \in Connections /\ feed' \in Feeds /\ viewed' \subseteq Timelines /\ running' \in BOOLEAN
    BY <1>7, FeedMade DEF TimelineChanged, Types
  <2>2. pub' \in Publications /\ PendingWithLyrics(l) \in States \cup {None}
    BY <1>7, LyricsOutcome, HeldOutcome DEF TimelineChanged, Types, ShownTypes
  <2>3. art' = [art EXCEPT !.pending = PendingWithLyrics(l)]
    BY <1>7 DEF TimelineChanged
  <2>4. ShownTypes'
    BY <2>2, <2>3 DEF Types, AInv, Attempts, Coordinator, ShownTypes
  <2>5. DiskTypes'
    BY <1>7, DiskKept DEF TimelineChanged, Types
  <2>6. QED  BY <2>1, <2>4, <2>5
<1>8. ASSUME LyricsVisible PROVE Goal
  <2>1. feed' \in Feeds /\ viewed' \subseteq Timelines
    BY <1>8 DEF LyricsVisible, Types, Feeds
  <2>2. QED  BY <1>8, <2>1, DiskKept DEF LyricsVisible, Types, ShownTypes
<1>9. ASSUME Stop PROVE Goal
  <2>1. FeedStopped(pub) \in Publications
    BY StoppedTypes DEF Types
  <2>2. ShownTypes'
    BY <1>9, <2>1, CancelOutcome DEF Stop, Types, ShownTypes
  <2>3. QED  BY <1>9, <2>2, FeedMade, DiskKept DEF Stop, Types, CancelAndClear
<1>10. ASSUME ImageAnswered PROVE Goal
  <2>1. PICK r \in requests : ImageArrived(r) \/ ImageFailed(r)
    BY <1>10 DEF ImageAnswered
  <2>2. r \in Files
    BY DEF Types, AInv, Attempts, OncePlaced
  <2>3. ShownTypes'
    BY <2>1, <2>2, RecoverTypes DEF ImageArrived, ImageFailed, Types, ShownTypes
  <2>4. QED  BY <2>1, <2>3, DiskKept DEF ImageArrived, ImageFailed, Types
<1>11. ASSUME StorePerform PROVE Goal
  BY <1>11, DiskPerform DEF StorePerform, Types, ShownTypes
<1>12. ASSUME StoreSettled PROVE Goal
  BY <1>12, SettledTypes DEF StoreSettled, Types
<1>13. ASSUME RetryFires PROVE Goal
  <2>1. art'.identity = art.identity /\ art'.pending = art.pending
    BY <1>13 DEF RetryFires, RequestArtwork, Types, AInv, Attempts, Coordinator
  <2>2. QED  BY <1>13, <2>1, DiskKept DEF RetryFires, Types, ShownTypes
<1>14. QED
  BY <1>1, <1>2, <1>3, <1>4, <1>5, <1>6, <1>7, <1>8, <1>9, <1>10, <1>11, <1>12, <1>13 DEF Next, Types

(* Every variable of the Bridge, its store and its feed keeps its type.    *)
THEOREM TypeCorrect == Spec => []TypeOK
<1>1. QED  BY TypesInit, TypesNext, TypesSuffice, PTL DEF Spec

-----------------------------------------------------------------------------
(* What viewers see                                                        *)

(* The snapshot viewers see next: the held one, or else the one published. *)
Latest(p, a) == IF a.pending = None THEN p.snapshot ELSE a.pending

OwnLyrics(s) == s.lyrics # None => s.lyrics.track = s.track

ArtworkInv(p, a, r) ==
  /\ a.pending # None => a.identity # None
  /\ a.identity # None => /\ Latest(p, a).availability = "available"
                          /\ Latest(p, a).zone = a.identity.zone
  /\ a.pending = None /\ a.identity # None /\ p.snapshot.artwork # None
        => p.snapshot.artwork.key = a.identity.key
  /\ r /\ a.identity = None => p.snapshot.artwork = None
  /\ p.snapshot.artwork # None => p.snapshot.availability = "available"

LyricsInv(p, a, f) ==
  /\ p.lyrics # None => p.lyrics = f.accepted
  /\ f.accepted # None => f.tracked # None /\ f.accepted.track = f.tracked.track
  /\ f.tracked # None => f.on /\ Latest(p, a).track = f.tracked.track
  /\ OwnLyrics(p.snapshot)
  /\ a.pending # None => OwnLyrics(a.pending)

ViewInv == Types /\ ArtworkInv(pub, art, running) /\ LyricsInv(pub, art, feed)

-----------------------------------------------------------------------------
(* What two states share, whatever their lyrics.                           *)
Same(s, u) == /\ s.availability = u.availability /\ s.zone = u.zone /\ s.track = u.track
              /\ s.artwork = u.artwork

(* Both invariants survive changes of lyrics only.                         *)
LEMMA SameKeeps ==
  ASSUME NEW p, NEW q, NEW a, NEW b, NEW r, ArtworkInv(p, a, r),
         b.identity = a.identity, b.pending = None <=> a.pending = None,
         Same(q.snapshot, p.snapshot), a.pending # None => Same(b.pending, a.pending)
  PROVE  ArtworkInv(q, b, r) /\ Latest(q, b).track = Latest(p, a).track
BY DEF ArtworkInv, Latest, Same

(* Published and made to fit, a state shows what it is.                    *)
LEMMA PublishedShows ==
  ASSUME Rejected = {}, NEW p \in Publications, NEW s \in States
  PROVE  LET q == PublishState(p, s)
         IN /\ Same(q.snapshot, s) /\ q.snapshot.lyrics \in {None, s.lyrics}
            /\ q.lyrics \in {None, p.lyrics}
<1> DEFINE q == PublishState(p, s)
<1>1. q.snapshot \in {s, Fit(s)} /\ q.lyrics \in {None, p.lyrics}
  BY PublishedMade
<1> HIDE DEF q
<1>2. QED  BY <1>1, ShowsMade DEF Shows, Same, q

(* The held snapshot, or else the latest, is shown with the artwork of the *)
(* identity or with none.                                                  *)
LEMMA ReleaseView ==
  ASSUME Rejected = {}, ViewInv, NEW f \in Files \cup {None},
         f # None => art.identity # None /\ f.key = art.identity.key,
         pub' = Release(pub, art, f), art'.pending = None, art'.identity = art.identity
  PROVE  ArtworkInv(pub', art', running) /\ LyricsInv(pub', art', feed)
<1> DEFINE base == Latest(pub, art)
           u == [base EXCEPT !.artwork = f]
<1>1. pub \in Publications /\ art.pending \in States \cup {None}
  BY DEF ViewInv, Types, ShownTypes
<1>2. base \in States /\ u \in States /\ pub' = PublishState(pub, u)
  BY <1>1, StatesMade DEF Latest, Publications, Release
<1>3. u.availability = base.availability /\ u.zone = base.zone /\ u.track = base.track
      /\ u.artwork = f /\ u.lyrics = base.lyrics
  BY <1>2 DEF States
<1> HIDE DEF u
<1>4. Same(pub'.snapshot, u) /\ pub'.snapshot.lyrics \in {None, u.lyrics} /\ pub'.lyrics \in {None, pub.lyrics}
  BY <1>1, <1>2, PublishedShows
<1>5. OwnLyrics(base)
  BY DEF ViewInv, LyricsInv, Latest
<1> HIDE DEF base
<1>6. Latest(pub', art') = pub'.snapshot /\ Latest(pub, art) = base
  BY DEF Latest, base
<1>7. ArtworkInv(pub', art', running)
  BY <1>3, <1>4, <1>6 DEF ViewInv, ArtworkInv, Same
<1>8. LyricsInv(pub', art', feed)
  BY <1>3, <1>4, <1>5, <1>6 DEF ViewInv, LyricsInv, Same, OwnLyrics
<1>9. QED  BY <1>7, <1>8

(* An unavailable snapshot has neither artwork nor lyrics.                 *)
LEMMA ChangeView ==
  ASSUME Rejected = {}, AInv, NEW q \in Publications, q.lyrics = None,
         NEW availability \in {"disconnected", "outputUnavailable"}, NEW name \in Names,
         ChangeAvailability(q, availability, name), feed'.tracked = None, feed'.accepted = None, NEW r
  PROVE  ArtworkInv(pub', art', r) /\ LyricsInv(pub', art', feed')
<1> DEFINE s == UnavailableState(availability, name)
<1>1. s \in States /\ s.artwork = None /\ s.lyrics = None
  BY StatesMade DEF UnavailableState
<1>2. CancelAndClear(PublishState(q, s))
  BY DEF ChangeAvailability
<1> HIDE DEF s
<1>3. pub' = PublishState(q, s) /\ art'.identity = None /\ art'.pending = None
  BY <1>2, CancelOutcome
<1>4. Same(pub'.snapshot, s) /\ pub'.snapshot.lyrics = None /\ pub'.lyrics = None
  BY <1>1, <1>3, PublishedShows
<1>5. QED  BY <1>1, <1>3, <1>4 DEF ArtworkInv, LyricsInv, Same, OwnLyrics

(* A zone is presented with the lyrics the feed accepted for its track.    *)
LEMMA PresentView ==
  ASSUME Rejected = {}, ViewInv, running, NEW p \in Publications, p.snapshot = pub.snapshot,
         NEW z \in Observations, Present(p, z), NEW g,
         p.lyrics # None => p.lyrics = g.accepted,
         g.accepted # None => g.tracked # None /\ g.accepted.track = g.tracked.track,
         g.tracked # None => g.on /\ g.tracked = TrackedNowPlaying(z)
  PROVE  ArtworkInv(pub', art', running) /\ LyricsInv(pub', art', g)
<1> DEFINE s == Presented(p, z)
           q == Prepared(p, s)
           kept == [Fit(s) EXCEPT !.artwork = q.snapshot.artwork]
<1>1. AvailableState(z) \in States /\ p.lyrics \in Timelines \cup {None}
  BY StatesMade DEF Publications
<1>2. /\ s \in States /\ s.availability = "available" /\ s.zone = z.zone /\ s.artwork = None
      /\ s.track = (IF z.playback = "stopped" THEN None ELSE z.track)
      /\ s.lyrics = (IF s.track = None THEN None ELSE p.lyrics)
  BY <1>1, StatesMade, ShowsMade DEF Presented, AvailableState
<1>3. g.tracked # None => z.playback # "stopped" /\ g.tracked.track = z.track
  BY DEF TrackedNowPlaying
<1>4. OwnLyrics(s)
  BY <1>2, <1>3 DEF OwnLyrics
<1>5. Same(Fit(s), s) /\ Fit(s).lyrics \in {None, s.lyrics} /\ Fit(s) \in States
  BY <1>2, StatesMade, ShowsMade DEF Shows, Same
<1> HIDE DEF s
<1>6. q \in Publications /\ q.snapshot = pub.snapshot /\ q.lyrics \in {None, p.lyrics}
  BY <1>2, PreparedMade
<1> HIDE DEF q
<1>7. /\ kept \in States /\ kept.availability = s.availability /\ kept.zone = s.zone /\ kept.track = s.track
      /\ kept.artwork = pub.snapshot.artwork /\ kept.lyrics \in {None, s.lyrics}
  <2>1. q.snapshot.artwork \in Files \cup {None}
    BY <1>6 DEF Publications, States
  <2>2. kept \in States
    BY <1>5, <2>1, StatesMade
  <2>3. /\ kept.availability = Fit(s).availability /\ kept.zone = Fit(s).zone /\ kept.track = Fit(s).track
        /\ kept.artwork = q.snapshot.artwork /\ kept.lyrics = Fit(s).lyrics
    BY <1>5 DEF States
  <2>4. QED  BY <1>5, <1>6, <2>2, <2>3 DEF Same
<1>8. Identity(z) # None /\ Identity(z).zone = z.zone
  BY NoneAssumption DEF Identity, Identities, Keys
<1>9. Fit(s) # None
  BY <1>5, NoneAssumption
<1> HIDE DEF kept
<1>10. CASE z.playback = "stopped" /\ pub' = PublishState(p, s) /\ art'.identity = None /\ art'.pending = None
  <2>1. Same(pub'.snapshot, s) /\ pub'.snapshot.lyrics \in {None, s.lyrics} /\ pub'.lyrics \in {None, p.lyrics}
    BY <1>2, <1>10, PublishedShows
  <2>2. QED  BY <1>2, <1>3, <1>4, <1>10, <2>1 DEF ArtworkInv, LyricsInv, Latest, Same, OwnLyrics
<1>11. CASE pub' = q /\ art'.identity = Identity(z) /\ art'.pending = Fit(s) /\ z.playback # "stopped"
  <2>1. Latest(pub', art') = Fit(s)
    BY <1>9, <1>11 DEF Latest
  <2>2. ArtworkInv(pub', art', running)
    BY <1>2, <1>5, <1>6, <1>8, <1>9, <1>11, <2>1 DEF ViewInv, ArtworkInv, Same
  <2>3. LyricsInv(pub', art', g)
    BY <1>2, <1>3, <1>4, <1>5, <1>6, <1>11, <2>1 DEF ViewInv, LyricsInv, Same, OwnLyrics
  <2>4. QED  BY <2>2, <2>3
<1>12. CASE /\ pub' = PublishState(q, kept) /\ art' = art /\ art.identity = Identity(z) /\ art.pending = None
            /\ z.playback # "stopped"
  <2>1. Same(pub'.snapshot, kept) /\ pub'.snapshot.lyrics \in {None, kept.lyrics} /\ pub'.lyrics \in {None, q.lyrics}
    BY <1>6, <1>7, <1>12, PublishedShows
  <2>2. Latest(pub', art') = pub'.snapshot
    BY <1>12 DEF Latest
  <2>3. ArtworkInv(pub', art', running)
    BY <1>2, <1>7, <1>8, <1>12, <2>1, <2>2 DEF ViewInv, ArtworkInv, Same
  <2>4. LyricsInv(pub', art', g)
    BY <1>2, <1>3, <1>4, <1>6, <1>7, <1>12, <2>1, <2>2 DEF LyricsInv, Same, OwnLyrics
  <2>5. QED  BY <2>3, <2>4
<1>13. CASE /\ pub' = PublishState(q, Fit(s)) /\ art'.identity = Identity(z) /\ art'.pending = None
            /\ z.playback # "stopped"
  <2>1. Same(pub'.snapshot, Fit(s)) /\ pub'.snapshot.lyrics \in {None, Fit(s).lyrics} /\ pub'.lyrics \in {None, q.lyrics}
    BY <1>5, <1>6, <1>13, PublishedShows
  <2>2. Latest(pub', art') = pub'.snapshot
    BY <1>13 DEF Latest
  <2>3. QED  BY <1>2, <1>3, <1>4, <1>5, <1>6, <1>8, <1>13, <2>1, <2>2 DEF ArtworkInv, LyricsInv, Same, OwnLyrics
<1>14. QED
  <2>1. AInv
    BY DEF ViewInv, Types
  <2>2. QED  BY <1>10, <1>11, <1>12, <1>13, <2>1, PresentOutcome DEF s, q, kept

(* The feed gives up what it accepted, and so do the snapshots.            *)
LEMMA StoppedView ==
  ASSUME ViewInv
  PROVE  LET q == FeedStopped(pub)
         IN /\ q \in Publications /\ q.lyrics = None
            /\ Same(q.snapshot, pub.snapshot) /\ OwnLyrics(q.snapshot)
<1>1. pub \in Publications /\ art.pending \in States \cup {None}
  BY DEF ViewInv, Types, ShownTypes
<1>2. FeedStopped(pub) \in Publications
  BY StoppedTypes DEF ViewInv, Types
<1>3. CASE feed.accepted # None
  <2> DEFINE u == WithLyrics(pub.snapshot, None)
  <2>1. /\ FeedStopped(pub).lyrics = None /\ FeedStopped(pub).snapshot \in {pub.snapshot, u, Fit(u)}
        /\ u \in States
    BY <1>1, <1>3, LyricsOutcome DEF FeedStopped
  <2>2. Same(u, pub.snapshot) /\ u.lyrics = None
    BY <1>1, ShowsMade DEF Same, Publications
  <2> HIDE DEF u
  <2>3. Same(Fit(u), u) /\ Fit(u).lyrics = None
    BY <2>1, <2>2, ShowsMade DEF Shows, Same
  <2>4. QED  BY <1>2, <2>1, <2>2, <2>3 DEF ViewInv, LyricsInv, OwnLyrics, Same
<1>4. CASE feed.accepted = None
  BY <1>1, <1>4 DEF FeedStopped, ViewInv, LyricsInv, Same
<1>5. QED  BY <1>3, <1>4

(* New lyrics of the tracked track, or none, are added to what is shown,   *)
(* or to what is held.                                                     *)
LEMMA LyricsView ==
  ASSUME Rejected = {}, ViewInv, NEW l \in Timelines \cup {None}, TimelineChanged(l)
  PROVE  ArtworkInv(pub', art', running) /\ LyricsInv(pub', art', feed')
<1> DEFINE u == WithLyrics(pub.snapshot, l)
           h == WithLyrics(art.pending, l)
<1>1. pub \in Publications /\ art.pending \in States \cup {None} /\ Coordinator(art)
  BY DEF ViewInv, Types, ShownTypes, AInv, Attempts
<1>2. feed'.accepted = l /\ feed'.tracked = feed.tracked /\ feed'.on = feed.on
  BY DEF TimelineChanged, Accepting, ViewInv, Types, Feeds
<1>3. l # None => feed.tracked # None /\ l.track = feed.tracked.track
  BY DEF TimelineChanged, Acceptable
<1>4. /\ pub' = PublishLyrics(pub, l) /\ art'.pending = PendingWithLyrics(l) /\ art'.identity = art.identity
  BY <1>1 DEF TimelineChanged, Coordinator
<1>5. /\ pub'.lyrics \in {None, l} /\ u \in States
      /\ art.pending # None => pub'.snapshot = pub.snapshot
      /\ art.pending = None => pub'.snapshot \in {u, Fit(u)}
  BY <1>1, <1>4, LyricsOutcome
<1>6. Same(u, pub.snapshot) /\ u.lyrics \in {None, l}
  BY <1>1, ShowsMade DEF Same, Publications
<1> HIDE DEF u
<1>7. Same(Fit(u), u) /\ Fit(u).lyrics \in {None, l}
  BY <1>5, <1>6, ShowsMade DEF Shows, Same
<1>8. CASE art.pending = None
  <2>1. art'.pending = None
    BY <1>1, <1>4, <1>8, HeldOutcome
  <2>2. Same(pub'.snapshot, pub.snapshot) /\ pub'.snapshot.lyrics \in {None, l}
    BY <1>5, <1>6, <1>7, <1>8 DEF Same
  <2>3. ArtworkInv(pub', art', running) /\ Latest(pub', art').track = Latest(pub, art).track
    BY <1>4, <1>8, <2>1, <2>2, SameKeeps DEF ViewInv
  <2>4. LyricsInv(pub', art', feed')
    BY <1>2, <1>3, <1>5, <1>8, <2>1, <2>2, <2>3 DEF ViewInv, LyricsInv, Latest, OwnLyrics, Same
  <2>5. QED  BY <2>3, <2>4
<1>9. CASE art.pending # None
  <2>1. h \in States /\ art'.pending = Fit(h) /\ art'.pending # None
    BY <1>1, <1>4, <1>9, HeldOutcome
  <2>2. Same(h, art.pending) /\ h.lyrics \in {None, l}
    BY <1>1, <1>9, ShowsMade DEF Same
  <2> HIDE DEF h
  <2>3. Same(Fit(h), h) /\ Fit(h).lyrics \in {None, l}
    BY <2>1, <2>2, ShowsMade DEF Shows, Same
  <2>4. Same(art'.pending, art.pending) /\ art'.pending.lyrics \in {None, l} /\ pub'.snapshot = pub.snapshot
    BY <1>5, <1>9, <2>1, <2>2, <2>3 DEF Same
  <2>5. ArtworkInv(pub', art', running) /\ Latest(pub', art').track = Latest(pub, art).track
    BY <1>4, <1>9, <2>1, <2>4, SameKeeps DEF ViewInv, Same
  <2>6. LyricsInv(pub', art', feed')
    BY <1>2, <1>3, <1>5, <1>9, <2>1, <2>4, <2>5 DEF ViewInv, LyricsInv, Latest, OwnLyrics, Same
  <2>7. QED  BY <2>5, <2>6
<1>10. QED  BY <1>8, <1>9

(* A failed attempt gives the held snapshot up, without artwork.           *)
LEMMA RecoverView ==
  ASSUME Rejected = {}, ViewInv, NEW f \in Files, Recover(f)
  PROVE  ArtworkInv(pub', art', running) /\ LyricsInv(pub', art', feed)
<1>1. CASE Superseded(f)
  BY <1>1 DEF Recover, ViewInv
<1>2. CASE ~Superseded(f)
  <2>1. pub' = Release(pub, art, None) /\ art' = Recovered(art, f)
    BY <1>2 DEF Recover
  <2>2. art'.pending = None /\ art'.identity = art.identity
    BY <2>1, RecoveredFields DEF ViewInv, Types, AInv, Attempts
  <2>3. QED  BY <2>1, <2>2, ReleaseView
<1>3. QED  BY <1>1, <1>2

(* What the store's promises settle: a staged file that is not superseded  *)
(* is of the current artwork.                                              *)
LEMMA SettledView ==
  ASSUME Rejected = {}, ViewInv, StoreSettled
  PROVE  ArtworkInv(pub', art', running) /\ LyricsInv(pub', art', feed)
<1> DEFINE f == Head(queue).file
<1>1. AInv /\ Coordinator(art)
  BY DEF ViewInv, Types, AInv, Attempts
<1>2. Head(queue) \in Operations /\ (Head(queue).op # "clear" => f \in Files /\ Known(art, f))
  <2>1. queue \in Seq(Operations) /\ queue # <<>>
    BY <1>1 DEF AInv, Attempts, OncePlaced, StoreSettled, Store!Settled
  <2>2. Head(queue) = queue[1] /\ 1 \in 1..Len(queue) /\ Head(queue) \in Operations
    BY <2>1
  <2>3. QED  BY <1>1, <2>2, OperationFields DEF AInv, Attempts, OncePlaced
<1> HIDE DEF f
<1>3. ASSUME Head(queue).op # "clear", Recover(f)
      PROVE  ArtworkInv(pub', art', running) /\ LyricsInv(pub', art', feed)
  BY <1>2, <1>3, RecoverView
<1>4. ASSUME Head(queue).op = "stage", Staged(f)
      PROVE  ArtworkInv(pub', art', running) /\ LyricsInv(pub', art', feed)
  <2>1. CASE Superseded(f)
    BY <1>4, <2>1 DEF Staged, ViewInv
  <2>2. CASE ~Superseded(f)
    <3>1. pub' = Release(pub, art, f) /\ art' = [art EXCEPT !.pending = None]
      BY <1>4, <2>2 DEF Staged
    <3>2. art'.pending = None /\ art'.identity = art.identity
      BY <1>1, <3>1, HoldingFields
    <3>3. f \in Files /\ art.identity # None /\ f.key = art.identity.key
      BY <1>2, <1>4, <2>2 DEF Superseded, Known
    <3>4. QED  BY <3>1, <3>2, <3>3, ReleaseView
  <2>3. QED  BY <2>1, <2>2
<1>5. ASSUME Committed PROVE ArtworkInv(pub', art', running) /\ LyricsInv(pub', art', feed)
  <2>1. pub' = pub /\ art'.pending = art.pending /\ art'.identity = art.identity
    BY <1>1, <1>5 DEF Committed, Coordinator
  <2>2. QED  BY <2>1 DEF ViewInv, ArtworkInv, LyricsInv, Latest
<1>6. QED  BY <1>3, <1>4, <1>5 DEF StoreSettled, f, ViewInv

(* At first nothing is shown.                                              *)
LEMMA ViewInit == Init => ViewInv
<1> SUFFICES ASSUME Init PROVE ViewInv
  OBVIOUS
<1>1. /\ pub.snapshot.artwork = None /\ pub.snapshot.lyrics = None /\ pub.lyrics = None
      /\ art.identity = None /\ art.pending = None /\ feed = NoFeed
  BY DEF Init, UnavailableState
<1>2. QED  BY <1>1, TypesInit DEF ViewInv, ArtworkInv, LyricsInv, OwnLyrics, NoFeed

(* Every step shows one track, if it showed one.                           *)
LEMMA ViewNext == Rejected = {} /\ ViewInv /\ [Next]_vars => ViewInv'
<1> SUFFICES ASSUME Rejected = {}, ViewInv, [Next]_vars PROVE ViewInv'
  OBVIOUS
<1>1. Types'
  BY TypesNext DEF ViewInv
<1> DEFINE Goal == ArtworkInv(pub', art', running') /\ LyricsInv(pub', art', feed')
<1> SUFFICES Goal
  BY <1>1 DEF ViewInv
<1>2. AInv /\ Coordinator(art) /\ feed \in Feeds /\ conn \in Connections /\ pub \in Publications
  BY DEF ViewInv, Types, ShownTypes, AInv, Attempts
<1>3. ASSUME UNCHANGED <<pub, art, running>>, feed'.tracked = feed.tracked, feed'.accepted = feed.accepted,
             feed'.on = feed.on
      PROVE  Goal
  BY <1>3 DEF ViewInv, ArtworkInv, LyricsInv, Latest
<1>4. ASSUME NEW core \in Cores, NEW configured \in BOOLEAN, NEW lyricFeed \in BOOLEAN, Pair(core, configured, lyricFeed)
      PROVE  Goal
  <2> DEFINE q == FeedStopped(pub)
  <2>1. q \in Publications /\ q.lyrics = None /\ Same(q.snapshot, pub.snapshot) /\ OwnLyrics(q.snapshot)
    BY StoppedView
  <2>2. feed'.tracked = None /\ feed'.accepted = None /\ running' = running
    BY <1>4 DEF Pair, NoFeed
  <2>3. CASE configured
    <3>1. ChangeAvailability(q, "outputUnavailable", conn.name) /\ conn.name \in Names
      BY <1>2, <1>4, <2>3 DEF Pair, Connections
    <3> HIDE DEF q
    <3>2. QED  BY <1>2, <2>1, <2>2, <3>1, ChangeView
  <2>4. CASE ~configured
    <3>1. pub' = q /\ art' = [art EXCEPT !.pending = IF feed.accepted = None THEN @ ELSE PendingWithLyrics(None)]
      BY <1>4, <2>4 DEF Pair
    <3>2. art'.identity = art.identity
      BY <1>2, <3>1 DEF Coordinator
    <3>3. /\ art'.pending = None <=> art.pending = None
          /\ art.pending # None => Same(art'.pending, art.pending) /\ OwnLyrics(art'.pending)
      <4>1. CASE feed.accepted = None
        BY <1>2, <3>1, <4>1 DEF Coordinator, Same, ViewInv, LyricsInv
      <4>2. CASE feed.accepted # None
        <5>1. art'.pending = PendingWithLyrics(None) /\ art.pending \in States \cup {None}
          BY <1>2, <3>1, <4>2 DEF Coordinator, ViewInv, Types, ShownTypes
        <5> DEFINE h == WithLyrics(art.pending, None)
        <5>2. /\ art.pending = None => art'.pending = None
              /\ art.pending # None => h \in States /\ art'.pending = Fit(h) /\ art'.pending # None
          BY <5>1, HeldOutcome
        <5>3. art.pending # None => Same(h, art.pending) /\ h.lyrics = None
          BY <5>1, ShowsMade DEF Same
        <5> HIDE DEF h
        <5>4. art.pending # None => Same(Fit(h), h) /\ Fit(h).lyrics = None
          BY <5>2, <5>3, ShowsMade DEF Shows, Same
        <5>5. QED  BY <5>2, <5>3, <5>4 DEF Same, OwnLyrics
      <4>3. QED  BY <4>1, <4>2
    <3> HIDE DEF q
    <3>4. ArtworkInv(pub', art', running)
      <4>1. Same(pub'.snapshot, pub.snapshot) /\ ArtworkInv(pub, art, running)
        BY <2>1, <3>1 DEF ViewInv
      <4>2. QED  BY <3>2, <3>3, <4>1, SameKeeps
    <3>5. LyricsInv(pub', art', feed')
      BY <2>1, <2>2, <3>1, <3>3 DEF LyricsInv
    <3>6. QED  BY <2>2, <3>4, <3>5
  <2>5. QED  BY <2>3, <2>4
<1>5. ASSUME Unpair PROVE Goal
  <2> DEFINE q == FeedStopped(pub)
  <2>1. q \in Publications /\ q.lyrics = None
    BY StoppedView
  <2>2. ChangeAvailability(q, "disconnected", None) /\ None \in Names
    BY <1>5 DEF Unpair, Names
  <2>3. feed'.tracked = None /\ feed'.accepted = None
    BY <1>5 DEF Unpair, NoFeed
  <2> HIDE DEF q
  <2>4. QED  BY <1>2, <2>1, <2>2, <2>3, ChangeView
<1>6. ASSUME OutputMissing PROVE Goal
  <2> DEFINE q == Reconciled(pub, feed, feed')
  <2>1. feed'.tracked = None /\ feed'.accepted = None /\ feed' \in Feeds
    BY <1>2, <1>6, FeedMade DEF OutputMissing, Track, Accepting, Feeds, ViewInv, LyricsInv
  <2>2. q \in Publications /\ q.lyrics = None
    BY <1>2, <2>1, ReconciledTypes DEF ViewInv, LyricsInv
  <2>3. ChangeAvailability(q, "outputUnavailable", conn.name) /\ conn.name \in Names
    BY <1>2, <1>6 DEF OutputMissing, Connections
  <2> HIDE DEF q
  <2>4. QED  BY <1>2, <2>1, <2>2, <2>3, ChangeView
<1>7. ASSUME NEW z \in Observations, ZoneObserved(z) PROVE Goal
  <2> DEFINE q == Reconciled(pub, feed, feed')
             tracked == Track(feed, TrackedNowPlaying(z))
             Follows(f) ==
               /\ f.tracked # None => f.on /\ f.tracked = TrackedNowPlaying(z)
               /\ f.accepted # None => f.tracked # None /\ f.accepted.track = f.tracked.track
  <2>1. /\ feed' = tracked \/ (\E l \in Timelines \cup {None} : (l # None => Acceptable(tracked, l)) /\ feed' = Accepting(tracked, l))
        /\ Present(q, z) /\ running /\ running' = running
    BY <1>7 DEF ZoneObserved, Input
  <2>2. tracked \in Feeds
    BY <1>2, FeedMade
  <2>3. /\ Follows(tracked)
        /\ tracked.accepted # feed.accepted => tracked.accepted = None
    BY <1>2 DEF Track, Accepting, Feeds, ViewInv, LyricsInv
  <2> HIDE DEF tracked
  <2>4. Follows(feed') /\ feed' \in Feeds
    <3>1. CASE feed' = tracked
      BY <2>2, <2>3, <3>1
    <3>2. ASSUME NEW l \in Timelines \cup {None}, l # None => Acceptable(tracked, l), feed' = Accepting(tracked, l)
          PROVE  Follows(feed') /\ feed' \in Feeds
      <4>1. feed' \in Feeds
        BY <2>2, <3>2, FeedMade
      <4>2. feed'.accepted = l /\ feed'.tracked = tracked.tracked /\ feed'.on = tracked.on
        BY <2>2, <3>2 DEF Accepting, Feeds
      <4>3. QED  BY <2>3, <3>2, <4>1, <4>2 DEF Acceptable
    <3>3. QED  BY <2>1, <3>1, <3>2
  <2>5. /\ q \in Publications /\ q.snapshot = pub.snapshot
        /\ q.lyrics # None => q.lyrics = feed'.accepted
    BY <1>2, <2>4, ReconciledTypes DEF ViewInv, LyricsInv
  <2> HIDE DEF q
  <2>6. QED  BY <2>1, <2>4, <2>5, PresentView
<1>8. ASSUME NEW l \in Timelines \cup {None}, TimelineChanged(l) PROVE Goal
  BY <1>8, LyricsView DEF TimelineChanged
<1>9. ASSUME LyricsVisible PROVE Goal
  BY <1>2, <1>3, <1>9 DEF LyricsVisible, Feeds
<1>10. ASSUME Stop PROVE Goal
  <2> DEFINE q == FeedStopped(pub)
  <2>1. q \in Publications /\ q.lyrics = None /\ Same(q.snapshot, pub.snapshot) /\ OwnLyrics(q.snapshot)
    BY StoppedView
  <2>2. CancelAndClear(q) /\ running' = FALSE /\ feed' = NoFeed
    BY <1>10 DEF Stop
  <2> HIDE DEF q
  <2>3. pub' = q /\ art'.identity = None /\ art'.pending = None
    BY <1>2, <2>2, CancelOutcome
  <2>4. QED  BY <2>1, <2>2, <2>3 DEF ViewInv, ArtworkInv, LyricsInv, Same, NoFeed
<1>11. ASSUME ImageAnswered PROVE Goal
  <2>1. PICK r \in requests : ImageArrived(r) \/ ImageFailed(r)
    BY <1>11 DEF ImageAnswered
  <2>2. r \in Files
    BY <1>2 DEF AInv, Attempts, OncePlaced
  <2>3. CASE ImageArrived(r)
    BY <1>3, <2>3 DEF ImageArrived
  <2>4. CASE ImageFailed(r)
    BY <2>2, <2>4, RecoverView DEF ImageFailed
  <2>5. QED  BY <2>1, <2>3, <2>4
<1>12. ASSUME StorePerform PROVE Goal
  BY <1>3, <1>12 DEF StorePerform
<1>13. ASSUME StoreSettled PROVE Goal
  BY <1>13, SettledView DEF StoreSettled
<1>14. ASSUME RetryFires PROVE Goal
  <2>1. art'.identity = art.identity /\ art'.pending = art.pending
    BY <1>2, <1>14 DEF RetryFires, RequestArtwork, Coordinator
  <2>2. UNCHANGED <<pub, feed, running>>
    BY <1>14 DEF RetryFires
  <2>3. QED  BY <2>1, <2>2 DEF ViewInv, ArtworkInv, LyricsInv, Latest
<1>15. QED
  <2>1. CASE UNCHANGED vars
    BY <1>3, <2>1 DEF vars
  <2>2. CASE Next
    BY <1>4, <1>5, <1>6, <1>7, <1>8, <1>9, <1>10, <1>11, <1>12, <1>13, <1>14, <2>2 DEF Next
  <2>3. QED  BY <2>1, <2>2

(* When no text is refused, artwork, lyrics and metadata shown together    *)
(* are of one track: a late image, a late timeline and a retained file of  *)
(* another track are never shown.                                          *)
THEOREM OneTrackShown == Rejected = {} => (Spec => []ShownOfOneTrack)
<1> SUFFICES ASSUME Rejected = {} PROVE Spec => []ShownOfOneTrack
  OBVIOUS
<1>1. Init => ViewInv
  BY ViewInit
<1>2. ViewInv /\ [Next]_vars => ViewInv'
  BY ViewNext
<1>3. ViewInv => ShownOfOneTrack
  <2> SUFFICES ASSUME ViewInv PROVE ShownOfOneTrack
    OBVIOUS
  <2>1. ArtworkMatchesNowPlaying
    <3>1. art.identity # None => art.identity = [zone |-> art.identity.zone, key |-> art.identity.key]
      BY DEF ViewInv, Types, ShownTypes, Identities
    <3>2. QED  BY <3>1 DEF ViewInv, ArtworkInv, Latest, ArtworkMatchesNowPlaying
  <2>2. LyricsMatchTrack
    BY DEF ViewInv, LyricsInv, OwnLyrics, LyricsMatchTrack
  <2>3. QED  BY <2>1, <2>2 DEF ShownOfOneTrack
<1>4. QED  BY <1>1, <1>2, <1>3, PTL DEF Spec

-----------------------------------------------------------------------------
(* While the Tracked Output is missing nothing is asked for or held, so no *)
(* late answer can replace what viewers are told.                          *)
Missing == running /\ conn.subscribed /\ conn.zone = None

MissingInv ==
  Missing => /\ pub.snapshot = UnavailableState("outputUnavailable", conn.name)
             /\ art.identity = None /\ art.pending = None

(* A missing output is told, and every attempt at artwork is given up.     *)
LEMMA MissingTold ==
  ASSUME Rejected = {}, AInv, NEW q \in Publications, NEW name \in Names,
         ChangeAvailability(q, "outputUnavailable", name)
  PROVE  /\ pub'.snapshot = UnavailableState("outputUnavailable", name)
         /\ art'.identity = None /\ art'.pending = None
<1> DEFINE s == UnavailableState("outputUnavailable", name)
<1>1. s \in States /\ Fit(s) = s
  BY StatesMade DEF UnavailableState, Fit, Oversized
<1>2. CancelAndClear(PublishState(q, s))
  BY DEF ChangeAvailability
<1> HIDE DEF s
<1>3. PublishState(q, s).snapshot = s
  BY <1>1, PublishedMade
<1>4. QED  BY <1>2, <1>3, CancelOutcome DEF s

(* With no artwork identity, every attempt has been superseded.            *)
LEMMA MissingSupersedes ==
  ASSUME AInv, art.identity = None, NEW f, Known(art, f)
  PROVE  Superseded(f)
BY DEF Known, Superseded

(* While the output is missing, nothing but that is shown or awaited.      *)
LEMMA MissingNext == Rejected = {} /\ Types /\ MissingInv /\ [Next]_vars => MissingInv'
<1> SUFFICES ASSUME Rejected = {}, Types, MissingInv, [Next]_vars, Missing' PROVE MissingInv'
  BY DEF MissingInv
<1> DEFINE Goal == /\ pub'.snapshot = UnavailableState("outputUnavailable", conn'.name)
                   /\ art'.identity = None /\ art'.pending = None
<1> SUFFICES Goal
  BY DEF MissingInv
<1>1. AInv /\ Coordinator(art) /\ feed \in Feeds /\ conn \in Connections /\ pub \in Publications
  BY DEF Types, ShownTypes, AInv, Attempts
<1>2. ASSUME UNCHANGED <<conn, running>>
      PROVE  /\ pub.snapshot = UnavailableState("outputUnavailable", conn'.name)
             /\ art.identity = None /\ art.pending = None
  BY <1>2 DEF Missing, MissingInv
<1>3. ASSUME UNCHANGED <<conn, running>>, pub'.snapshot = pub.snapshot,
             art'.identity = art.identity, art'.pending = art.pending
      PROVE  Goal
  BY <1>2, <1>3
<1>4. ASSUME NEW core \in Cores, NEW configured \in BOOLEAN, NEW lyricFeed \in BOOLEAN, Pair(core, configured, lyricFeed)
      PROVE  Goal
  <2>1. conn' = [conn EXCEPT !.core = core, !.subscribed = configured, !.zone = None]
    BY <1>4 DEF Pair
  <2>2. conn'.name = conn.name /\ conn'.subscribed = configured /\ conn.name \in Names
    BY <1>1, <2>1 DEF Connections
  <2>3. ChangeAvailability(FeedStopped(pub), "outputUnavailable", conn.name)
    BY <1>4, <2>2 DEF Pair, Missing
  <2>4. FeedStopped(pub) \in Publications
    BY StoppedTypes DEF Types
  <2>5. QED  BY <1>1, <2>2, <2>3, <2>4, MissingTold
<1>5. ASSUME Unpair PROVE Goal
  BY <1>1, <1>5 DEF Unpair, Connections, Missing
<1>6. ASSUME OutputMissing PROVE Goal
  <2>1. conn'.name = conn.name /\ conn.name \in Names
    BY <1>1, <1>6 DEF OutputMissing, Connections
  <2>2. feed' \in Feeds
    BY <1>1, <1>6, FeedMade DEF OutputMissing
  <2>3. Reconciled(pub, feed, feed') \in Publications
    BY <1>1, <2>2, ReconciledTypes
  <2>4. QED  BY <1>1, <1>6, <2>1, <2>3, MissingTold DEF OutputMissing
<1>7. ASSUME NEW z \in Observations, ZoneObserved(z) PROVE Goal
  <2>1. conn'.zone = z
    BY <1>1, <1>7 DEF ZoneObserved, Connections
  <2>2. QED  BY <2>1, BridgeAssumption DEF Missing
<1>8. ASSUME NEW l \in Timelines \cup {None}, TimelineChanged(l) PROVE Goal
  <2> DEFINE u == WithLyrics(pub.snapshot, l)
  <2>1. UNCHANGED <<conn, running>> /\ pub' = PublishLyrics(pub, l) /\ art'.pending = PendingWithLyrics(l)
        /\ art'.identity = art.identity
    BY <1>1, <1>8 DEF TimelineChanged, Coordinator
  <2>2. u = pub.snapshot /\ Fit(u) = u
    BY <1>2, <2>1 DEF WithLyrics, UnavailableState, Fit, Oversized
  <2> HIDE DEF u
  <2>3. pub'.snapshot = pub.snapshot
    BY <1>1, <1>2, <2>1, <2>2, LyricsOutcome DEF u, Types, ShownTypes
  <2>4. art'.pending = None
    BY <1>2, <2>1 DEF PendingWithLyrics
  <2>5. QED  BY <1>2, <2>1, <2>3, <2>4
<1>9. ASSUME LyricsVisible PROVE Goal
  BY <1>3, <1>9 DEF LyricsVisible
<1>10. ASSUME Stop PROVE Goal
  BY <1>10 DEF Stop, Missing
<1>11. ASSUME ImageAnswered PROVE Goal
  <2>1. PICK r \in requests : ImageArrived(r) \/ ImageFailed(r)
    BY <1>11 DEF ImageAnswered
  <2>2. Known(art, r)
    BY <1>1 DEF AInv, Attempts, OncePlaced
  <2>3. UNCHANGED <<conn, running>>
    BY <2>1 DEF ImageArrived, ImageFailed
  <2>4. UNCHANGED <<pub, art>>
    BY <1>1, <1>2, <2>1, <2>2, <2>3, MissingSupersedes DEF ImageArrived, ImageFailed, Recover
  <2>5. QED  BY <1>3, <2>3, <2>4
<1>12. ASSUME StorePerform PROVE Goal
  BY <1>3, <1>12 DEF StorePerform
<1>13. ASSUME StoreSettled PROVE Goal
  <2> DEFINE f == Head(queue).file
  <2>1. UNCHANGED <<conn, running>>
    BY <1>13 DEF StoreSettled
  <2>2. Head(queue).op # "clear" => Known(art, f)
    <3>1. queue \in Seq(Operations) /\ queue # <<>>
      BY <1>1, <1>13 DEF AInv, Attempts, OncePlaced, StoreSettled, Store!Settled
    <3>2. Head(queue) = queue[1] /\ 1 \in 1..Len(queue)
      BY <3>1
    <3>3. QED  BY <1>1, <3>2 DEF AInv, Attempts, OncePlaced
  <2>3. Head(queue).op # "clear" => Superseded(f)
    BY <1>1, <1>2, <2>1, <2>2, MissingSupersedes
  <2>4. pub' = pub /\ art'.identity = art.identity /\ art'.pending = art.pending
    BY <1>1, <1>13, <2>3 DEF StoreSettled, Recover, Staged, Committed, Coordinator
  <2>5. QED  BY <1>3, <2>1, <2>4
<1>14. ASSUME RetryFires PROVE Goal
  <2>1. art'.identity = art.identity /\ art'.pending = art.pending
    BY <1>1, <1>14 DEF RetryFires, RequestArtwork, Coordinator
  <2>2. UNCHANGED <<conn, running, pub>>
    BY <1>14 DEF RetryFires
  <2>3. QED  BY <1>3, <2>1, <2>2
<1>15. QED
  <2>1. CASE UNCHANGED vars
    BY <1>3, <2>1 DEF vars
  <2>2. CASE Next
    BY <1>4, <1>5, <1>6, <1>7, <1>8, <1>9, <1>10, <1>11, <1>12, <1>13, <1>14, <2>2 DEF Next
  <2>3. QED  BY <2>1, <2>2

(* When no text is refused, viewers are told that the Tracked Output is    *)
(* missing for as long as it is: no late image or timeline of the zone     *)
(* that has gone brings it back.                                           *)
THEOREM MissingOutputTold == Rejected = {} => (Spec => []UnavailableOutputPublished)
<1> SUFFICES ASSUME Rejected = {} PROVE Spec => []UnavailableOutputPublished
  OBVIOUS
<1>1. Init => Types /\ MissingInv
  <2> SUFFICES ASSUME Init PROVE Types /\ MissingInv
    OBVIOUS
  <2>1. conn.subscribed = FALSE
    BY DEF Init
  <2>2. QED  BY <2>1, TypesInit DEF Missing, MissingInv
<1>2. Types /\ MissingInv /\ [Next]_vars => (Types /\ MissingInv)'
  BY TypesNext, MissingNext
<1>3. MissingInv => UnavailableOutputPublished
  BY DEF Missing, MissingInv, UnavailableOutputPublished
<1>4. QED  BY <1>1, <1>2, <1>3, PTL DEF Spec

-----------------------------------------------------------------------------
(* The artwork file.                                                       *)
Shown == pub.snapshot.artwork
At(op, f) == Store!Operation(op, f)
Places == 1..Len(queue)

(* Nothing queued behind the staging of the current image disturbs it.     *)
StagedLast ==
  \A i \in Places : queue[i].op = "stage" /\ ~Superseded(queue[i].file) =>
     /\ \A j \in Places : j > i => queue[j].op = "discard"
     /\ i = 1 /\ progress = "done" => stagedPath = queue[1].file /\ queue[1].file \in disk

(* f is staged, and its commit is the next thing but discards of others.   *)
Committing(f) ==
  /\ stagedPath = f
  /\ \E i \in Places : /\ queue[i] = At("commit", f)
                       /\ i # 1 \/ progress = "waiting"
                       /\ \A j \in Places : j < i => queue[j].op = "discard"

(* Nothing queued removes f before another image is published.             *)
Kept(f) ==
  /\ f \in disk
  /\ \A i \in Places : queue[i].op # "clear" /\ (queue[i].op = "commit" => queue[i].file = f)
  /\ currentPath = f \/ Committing(f)

ShownKept == running /\ Shown # None => Kept(Shown)

(* The current file is that of a request that is over.                     *)
CurrentIsPast ==
  currentPath # None =>
    /\ currentPath.generation <= art.generation /\ currentPath \notin requests
    /\ \A i \in Places : queue[i].op \in {"stage", "discard"} => queue[i].file # currentPath

(* What the queue will remove of the directory.                            *)
Removes(o, g) == \/ o.op = "clear"
                 \/ o.op = "commit" /\ o.file # g
                 \/ o.op = "discard" /\ o.file = g

Doomed(g) == \/ \E i \in Places : (i # 1 \/ progress = "waiting") /\ Removes(queue[i], g)
             \/ queue # <<>> /\ queue[1] = At("stage", g) /\ progress = "done"

Leaving == progress # "failed" /\ \A g \in disk : g # Shown => Doomed(g)

FileInv == /\ ViewInv /\ StagedLast /\ ShownKept /\ CurrentIsPast
           /\ queue = <<>> => progress = "waiting"

-----------------------------------------------------------------------------
(* Sequences: an operation is chained, and the oldest one settles.         *)
LEMMA Chained ==
  ASSUME NEW q \in Seq(Operations), NEW o \in Operations
  PROVE  LET s == q \o <<o>>
         IN /\ s \in Seq(Operations) /\ Len(s) = Len(q) + 1 /\ Len(q) \in Nat /\ s[Len(q) + 1] = o
            /\ \A i \in 1..Len(q) : s[i] = q[i] /\ i \in 1..Len(s)
            /\ \A i \in 1..Len(s) : i \in 1..Len(q) \/ i = Len(q) + 1
            /\ s # <<>>
OBVIOUS

(* The same, by the place of the operation chained.                        *)
LEMMA Lengthened ==
  ASSUME NEW q \in Seq(Operations), NEW o \in Operations
  PROVE  /\ Len(q \o <<o>>) = Len(q) + 1 /\ (q \o <<o>>)[Len(q) + 1] = o
         /\ \A i \in 1..Len(q) : (q \o <<o>>)[i] = q[i] /\ i \in 1..(Len(q) + 1) /\ i < Len(q) + 1
         /\ \A i \in 1..(Len(q) + 1) : i \in 1..Len(q) \/ i = Len(q) + 1
         /\ Len(q) + 1 \in 1..(Len(q) + 1)
OBVIOUS

(* What is left when the oldest operation settles.                         *)
LEMMA Popped ==
  ASSUME NEW q \in Seq(Operations), q # <<>>
  PROVE  LET t == Tail(q)
         IN /\ t \in Seq(Operations) /\ Len(t) = Len(q) - 1 /\ Len(q) \in Nat
            /\ Head(q) = q[1] /\ 1 \in 1..Len(q) /\ q[1] \in Operations
            /\ \A i \in 1..Len(t) : t[i] = q[i + 1] /\ i + 1 \in 1..Len(q) /\ i + 1 # 1
            /\ \A i \in 1..Len(q) : i = 1 \/ (i - 1 \in 1..Len(t) /\ t[i - 1] = q[i])
OBVIOUS

(* Fields of the operations.                                               *)
LEMMA Operating ==
  /\ \A op \in {"stage", "commit", "discard"}, f \in Files :
       At(op, f) \in Operations /\ At(op, f).op = op /\ At(op, f).file = f
  /\ At("clear", None) \in Operations /\ At("clear", None).op = "clear" /\ Clear = <<At("clear", None)>>
  /\ \A o \in Operations : o.op # "clear" => o = At(o.op, o.file) /\ o.file \in Files
BY DEF At, Operations, Store!Operations, Store!Operation, Clear

(* What is known of the queue and of the requests.                         *)
LEMMA Queued ==
  ASSUME FileInv
  PROVE  /\ queue \in Seq(Operations) /\ requests \subseteq Files /\ art.generation \in Nat
         /\ \A i \in Places : queue[i] \in Operations
         /\ \A i \in Places : queue[i].op # "clear" => Known(art, queue[i].file) /\ queue[i].file \notin requests
                                                       /\ queue[i].file \in Files
         /\ \A r \in requests : Known(art, r)
         /\ \A i, j \in Places :
              queue[i].op # "clear" /\ queue[j].op # "clear" /\ queue[i].file = queue[j].file => i = j
         /\ disk \subseteq Files /\ currentPath \in Files \cup {None} /\ stagedPath \in Files \cup {None}
<1>1. AInv /\ DiskTypes
  BY DEF FileInv, ViewInv, Types
<1>2. queue \in Seq(Operations) /\ \A i \in Places : queue[i] \in Operations
  BY <1>1 DEF AInv, Attempts, OncePlaced, Places
<1>3. QED  BY <1>1, <1>2, Operating DEF AInv, Attempts, OncePlaced, Coordinator, Places, DiskTypes

(* Two files of the current request are one.                               *)
LEMMA OneCurrent ==
  ASSUME NEW f \in Files, NEW g \in Files, Known(art, f), Known(art, g), ~Superseded(f), ~Superseded(g)
  PROVE  f = g
BY DEF Files, Known, Superseded

-----------------------------------------------------------------------------
(* Most handlers leave the directory and the shown file alone.             *)
Still == /\ UNCHANGED storeVars /\ Shown' = Shown /\ running' = running
         /\ art'.generation >= art.generation /\ art'.generation \in Nat
         /\ \A r \in requests' : r \in requests \/ r.generation > art.generation

(* They keep what is queued right, for a later generation too.             *)
LEMMA StillKeeps ==
  ASSUME FileInv, ViewInv', Still
  PROVE  FileInv' /\ (Leaving => Leaving')
<1>1. UNCHANGED <<disk, currentPath, stagedPath, queue, progress>> /\ UNCHANGED Places
  BY DEF Still, storeVars, Places
<1>2. \A i \in Places : queue[i].op = "stage" /\ queue[i].file.generation = art'.generation
                         => queue[i].file.generation = art.generation
  BY Queued DEF Still, Known, Files
<1>3. StagedLast'
  BY <1>1, <1>2 DEF StagedLast, FileInv, Places, Superseded
<1>4. ShownKept'
  BY <1>1 DEF Still, ShownKept, FileInv, Kept, Committing, Places
<1>5. CurrentIsPast'
  <2>1. CurrentIsPast /\ (currentPath # None => currentPath.generation \in Nat)
    BY Queued DEF FileInv, Files
  <2>2. art'.generation >= art.generation /\ art'.generation \in Nat /\ art.generation \in Nat
    BY Queued DEF Still
  <2>3. \A r \in requests' : r \in requests \/ r.generation > art.generation
    BY DEF Still
  <2>4. QED  BY <1>1, <2>1, <2>2, <2>3 DEF CurrentIsPast, Places
<1>6. Leaving => Leaving'
  BY <1>1 DEF Still, Leaving, Doomed, Places
<1>7. QED  BY <1>1, <1>3, <1>4, <1>5, <1>6 DEF FileInv

(* A handler that takes the file off the screen clears the directory.      *)
Cleared == /\ queue' = queue \o Clear
           /\ UNCHANGED <<disk, currentPath, stagedPath, progress>> /\ requests' \subseteq requests
           /\ Shown' = None \/ ~running'
           /\ art'.generation >= art.generation /\ art'.generation \in Nat
           /\ \A i \in Places : queue[i].op = "stage" => queue[i].file.generation # art'.generation

(* A clear is queued last, when nothing is shown and nothing current       *)
(* staged.                                                                 *)
LEMMA ClearedKeeps ==
  ASSUME FileInv, ViewInv', Cleared
  PROVE  FileInv' /\ (Leaving => Leaving')
<1> DEFINE n == Len(queue) + 1
           o == At("clear", None)
<1>1. o \in Operations /\ o.op = "clear" /\ queue' = queue \o <<o>>
  BY Operating DEF Cleared
<1> HIDE DEF o
<1>2. /\ queue' \in Seq(Operations) /\ Len(queue') = n /\ n \in Nat /\ queue'[n] = o /\ Len(queue) \in Nat
      /\ \A i \in Places : queue'[i] = queue[i] /\ i \in Places'
      /\ \A i \in Places' : i \in Places \/ i = n
      /\ queue' # <<>> /\ n \in Places'
  BY <1>1, Queued, Chained DEF Places
<1> HIDE DEF n
<1>3. \A i \in Places : queue[i].op = "stage" => queue[i].file.generation # art'.generation
  BY DEF Cleared
<1>4. StagedLast'
  BY <1>1, <1>2, <1>3 DEF StagedLast, Superseded
<1>5. CurrentIsPast'
  <2>1. CurrentIsPast /\ (currentPath # None => currentPath.generation \in Nat)
    BY Queued DEF FileInv, Files
  <2>2. art'.generation >= art.generation /\ art'.generation \in Nat /\ art.generation \in Nat
    BY Queued DEF Cleared
  <2>3. currentPath' = currentPath /\ requests' \subseteq requests
    BY DEF Cleared
  <2>4. \A i \in Places' : queue'[i].op \in {"stage", "discard"} => i \in Places /\ queue'[i] = queue[i]
    BY <1>1, <1>2
  <2>5. QED  BY <2>1, <2>2, <2>3, <2>4 DEF CurrentIsPast
<1>6. Leaving => Leaving'
  <2>1. n # 1 \/ progress = "waiting"
    BY <1>2, Queued DEF n, FileInv
  <2>2. \A g : Doomed(g)'
    BY <1>1, <1>2, <2>1 DEF Doomed, Removes, Cleared
  <2>3. QED  BY <2>2 DEF Leaving, Cleared
<1>7. QED  BY <1>2, <1>4, <1>5, <1>6 DEF FileInv, ShownKept, Cleared

-----------------------------------------------------------------------------
(* Which handler does which                                                *)
LEMMA CancelClears ==
  ASSUME FileInv, NEW i, art' = [ResetArtworkRequest(art) EXCEPT !.identity = i], Store!Call(Clear),
         UNCHANGED requests, Shown' = None \/ ~running'
  PROVE  Cleared
<1>1. art'.generation = art.generation + 1 /\ art.generation \in Nat
  BY ResetFields DEF FileInv, ViewInv, Types, AInv, Attempts, Coordinator
<1>2. \A j \in Places : queue[j].op = "stage" => queue[j].file.generation # art'.generation
  BY <1>1, Queued DEF Known, Files
<1>3. QED  BY <1>1, <1>2 DEF Cleared, Store!Call

(* Beginning a request touches neither.                                    *)
LEMMA BeginStill ==
  ASSUME FileInv, NEW p, NEW i, NEW state, p.snapshot.artwork = Shown, running' = running,
         \/ Begin(p, [art EXCEPT !.identity = i], state)
         \/ Begin(p, art, state)
  PROVE  Still
<1>1. Coordinator(art)
  BY DEF FileInv, ViewInv, Types, AInv, Attempts
<1>2. PICK a : Coordinator(a) /\ a.generation = art.generation /\ Begin(p, a, state)
  <2> DEFINE a == [art EXCEPT !.identity = i]
  <2>1. Coordinator(a) /\ a.generation = art.generation
    BY <1>1 DEF Coordinator
  <2> HIDE DEF a
  <2>2. Begin(p, a, state) \/ Begin(p, art, state)
    BY DEF a
  <2>3. QED  BY <1>1, <2>1, <2>2
<1>3. Coordinator(art') /\ art'.generation > art.generation
  BY <1>2, BeginFields DEF Begin
<1>4. pub' = p /\ requests' = requests \cup {Request(art')} /\ UNCHANGED storeVars
  BY <1>2 DEF Begin, Request
<1>5. Request(art').generation = art'.generation /\ art'.generation \in Nat /\ art.generation \in Nat
  BY <1>1, <1>3 DEF Request, Coordinator
<1>6. QED  BY <1>3, <1>4, <1>5 DEF Still, Shown

(* A change of availability takes the artwork off the screen.              *)
LEMMA ChangeClears ==
  ASSUME Rejected = {}, FileInv, NEW q \in Publications,
         NEW availability \in {"disconnected", "outputUnavailable"}, NEW name \in Names,
         ChangeAvailability(q, availability, name)
  PROVE  Cleared
<1> DEFINE s == UnavailableState(availability, name)
<1>1. s \in States /\ s.artwork = None
  BY StatesMade DEF UnavailableState
<1>2. CancelAndClear(PublishState(q, s))
  BY DEF ChangeAvailability
<1> HIDE DEF s
<1>3. PublishState(q, s).snapshot.artwork = None
  BY <1>1, PublishedShows DEF Same
<1>4. QED  BY <1>2, <1>3, CancelClears DEF CancelAndClear, Shown

(* Refusing, holding and publishing with the same artwork leave it alone.  *)
LEMMA KeptStill ==
  ASSUME FileInv, UNCHANGED <<requests, storeVars>>, Shown' = Shown, running' = running,
         art'.generation = art.generation
  PROVE  Still
BY Queued DEF Still

(* Presenting an observed zone does one or the other.                      *)
LEMMA PresentHandles ==
  ASSUME Rejected = {}, FileInv, NEW p \in Publications, p.snapshot = pub.snapshot,
         NEW z \in Observations, Present(p, z), running' = running
  PROVE  Still \/ Cleared
<1> DEFINE s == Presented(p, z)
           i == Identity(z)
           q == Prepared(p, s)
           kept == [Fit(s) EXCEPT !.artwork = q.snapshot.artwork]
<1>1. s \in States /\ s.artwork = None
  <2>1. AvailableState(z) \in States /\ AvailableState(z).artwork = None /\ p.lyrics \in Timelines \cup {None}
    BY StatesMade DEF Publications, AvailableState
  <2>2. QED  BY <2>1, StatesMade, ShowsMade DEF Presented
<1>2. /\ z.playback = "stopped" => PresentStopped(p, s)
      /\ z.playback # "stopped" =>
           \/ art.identity = i /\ PresentRetained(q, z, Fit(s))
           \/ PresentChanged(q, i, Fit(s))
  BY DEF Present, Presented, Identity, Valid
<1> HIDE DEF s, i
<1>3. q \in Publications /\ q.snapshot = pub.snapshot
  BY <1>1, PreparedMade
<1>4. Fit(s) \in States /\ Fit(s).artwork = None
  BY <1>1, StatesMade, ShowsMade DEF Shows
<1> HIDE DEF q
<1>5. kept \in States /\ kept.artwork = Shown
  <2>1. q.snapshot.artwork \in Files \cup {None}
    BY <1>3 DEF Publications, States
  <2>2. QED  BY <1>3, <1>4, <2>1, StatesMade DEF Shown, States
<1> HIDE DEF kept
<1>6. /\ PublishState(p, s).snapshot.artwork = None
      /\ PublishState(q, Fit(s)).snapshot.artwork = None
      /\ PublishState(q, kept).snapshot.artwork = Shown
  BY <1>1, <1>3, <1>4, <1>5, PublishedShows DEF Same
<1>7. CASE z.playback = "stopped"
  <2> DEFINE u == [s EXCEPT !.artwork = p.snapshot.artwork]
  <2>1. ~(u # p.snapshot /\ PublishState(p, s).revision = p.revision)
    <3>1. s = p.snapshot => u = s
      BY <1>1 DEF States
    <3>2. QED  BY <1>1, <3>1, PublishedMade
  <2>2. CancelAndClear(PublishState(p, s))
    BY <1>2, <1>7, <2>1 DEF PresentStopped
  <2>3. QED  BY <1>6, <2>2, CancelClears DEF CancelAndClear, Shown
<1>8. CASE z.playback # "stopped" /\ art.identity = i /\ PresentRetained(q, z, Fit(s))
  <2>1. CASE art.pending # None
    <3>1. pub' = q /\ art' = [art EXCEPT !.pending = Fit(s)] /\ UNCHANGED <<requests, storeVars>>
      BY <1>8, <2>1 DEF PresentRetained
    <3>2. art'.generation = art.generation
      BY <3>1 DEF FileInv, ViewInv, Types, AInv, Attempts, Coordinator
    <3>3. QED  BY <1>3, <3>1, <3>2, KeptStill DEF Shown
  <2>2. CASE Begin(q, art, Fit(s))
    BY <1>3, <2>2, BeginStill DEF Shown
  <2>3. CASE Publish(PublishState(q, kept))
    BY <1>6, <2>3, KeptStill DEF Publish, Shown
  <2>4. QED  BY <1>8, <2>1, <2>2, <2>3 DEF PresentRetained, kept
<1>9. CASE z.playback # "stopped" /\ PresentChanged(q, i, Fit(s))
  <2>1. CASE i.key = None
    <3>1. /\ pub' = PublishState(q, Fit(s)) /\ art' = [ResetArtworkRequest(art) EXCEPT !.identity = i]
          /\ Store!Call(Clear) /\ UNCHANGED requests
      BY <1>9, <2>1 DEF PresentChanged
    <3>2. QED  BY <1>6, <3>1, CancelClears DEF Shown
  <2>2. CASE i.key # None
    <3>1. Begin(q, [art EXCEPT !.identity = i], Fit(s))
      BY <1>9, <2>2 DEF PresentChanged
    <3>2. QED  BY <1>3, <3>1, BeginStill DEF Shown
  <2>3. QED  BY <2>1, <2>2
<1>10. QED  BY <1>2, <1>7, <1>8, <1>9

(* The file released is the one shown.                                     *)
LEMMA ReleasedShows ==
  ASSUME Rejected = {}, FileInv, NEW f \in Files \cup {None}
  PROVE  Release(pub, art, f).snapshot.artwork = f
<1> DEFINE base == IF art.pending = None THEN pub.snapshot ELSE art.pending
           u == [base EXCEPT !.artwork = f]
<1>1. pub \in Publications /\ art.pending \in States \cup {None}
  BY DEF FileInv, ViewInv, Types, ShownTypes
<1>2. u \in States /\ u.artwork = f /\ Release(pub, art, f) = PublishState(pub, u)
  <2>1. base \in States
    BY <1>1 DEF Publications
  <2>2. QED  BY <2>1, StatesMade DEF Release, States
<1> HIDE DEF u
<1>3. QED  BY <1>1, <1>2, PublishedShows DEF Same

(* A failed download of the current artwork takes the file off the screen. *)
LEMMA FailedHandles ==
  ASSUME Rejected = {}, FileInv, NEW r \in requests, ImageFailed(r)
  PROVE  Still \/ Cleared
<1>1. r \in Files /\ Known(art, r) /\ art.generation \in Nat /\ requests' \subseteq requests /\ running' = running
  BY Queued DEF ImageFailed
<1>2. CASE Superseded(r)
  <2>1. UNCHANGED storeVars /\ UNCHANGED <<pub, art>>
    BY <1>2, Queued DEF ImageFailed, Recover, RecoveryCalls, Store!Call, storeVars
  <2>2. QED  BY <1>1, <2>1 DEF Still, Shown
<1>3. CASE ~Superseded(r)
  <2>1. pub' = Release(pub, art, None) /\ art' = Recovered(art, r) /\ Store!Call(Clear)
    BY <1>3 DEF ImageFailed, Recover, RecoveryCalls
  <2>2. art'.generation = art.generation
    BY <1>1, <2>1, RecoveredFields DEF FileInv, ViewInv, Types, AInv, Attempts
  <2>3. Shown' = None
    BY <2>1, ReleasedShows DEF Shown
  <2>4. \A i \in Places : queue[i].op = "stage" => queue[i].file.generation # art'.generation
    <3> SUFFICES ASSUME NEW i \in Places, queue[i].op = "stage", queue[i].file.generation = art.generation
                 PROVE  FALSE
      BY <2>2
    <3>1. queue[i].file \in Files /\ Known(art, queue[i].file) /\ queue[i].file \notin requests
      BY Queued
    <3>2. queue[i].file = r
      BY <1>1, <1>3, <3>1, OneCurrent DEF Superseded
    <3>3. QED  BY <3>1, <3>2
  <2>5. QED  BY <1>1, <2>1, <2>2, <2>3, <2>4 DEF Cleared, Store!Call
<1>4. QED  BY <1>2, <1>3

(* The Roon and Renderer callbacks, failed downloads and the retry timer.  *)
LEMMA Handles ==
  ASSUME Rejected = {}, FileInv, [Next]_vars
  PROVE  \/ Still \/ Cleared \/ StorePerform \/ StoreSettled
         \/ \E r \in requests : ImageArrived(r)
<1>1. /\ AInv /\ Coordinator(art) /\ feed \in Feeds /\ conn \in Connections /\ pub \in Publications
      /\ art.generation \in Nat /\ art.pending \in States \cup {None}
  BY Queued DEF FileInv, ViewInv, Types, ShownTypes, AInv, Attempts
<1> DEFINE q == FeedStopped(pub)
<1>2. q \in Publications /\ q.snapshot.artwork = Shown
  BY StoppedView DEF FileInv, Same, Shown
<1> HIDE DEF q
<1>3. ASSUME NEW core \in Cores, NEW configured \in BOOLEAN, NEW lyricFeed \in BOOLEAN, Pair(core, configured, lyricFeed)
      PROVE  Still \/ Cleared
  <2>1. running' = running /\ conn.name \in Names
    BY <1>1, <1>3 DEF Pair, Connections
  <2>2. CASE configured
    BY <1>2, <1>3, <2>1, <2>2, ChangeClears DEF Pair, q
  <2>3. CASE ~configured
    <3>1. PICK h : pub' = q /\ art' = [art EXCEPT !.pending = h] /\ UNCHANGED <<requests, storeVars>>
      BY <1>3, <2>3 DEF Pair, q
    <3>2. art'.generation = art.generation
      BY <1>1, <3>1 DEF Coordinator
    <3>3. QED  BY <1>2, <2>1, <3>1, <3>2, KeptStill DEF Shown
  <2>4. QED  BY <2>2, <2>3
<1>4. ASSUME Unpair PROVE Cleared
  BY <1>2, <1>4, ChangeClears DEF Unpair, Names, q
<1>5. ASSUME OutputMissing PROVE Cleared
  <2>1. feed' \in Feeds /\ conn.name \in Names
    BY <1>1, <1>5, FeedMade DEF OutputMissing, Connections
  <2>2. Reconciled(pub, feed, feed') \in Publications
    BY <1>1, <2>1, ReconciledTypes
  <2>3. QED  BY <1>5, <2>1, <2>2, ChangeClears DEF OutputMissing
<1>6. ASSUME NEW z \in Observations, ZoneObserved(z) PROVE Still \/ Cleared
  <2>1. feed' \in Feeds
    BY <1>1, <1>6, FeedMade DEF ZoneObserved
  <2>2. Reconciled(pub, feed, feed') \in Publications /\ Reconciled(pub, feed, feed').snapshot = pub.snapshot
    BY <1>1, <2>1, ReconciledTypes
  <2>3. QED  BY <1>6, <2>2, PresentHandles DEF ZoneObserved
<1>7. ASSUME NEW l \in Timelines \cup {None}, TimelineChanged(l) PROVE Still
  <2> DEFINE u == WithLyrics(pub.snapshot, l)
  <2>1. pub' = PublishLyrics(pub, l) /\ art' = [art EXCEPT !.pending = PendingWithLyrics(l)]
        /\ UNCHANGED <<requests, storeVars>> /\ running' = running
    BY <1>7 DEF TimelineChanged
  <2>2. pub'.snapshot \in {pub.snapshot, u, Fit(u)} /\ u \in States
    BY <1>1, <2>1, LyricsOutcome
  <2>3. u.artwork = Shown
    BY <1>1, ShowsMade DEF Publications, Shown
  <2> HIDE DEF u
  <2>4. Fit(u).artwork = Shown
    BY <2>2, <2>3, ShowsMade DEF Shows
  <2>5. art'.generation = art.generation
    BY <1>1, <2>1 DEF Coordinator
  <2>6. QED  BY <2>1, <2>2, <2>3, <2>4, <2>5, KeptStill DEF Shown
<1>8. ASSUME LyricsVisible PROVE Still
  BY <1>8, KeptStill DEF LyricsVisible, Shown, storeVars
<1>9. ASSUME Stop PROVE Cleared
  BY <1>9, CancelClears DEF Stop, CancelAndClear
<1>10. ASSUME ImageAnswered PROVE Still \/ Cleared \/ \E r \in requests : ImageArrived(r)
  BY <1>10, FailedHandles DEF ImageAnswered
<1>11. ASSUME RetryFires PROVE Still
  <2> DEFINE n == art.generation + 1
             a == [art EXCEPT !.retry = None]
             b == [a EXCEPT !.generation = n]
  <2>1. /\ Coordinator(a) /\ a.generation = art.generation
    BY <1>1 DEF Coordinator
  <2>2. n \in Nat /\ n > art.generation /\ b.generation = n
    BY <1>1 DEF Coordinator
  <2> HIDE DEF n
  <2>3. /\ UNCHANGED <<storeVars, pub, running>>
        /\ \/ art' = b /\ requests' = requests \cup {[generation |-> art'.generation, key |-> art.retry.key]}
           \/ art' = a /\ requests' = requests
    BY <1>11, <2>1 DEF RetryFires, RequestArtwork, n
  <2> HIDE DEF a, b
  <2>4. QED  BY <1>1, <2>1, <2>2, <2>3 DEF Still, Shown
<1>12. ASSUME UNCHANGED vars PROVE Still
  BY <1>12, KeptStill DEF vars, storeVars, Shown
<1>13. QED
  BY <1>3, <1>4, <1>5, <1>6, <1>7, <1>8, <1>9, <1>10, <1>11, <1>12 DEF Next

-----------------------------------------------------------------------------
(* The store                                                               *)
(* An image that arrives for the current request is the last in the queue. *)
LEMMA ArrivedKeeps ==
  ASSUME FileInv, ViewInv', NEW r \in requests, ImageArrived(r)
  PROVE  FileInv' /\ (Leaving => Leaving')
<1>1. r \in Files /\ Known(art, r) /\ requests' \subseteq requests /\ art.generation \in Nat
      /\ UNCHANGED <<pub, art, running>>
  BY Queued DEF ImageArrived
<1>2. CASE Superseded(r)
  <2>1. UNCHANGED storeVars
    BY <1>2, Queued DEF ImageArrived, Store!Call, storeVars
  <2>2. Still
    BY <1>1, <2>1 DEF Still, Shown
  <2>3. QED  BY <2>2, StillKeeps
<1>3. CASE ~Superseded(r)
  <2> DEFINE n == Len(queue) + 1
             o == At("stage", r)
  <2>1. o \in Operations /\ o.op = "stage" /\ o.file = r /\ queue' = queue \o <<o>>
    BY <1>1, <1>3, Operating DEF ImageArrived, Store!Call, At
  <2> HIDE DEF o
  <2>2. /\ queue' \in Seq(Operations) /\ Len(queue') = n /\ n \in Nat /\ queue'[n] = o /\ Len(queue) \in Nat
        /\ \A i \in Places : queue'[i] = queue[i] /\ i \in Places'
        /\ \A i \in Places' : i \in Places \/ i = n
        /\ queue' # <<>> /\ Places \subseteq 1..(n - 1)
    BY <2>1, Queued, Chained DEF Places
  <2>3. UNCHANGED <<disk, currentPath, stagedPath, progress>>
    BY DEF ImageArrived, Store!Call
  <2>4. \A i \in Places : queue[i].op = "stage" => queue[i].file.generation # art.generation
    <3> SUFFICES ASSUME NEW i \in Places, queue[i].op = "stage", queue[i].file.generation = art.generation
                 PROVE  FALSE
      OBVIOUS
    <3>1. queue[i].file \in Files /\ Known(art, queue[i].file) /\ queue[i].file \notin requests
      BY Queued
    <3>2. queue[i].file = r
      BY <1>1, <1>3, <3>1, OneCurrent DEF Superseded
    <3>3. QED  BY <3>1, <3>2
  <2>5. n = 1 => progress = "waiting"
    BY Queued DEF FileInv
  <2>6. \A j \in Places' : ~(j > n)
    BY <2>2 DEF Places
  <2> HIDE DEF n
  <2>7. StagedLast'
    BY <1>1, <2>2, <2>3, <2>4, <2>5, <2>6 DEF StagedLast, Superseded
  <2>8. ShownKept'
    <3>1. \A i \in Places, j \in Places' : j < i => j \in Places
      BY <2>2 DEF n, Places
    <3>2. QED  BY <1>1, <2>1, <2>2, <2>3, <3>1 DEF ShownKept, Shown, FileInv, Kept, Committing
  <2>9. CurrentIsPast'
    BY <1>1, <2>1, <2>2, <2>3 DEF CurrentIsPast, FileInv
  <2>10. Leaving => Leaving'
    <3>1. queue # <<>> => queue'[1] = queue[1]
      BY <2>2, Queued DEF Places
    <3>2. \A g : Doomed(g) => Doomed(g)'
      BY <2>2, <2>3, <3>1 DEF Doomed
    <3>3. QED  BY <1>1, <2>3, <3>2 DEF Leaving, Shown
  <2>11. QED  BY <2>2, <2>7, <2>8, <2>9, <2>10 DEF FileInv
<1>4. QED  BY <1>2, <1>3

(* What each operation does to the directory.                              *)
LEMMA Performed ==
  ASSUME FileInv, StorePerform
  PROVE  LET o == queue[1]
         IN /\ queue # <<>> /\ 1 \in Places /\ progress = "waiting" /\ progress' \in {"done", "failed"}
            /\ ~IOFaults => progress' = "done"
            /\ UNCHANGED <<queue, pub, art, requests, running>>
            /\ \/ /\ o.op = "stage" /\ currentPath' = currentPath
                  /\ progress' = "done" => stagedPath' = o.file /\ o.file \in disk'
                  /\ disk' \subseteq disk \cup {o.file}
                  /\ currentPath \in disk => currentPath \in disk'
               \/ /\ o.op = "commit" /\ currentPath' = o.file /\ (o.file \in disk => o.file \in disk')
                  /\ ~IOFaults => disk' \subseteq {o.file}
                  /\ disk' \subseteq disk
               \/ /\ o.op = "discard" /\ currentPath' = currentPath
                  /\ o.file # stagedPath => stagedPath' = stagedPath
                  /\ disk' \subseteq disk
                  /\ \A g \in disk : g # o.file \/ g = currentPath => g \in disk'
                  /\ ~IOFaults /\ o.file # currentPath => o.file \notin disk'
               \/ /\ o.op = "clear" /\ currentPath' = None /\ (~IOFaults => disk' = {}) /\ disk' \subseteq disk
<1>1. queue # <<>> => 1 \in Places /\ Head(queue) = queue[1]
  BY Queued, Popped DEF Places
<1>2. UNCHANGED <<queue, pub, art, requests, running>>
  BY DEF StorePerform, Store!Perform, Store!PerformStage, Store!PerformCommit, Store!PerformDiscard, Store!PerformClear
<1>3. disk \subseteq Files /\ None \notin Files
  BY Queued, NoneAssumption
<1> USE <1>1, <1>2, <1>3 DEF Store!Running, Store!Remove
<1>4. CASE Store!PerformStage
  BY <1>4 DEF Store!PerformStage
<1>5. CASE Store!PerformCommit
  BY <1>5 DEF Store!PerformCommit
<1>6. CASE Store!PerformDiscard
  BY <1>6 DEF Store!PerformDiscard
<1>7. CASE Store!PerformClear
  BY <1>7 DEF Store!PerformClear
<1>8. QED  BY <1>4, <1>5, <1>6, <1>7 DEF StorePerform, Store!Perform

(* Performing an operation keeps the file shown: no operation queued is    *)
(* about it but its commit.                                                *)
LEMMA PerformKeepsFile ==
  ASSUME FileInv, ViewInv', StorePerform
  PROVE  FileInv'
<1> DEFINE o == queue[1]
<1>1. UNCHANGED <<queue, pub, art, requests, running>> /\ Places' = Places /\ 1 \in Places /\ queue # <<>>
  BY Performed DEF Places
<1>2. StagedLast'
  BY <1>1, Performed DEF StagedLast, FileInv, Superseded
<1>3. ShownKept'
  <2> SUFFICES ASSUME NEW f, f = Shown, running, f # None PROVE Kept(f)'
    BY <1>1 DEF ShownKept, Shown, Kept, Committing
  <2>1. Kept(f)
    BY DEF FileInv, ShownKept
  <2>2. o.op # "clear" /\ (o.op = "commit" => o.file = f)
    BY <1>1, <2>1 DEF Kept
  <2>3. CASE currentPath = f
    <3>1. currentPath' = f /\ f \in disk'
      BY <2>1, <2>2, <2>3, Performed DEF Kept
    <3>2. QED  BY <1>1, <2>1, <3>1 DEF Kept
  <2>4. CASE currentPath # f /\ o.op = "commit"
    <3>1. currentPath' = f /\ f \in disk'
      BY <2>1, <2>2, <2>4, Performed DEF Kept
    <3>2. QED  BY <1>1, <2>1, <3>1 DEF Kept
  <2>5. CASE currentPath # f /\ o.op # "commit"
    <3>1. PICK i \in Places : /\ queue[i] = At("commit", f)
                             /\ \A j \in Places : j < i => queue[j].op = "discard"
      BY <2>1, <2>5 DEF Kept, Committing
    <3>2. f \in Files /\ queue[i].op = "commit" /\ queue[i].file = f
      BY <2>1, <3>1, Queued, Operating DEF Kept
    <3>3. i # 1 /\ 1 < i
      BY <1>1, <2>5, <3>2 DEF Places
    <3>4. o.op = "discard" /\ o.file # f
      BY <1>1, <3>1, <3>2, <3>3, Queued
    <3>5. stagedPath = f
      BY <2>1, <2>5 DEF Kept, Committing
    <3>6. stagedPath' = f /\ f \in disk'
      BY <2>1, <3>4, <3>5, Performed DEF Kept
    <3>7. Committing(f)'
      BY <1>1, <3>1, <3>3, <3>6 DEF Committing
    <3>8. QED  BY <1>1, <2>1, <3>6, <3>7 DEF Kept
  <2>6. QED  BY <2>3, <2>4, <2>5
<1>4. CurrentIsPast'
  <2>1. CASE o.op = "commit"
    <3>1. o.file \in Files /\ Known(art, o.file) /\ o.file \notin requests /\ currentPath' = o.file
      BY <1>1, <2>1, Queued, Performed
    <3>2. \A i \in Places : queue[i].op \in {"stage", "discard"} => queue[i].file # o.file
      BY <1>1, <2>1, Queued
    <3>3. QED  BY <1>1, <3>1, <3>2 DEF CurrentIsPast, Known
  <2>2. CASE o.op # "commit"
    <3>1. currentPath' \in {currentPath, None}
      BY <2>2, Performed
    <3>2. QED  BY <1>1, <3>1 DEF CurrentIsPast, FileInv
  <2>3. QED  BY <2>1, <2>2
<1>5. QED  BY <1>1, <1>2, <1>3, <1>4 DEF FileInv

(* What an operation removes is not left to others.                        *)
LEMMA PerformLeaves ==
  ASSUME ~IOFaults, FileInv, Leaving, StorePerform
  PROVE  Leaving'
<1> DEFINE o == queue[1]
<1>1. UNCHANGED <<queue, pub>> /\ Places' = Places /\ 1 \in Places /\ queue # <<>>
      /\ progress = "waiting" /\ progress' = "done"
  BY Performed DEF Places
<1>2. o \in Operations /\ o.op \in {"stage", "commit", "discard", "clear"}
  BY <1>1, Queued, Performed
<1> SUFFICES ASSUME NEW g \in disk', g # Shown PROVE Doomed(g)'
  BY <1>1 DEF Leaving, Shown
<1>3. CASE o.op = "stage" /\ g = o.file
  BY <1>1, <1>2, <1>3, Operating DEF Doomed
<1>4. CASE ~(o.op = "stage" /\ g = o.file)
  <2>1. g \in disk
    BY <1>4, Performed
  <2>2. PICK i \in Places : Removes(queue[i], g)
    BY <1>1, <2>1 DEF Leaving, Doomed
  <2>3. ~Removes(o, g)
    <3>1. o.op = "discard" => o.file # currentPath \/ currentPath = None
      BY <1>1 DEF FileInv, CurrentIsPast
    <3>2. o.op = "discard" => o.file \in Files
      BY <1>2, Operating
    <3>3. o.op = "discard" => o.file # currentPath
      BY <3>1, <3>2, NoneAssumption
    <3>4. QED  BY <1>2, <3>3, Performed DEF Removes
  <2>4. QED  BY <1>1, <2>2, <2>3 DEF Doomed
<1>5. QED  BY <1>3, <1>4

(* What the oldest operation's caller does when it resumes.                *)
LEMMA Resumed ==
  ASSUME Rejected = {}, FileInv, StoreSettled
  PROVE  LET t == Tail(queue)
             h == queue[1]
         IN /\ queue # <<>> /\ progress \in {"done", "failed"} /\ progress' = "waiting"
            /\ UNCHANGED <<disk, currentPath, stagedPath, requests, running>>
            /\ art'.generation = art.generation
            /\ \/ /\ queue' = t /\ Shown' = Shown /\ ~(h.op = "stage" /\ progress = "done")
               \/ /\ queue' = t \o <<At("discard", h.file)>> /\ Shown' = Shown
                  /\ h.op = "stage" /\ progress = "done" /\ Superseded(h.file)
               \/ /\ queue' = t \o <<At("commit", h.file)>> /\ Shown' = h.file
                  /\ h.op = "stage" /\ progress = "done" /\ ~Superseded(h.file)
               \/ /\ queue' = t \o <<At("clear", None)>> /\ Shown' = None
                  /\ h.op # "clear" /\ progress = "failed" /\ ~Superseded(h.file)
<1> DEFINE t == Tail(queue)
           h == queue[1]
<1>1. queue # <<>> /\ progress \in {"done", "failed"} /\ progress' = "waiting"
  BY DEF StoreSettled, Store!Settled, Store!Settle, Staged, Committed, FileInv, ViewInv, Types, DiskTypes
<1>2. t \in Seq(Operations) /\ h = Head(queue) /\ t \o <<>> = t /\ h \in Operations
  BY <1>1, Queued, Popped, Chaining
<1>3. h.op # "clear" => h.file \in Files
  BY <1>2, Operating
<1>4. UNCHANGED <<disk, currentPath, stagedPath, requests, running>>
  BY DEF StoreSettled, Store!Settle, Staged, Committed
<1>5. Coordinator(art)
  BY DEF FileInv, ViewInv, Types, AInv, Attempts
<1> HIDE DEF t, h
<1>6. CASE h.op # "clear" /\ progress = "failed" /\ Recover(h.file) /\ Store!Settle(RecoveryCalls(h.file))
  <2>1. CASE Superseded(h.file)
    BY <1>1, <1>2, <1>4, <1>6, <2>1 DEF Recover, RecoveryCalls, Store!Settle, Shown, t, h
  <2>2. CASE ~Superseded(h.file)
    <3>1. pub' = Release(pub, art, None) /\ art' = Recovered(art, h.file) /\ queue' = t \o <<At("clear", None)>>
      BY <1>6, <2>2, Operating DEF Recover, RecoveryCalls, Store!Settle, t
    <3>2. Shown' = None
      BY <3>1, ReleasedShows DEF Shown
    <3>3. art'.generation = art.generation
      BY <1>3, <1>5, <1>6, <3>1, RecoveredFields
    <3>4. QED  BY <1>1, <1>4, <1>6, <2>2, <3>1, <3>2, <3>3 DEF t, h
  <2>3. QED  BY <2>1, <2>2
<1>7. CASE h.op = "stage" /\ progress = "done" /\ Staged(h.file)
  <2>1. CASE Superseded(h.file)
    BY <1>1, <1>4, <1>7, <2>1 DEF Staged, Store!Settle, Shown, At, t, h
  <2>2. CASE ~Superseded(h.file)
    <3>1. /\ pub' = Release(pub, art, h.file) /\ art' = [art EXCEPT !.pending = None]
          /\ queue' = t \o <<At("commit", h.file)>>
      BY <1>7, <2>2 DEF Staged, Store!Settle, At, t
    <3>2. Shown' = h.file
      BY <1>3, <1>7, <3>1, ReleasedShows DEF Shown
    <3>3. art'.generation = art.generation
      BY <1>5, <3>1 DEF Coordinator
    <3>4. QED  BY <1>1, <1>4, <1>7, <2>2, <3>1, <3>2, <3>3 DEF t, h
  <2>3. QED  BY <2>1, <2>2
<1>8. CASE h.op = "commit" /\ progress = "done" /\ Committed
  <2>1. art'.generation = art.generation
    BY <1>5, <1>8 DEF Committed, Coordinator
  <2>2. QED  BY <1>1, <1>2, <1>4, <1>8, <2>1 DEF Committed, Store!Settle, Shown, t, h
<1>9. CASE h.op \in {"clear", "discard"} /\ Store!Settle(<<>>) /\ UNCHANGED <<pub, art>>
  BY <1>1, <1>2, <1>4, <1>9 DEF Store!Settle, Shown, t, h
<1>10. QED  BY <1>2, <1>6, <1>7, <1>8, <1>9 DEF StoreSettled

(* What was true of the queue is true of what is left of it.               *)
LEMMA Remaining ==
  ASSUME FileInv, queue # <<>>, progress # "waiting", NEW t, t = Tail(queue), NEW h, h = queue[1]
  PROVE  /\ \A i, j \in 1..Len(t) : t[i].op = "stage" /\ t[i].file.generation = art.generation /\ j > i
                                    => t[j].op = "discard"
         /\ \A i \in 1..Len(t) : t[i].op \in {"stage", "discard"} => t[i].file # currentPath
         /\ h.op # "clear" /\ ~Superseded(h.file) =>
              \A i \in 1..Len(t) : t[i].op = "stage" => t[i].file.generation # art.generation
         /\ h.op = "stage" /\ ~Superseded(h.file) => \A i \in 1..Len(t) : t[i].op = "discard"
         /\ running /\ Shown # None =>
              /\ Shown \in disk
              /\ \A i \in 1..Len(t) : t[i].op # "clear" /\ (t[i].op = "commit" => t[i].file = Shown)
              /\ \/ currentPath = Shown
                 \/ /\ stagedPath = Shown
                    /\ \E i \in 1..Len(t) : /\ t[i] = At("commit", Shown)
                                            /\ \A j \in 1..Len(t) : j < i => t[j].op = "discard"
<1>1. /\ t \in Seq(Operations) /\ Len(t) = Len(queue) - 1 /\ Len(queue) \in Nat /\ Len(t) \in Nat /\ 1 \in Places
      /\ \A i \in 1..Len(t) : t[i] = queue[i + 1] /\ i + 1 \in Places /\ i + 1 # 1
      /\ \A i \in Places : i = 1 \/ (i - 1 \in 1..Len(t) /\ t[i - 1] = queue[i])
  BY Queued, Popped DEF Places
<1>3. ASSUME NEW i \in 1..Len(t), t[i].op = "stage", t[i].file.generation = art.generation,
             NEW j \in 1..Len(t), j > i
      PROVE  t[j].op = "discard"
  <2>1. i + 1 \in Places /\ j + 1 \in Places /\ t[i] = queue[i + 1] /\ t[j] = queue[j + 1]
    BY <1>1
  <2>2. j + 1 > i + 1
    BY <1>3
  <2>3. QED  BY <1>3, <2>1, <2>2 DEF FileInv, StagedLast, Superseded
<1>4. \A i \in 1..Len(t) : t[i].op \in {"stage", "discard"} => t[i].file # currentPath
  <2>1. \A i \in Places : queue[i].op \in {"stage", "discard"} => queue[i].file \in Files
    BY Queued
  <2>2. QED  BY <1>1, <2>1, NoneAssumption DEF FileInv, CurrentIsPast
<1>5. ASSUME h.op # "clear", ~Superseded(h.file), NEW i \in 1..Len(t), t[i].op = "stage"
      PROVE  t[i].file.generation # art.generation
  <2>1. h.file \in Files /\ Known(art, h.file) /\ t[i].file \in Files /\ Known(art, t[i].file)
    BY <1>1, <1>5, Queued
  <2>2. t[i].file # h.file
    BY <1>1, <1>5, Queued
  <2>3. QED  BY <1>5, <2>1, <2>2, OneCurrent DEF Superseded
<1>6. ASSUME h.op = "stage", ~Superseded(h.file), NEW i \in 1..Len(t) PROVE t[i].op = "discard"
  <2>1. i + 1 > 1
    OBVIOUS
  <2>2. QED  BY <1>1, <1>6, <2>1 DEF FileInv, StagedLast
<1>7. ASSUME NEW f, f = Shown, running, f # None
      PROVE  /\ f \in disk
             /\ \A i \in 1..Len(t) : t[i].op # "clear" /\ (t[i].op = "commit" => t[i].file = f)
             /\ \/ currentPath = f
                \/ /\ stagedPath = f
                   /\ \E i \in 1..Len(t) : /\ t[i] = At("commit", f)
                                           /\ \A j \in 1..Len(t) : j < i => t[j].op = "discard"
  <2>1. Kept(f)
    BY <1>7 DEF FileInv, ShownKept
  <2>2. CASE Committing(f)
    <3>1. PICK i \in Places : /\ queue[i] = At("commit", f) /\ i # 1
                             /\ \A j \in Places : j < i => queue[j].op = "discard"
      BY <2>2 DEF Committing
    <3>2. i - 1 \in 1..Len(t) /\ t[i - 1] = At("commit", f) /\ i \in Nat
      BY <1>1, <3>1 DEF Places
    <3>3. \A j \in 1..Len(t) : j < i - 1 => t[j].op = "discard"
      BY <1>1, <3>1, <3>2
    <3>4. \E k \in 1..Len(t) : /\ t[k] = At("commit", f)
                              /\ \A j \in 1..Len(t) : j < k => t[j].op = "discard"
      BY <3>2, <3>3
    <3>5. stagedPath = f
      BY <2>2 DEF Committing
    <3>6. f \in disk /\ \A k \in 1..Len(t) : t[k].op # "clear" /\ (t[k].op = "commit" => t[k].file = f)
      BY <1>1, <2>1 DEF Kept
    <3>7. QED  BY <3>4, <3>5, <3>6
  <2>3. CASE currentPath = f
    BY <1>1, <2>1, <2>3 DEF Kept
  <2>4. QED  BY <2>1, <2>2, <2>3 DEF Kept
<1>8. QED  BY <1>3, <1>4, <1>5, <1>6, <1>7

(* What an operation chains when it settles keeps the file, and removes    *)
(* what it leaves.                                                         *)
LEMMA SettledKeepsFile ==
  ASSUME Rejected = {}, FileInv, ViewInv', StoreSettled
  PROVE  FileInv' /\ (Leaving => Leaving')
<1> SUFFICES ASSUME NEW t, t = Tail(queue), NEW h, h = queue[1]
             PROVE  FileInv' /\ (Leaving => Leaving')
  OBVIOUS
<1> DEFINE n == Len(t) + 1
           After(o) == t \o <<o>>
<1>1. /\ queue # <<>> /\ progress # "waiting" /\ progress' = "waiting"
      /\ UNCHANGED <<disk, currentPath, stagedPath, requests, running>> /\ art'.generation = art.generation
      /\ h.op = "stage" => progress \in {"done", "failed"}
  BY Resumed
<1>2. /\ t \in Seq(Operations) /\ Len(t) = Len(queue) - 1 /\ Len(t) \in Nat /\ n \in Nat /\ h \in Operations /\ 1 \in Places
      /\ \A i \in Places : i = 1 \/ (i - 1 \in 1..Len(t) /\ t[i - 1] = queue[i])
  BY <1>1, Queued, Popped DEF Places
<1>3. \/ queue' = t /\ Shown' = Shown /\ ~(h.op = "stage" /\ progress = "done")
      \/ /\ queue' = After(At("discard", h.file)) /\ Shown' = Shown
         /\ h.op = "stage" /\ progress = "done" /\ Superseded(h.file)
      \/ /\ queue' = After(At("commit", h.file)) /\ Shown' = h.file
         /\ h.op = "stage" /\ progress = "done" /\ ~Superseded(h.file)
      \/ /\ queue' = After(At("clear", None)) /\ Shown' = None
         /\ h.op # "clear" /\ progress = "failed" /\ ~Superseded(h.file)
  BY Resumed
(* What is left of the queue.                                              *)
<1>4. \A i, j \in 1..Len(t) : t[i].op = "stage" /\ t[i].file.generation = art.generation /\ j > i => t[j].op = "discard"
  BY <1>1, Remaining
<1>5. \A i \in 1..Len(t) : t[i].op \in {"stage", "discard"} => t[i].file # currentPath
  BY <1>1, Remaining
<1>6. h.op # "clear" /\ ~Superseded(h.file) =>
        \A i \in 1..Len(t) : t[i].op = "stage" => t[i].file.generation # art.generation
  BY <1>1, Remaining
<1>7. h.op = "stage" /\ ~Superseded(h.file) => \A i \in 1..Len(t) : t[i].op = "discard"
  BY <1>1, Remaining
<1>8. running /\ Shown # None =>
        /\ Shown \in disk
        /\ \A i \in 1..Len(t) : t[i].op # "clear" /\ (t[i].op = "commit" => t[i].file = Shown)
        /\ \/ currentPath = Shown
           \/ /\ stagedPath = Shown
              /\ \E i \in 1..Len(t) : /\ t[i] = At("commit", Shown)
                                      /\ \A j \in 1..Len(t) : j < i => t[j].op = "discard"
  BY <1>1, Remaining
<1>9. \A o \in Operations :
        /\ Len(After(o)) = n /\ After(o)[n] = o
        /\ \A i \in 1..Len(t) : After(o)[i] = t[i] /\ i \in 1..n /\ i < n
        /\ \A i \in 1..n : i \in 1..Len(t) \/ i = n
        /\ n \in 1..n
  <2>1. t \in Seq(Operations)
    BY <1>2
  <2>2. QED  BY <2>1, Lengthened
<1>10. h.op # "clear" => h.file \in Files
  BY <1>2, Operating
(* What the invariants ask of the queue left.                              *)
<1>11. (\A i, j \in 1..Len(queue') : queue'[i].op = "stage" /\ queue'[i].file.generation = art.generation /\ j > i
                                      => queue'[j].op = "discard") => StagedLast'
  BY <1>1 DEF StagedLast, Superseded, Places
<1>12. (\A i \in 1..Len(queue') : queue'[i].op \in {"stage", "discard"} => queue'[i].file # currentPath) => CurrentIsPast'
  BY <1>1 DEF CurrentIsPast, FileInv, Places
<1>13. ASSUME NEW f, f = Shown', running => f \in disk,
              \A i \in 1..Len(queue') : queue'[i].op # "clear" /\ (queue'[i].op = "commit" => queue'[i].file = f),
              \/ currentPath = f
              \/ /\ stagedPath = f
                 /\ \E i \in 1..Len(queue') : /\ queue'[i] = At("commit", f)
                                              /\ \A j \in 1..Len(queue') : j < i => queue'[j].op = "discard"
       PROVE  ShownKept'
  BY <1>1, <1>13 DEF ShownKept, Kept, Committing, Places, At
<1>14. ASSUME Leaving,
              \A g \in disk : g # Shown' => \E i \in 1..Len(queue') : Removes(queue'[i], g)
       PROVE  Leaving'
  BY <1>1, <1>14 DEF Leaving, Doomed, Places, Removes
<1>15. ASSUME NEW g \in disk, Leaving, g # Shown, ~(h.op = "stage" /\ h.file = g)
       PROVE  \E i \in 1..Len(t) : Removes(t[i], g)
  <2>1. h # At("stage", g)
    BY <1>15, Queued, Operating
  <2>2. PICK i \in Places : i # 1 /\ Removes(queue[i], g)
    BY <1>1, <1>15, <2>1 DEF Leaving, Doomed
  <2>3. QED  BY <1>2, <2>2
<1>16. h.op = "stage" /\ progress = "done" /\ ~Superseded(h.file) => stagedPath = h.file /\ h.file \in disk
  BY <1>2 DEF FileInv, StagedLast
<1>17. h.op = "stage" => h.file # currentPath \/ currentPath = None
  BY <1>2 DEF FileInv, CurrentIsPast
<1>18. queue' = <<>> => progress' = "waiting"
  BY <1>1
<1> HIDE DEF n, After
<1>19. CASE queue' = t /\ Shown' = Shown /\ ~(h.op = "stage" /\ progress = "done")
  <2>1. StagedLast'
    BY <1>4, <1>11, <1>19
  <2>2. CurrentIsPast'
    BY <1>5, <1>12, <1>19
  <2>3. ShownKept'
    <3>1. CASE running /\ Shown # None
      BY <1>8, <1>13, <1>19, <3>1
    <3>2. CASE ~(running /\ Shown # None)
      BY <1>1, <1>19, <3>2 DEF ShownKept
    <3>3. QED  BY <3>1, <3>2
  <2>4. ASSUME Leaving PROVE Leaving'
    <3>1. h.op # "stage"
      BY <1>1, <1>19, <2>4 DEF Leaving
    <3>2. QED  BY <1>14, <1>15, <1>19, <2>4, <3>1
  <2>5. QED  BY <1>18, <2>1, <2>2, <2>3, <2>4 DEF FileInv
<1>20. CASE /\ queue' = After(At("discard", h.file)) /\ Shown' = Shown
            /\ h.op = "stage" /\ progress = "done" /\ Superseded(h.file)
  <2>1. PICK o \in Operations : o = At("discard", h.file) /\ o.op = "discard" /\ o.file = h.file
    BY <1>10, <1>20, Operating
  <2>2. /\ Len(queue') = n /\ queue'[n] = o /\ n \in 1..n
        /\ \A i \in 1..Len(t) : queue'[i] = t[i] /\ i \in 1..n /\ i < n
        /\ \A i \in 1..n : i \in 1..Len(t) \/ i = n
    BY <1>9, <1>20, <2>1
  <2>3. StagedLast'
    <3>1. ASSUME NEW i \in 1..n, NEW j \in 1..n, queue'[i].op = "stage",
                 queue'[i].file.generation = art.generation, j > i
          PROVE  queue'[j].op = "discard"
      <4>1. i \in 1..Len(t) /\ queue'[i] = t[i]
        BY <2>1, <2>2, <3>1
      <4>2. CASE j \in 1..Len(t)
        BY <1>4, <2>2, <3>1, <4>1, <4>2
      <4>3. QED  BY <2>1, <2>2, <4>2
    <3>2. QED  BY <1>11, <2>2, <3>1
  <2>4. CurrentIsPast'
    <3>1. CASE currentPath = None
      BY <1>1, <3>1 DEF CurrentIsPast
    <3>2. CASE currentPath # None
      BY <1>5, <1>12, <1>17, <1>20, <2>1, <2>2, <3>2
    <3>3. QED  BY <3>1, <3>2
  <2>5. ShownKept'
    <3>1. CASE running /\ Shown # None
      <4>1. \A i \in 1..Len(t), j \in 1..n : j < i => j \in 1..Len(t)
        BY <1>2, <2>2 DEF n
      <4>2. \A i \in 1..Len(queue') : queue'[i].op # "clear" /\ (queue'[i].op = "commit" => queue'[i].file = Shown)
        BY <1>8, <2>1, <2>2, <3>1
      <4>3. \/ currentPath = Shown
            \/ /\ stagedPath = Shown
               /\ \E i \in 1..Len(queue') : /\ queue'[i] = At("commit", Shown)
                                            /\ \A j \in 1..Len(queue') : j < i => queue'[j].op = "discard"
        <5>1. CASE currentPath = Shown
          BY <5>1
        <5>2. CASE currentPath # Shown
          <6>1. PICK i \in 1..Len(t) : t[i] = At("commit", Shown) /\ \A j \in 1..Len(t) : j < i => t[j].op = "discard"
            BY <1>8, <3>1, <5>2
          <6>2. i \in 1..n /\ queue'[i] = At("commit", Shown)
            BY <2>2, <6>1
          <6>3. \A j \in 1..n : j < i => queue'[j].op = "discard"
            BY <2>2, <4>1, <6>1
          <6>4. QED  BY <1>8, <2>2, <3>1, <5>2, <6>2, <6>3
        <5>3. QED  BY <5>1, <5>2
      <4>4. QED  BY <1>8, <1>13, <1>20, <3>1, <4>2, <4>3
    <3>2. CASE ~(running /\ Shown # None)
      BY <1>1, <1>20, <3>2 DEF ShownKept
    <3>3. QED  BY <3>1, <3>2
  <2>6. ASSUME Leaving PROVE Leaving'
    <3>1. ASSUME NEW g \in disk, g # Shown' PROVE \E i \in 1..Len(queue') : Removes(queue'[i], g)
      <4>1. CASE h.file = g
        BY <2>1, <2>2, <4>1 DEF Removes
      <4>2. CASE h.file # g
        <5>1. PICK i \in 1..Len(t) : Removes(t[i], g)
          BY <1>15, <1>20, <2>6, <3>1, <4>2
        <5>2. QED  BY <2>2, <5>1
      <4>3. QED  BY <4>1, <4>2
    <3>2. QED  BY <1>14, <2>6, <3>1
  <2>7. QED  BY <1>18, <2>3, <2>4, <2>5, <2>6 DEF FileInv
<1>21. CASE /\ queue' = After(At("commit", h.file)) /\ Shown' = h.file
            /\ h.op = "stage" /\ progress = "done" /\ ~Superseded(h.file)
  <2>1. PICK o \in Operations : o = At("commit", h.file) /\ o.op = "commit" /\ o.file = h.file
    BY <1>10, <1>21, Operating
  <2>2. /\ Len(queue') = n /\ queue'[n] = o /\ n \in 1..n
        /\ \A i \in 1..Len(t) : queue'[i] = t[i] /\ i \in 1..n /\ i < n
        /\ \A i \in 1..n : i \in 1..Len(t) \/ i = n
    BY <1>9, <1>21, <2>1
  <2>3. \A i \in 1..Len(t) : t[i].op = "discard"
    BY <1>7, <1>21
  <2>4. StagedLast'
    BY <1>11, <2>1, <2>2, <2>3
  <2>5. CurrentIsPast'
    BY <1>5, <1>12, <2>1, <2>2
  <2>6. ShownKept'
    <3>1. \A i \in 1..Len(queue') : queue'[i].op # "clear" /\ (queue'[i].op = "commit" => queue'[i].file = h.file)
      BY <2>1, <2>2, <2>3
    <3>2. \A j \in 1..Len(queue') : j < n => queue'[j].op = "discard"
      BY <2>2, <2>3
    <3>3. \E i \in 1..Len(queue') : /\ queue'[i] = At("commit", h.file)
                                    /\ \A j \in 1..Len(queue') : j < i => queue'[j].op = "discard"
      BY <2>1, <2>2, <3>2
    <3>4. QED  BY <1>13, <1>16, <1>21, <3>1, <3>3
  <2>7. ASSUME Leaving PROVE Leaving'
    BY <1>14, <1>21, <2>1, <2>2, <2>7 DEF Removes
  <2>8. QED  BY <1>18, <2>4, <2>5, <2>6, <2>7 DEF FileInv
<1>22. CASE /\ queue' = After(At("clear", None)) /\ Shown' = None
            /\ h.op # "clear" /\ progress = "failed" /\ ~Superseded(h.file)
  <2>1. PICK o \in Operations : o = At("clear", None) /\ o.op = "clear"
    BY Operating
  <2>2. /\ Len(queue') = n /\ queue'[n] = o
        /\ \A i \in 1..Len(t) : queue'[i] = t[i]
        /\ \A i \in 1..n : i \in 1..Len(t) \/ i = n
    BY <1>9, <1>22, <2>1
  <2>3. StagedLast'
    BY <1>6, <1>11, <1>22, <2>1, <2>2
  <2>4. CurrentIsPast'
    BY <1>5, <1>12, <2>1, <2>2
  <2>5. ShownKept' /\ ~Leaving
    BY <1>22 DEF ShownKept, Leaving
  <2>6. QED  BY <1>18, <2>3, <2>4, <2>5 DEF FileInv
<1>23. QED  BY <1>3, <1>19, <1>20, <1>21, <1>22

-----------------------------------------------------------------------------
(* At first there is no file.                                              *)
LEMMA FileInit == Init => FileInv /\ Leaving
<1> SUFFICES ASSUME Init PROVE FileInv /\ Leaving
  OBVIOUS
<1>1. /\ queue = <<>> /\ disk = {} /\ currentPath = None /\ progress = "waiting"
  BY DEF Init, Store!StoreInit
<1>2. Shown = None
  BY DEF Init, UnavailableState, Shown
<1>3. QED  BY <1>1, <1>2, ViewInit DEF FileInv, StagedLast, ShownKept, CurrentIsPast, Leaving, Places

(* A step keeps the file shown, and without faults also what will remove   *)
(* the others.                                                             *)
LEMMA FileNext ==
  ASSUME Rejected = {}
  PROVE  /\ FileInv /\ [Next]_vars => FileInv'
         /\ ~IOFaults /\ FileInv /\ Leaving /\ [Next]_vars => Leaving'
<1> SUFFICES ASSUME FileInv, [Next]_vars PROVE FileInv' /\ (~IOFaults /\ Leaving => Leaving')
  OBVIOUS
<1>1. ViewInv'
  BY ViewNext DEF FileInv
<1>2. CASE Still
  BY <1>1, <1>2, StillKeeps
<1>3. CASE Cleared
  BY <1>1, <1>3, ClearedKeeps
<1>4. CASE StorePerform
  BY <1>1, <1>4, PerformKeepsFile, PerformLeaves
<1>5. CASE StoreSettled
  BY <1>1, <1>5, SettledKeepsFile
<1>6. CASE \E r \in requests : ImageArrived(r)
  BY <1>1, <1>6, ArrivedKeeps
<1>7. QED  BY <1>2, <1>3, <1>4, <1>5, <1>6, Handles

(* When no text is refused, the artwork file that the current snapshot     *)
(* names exists for as long as the Bridge runs, even when file operations  *)
(* fail and whatever of them is queued.                                    *)
THEOREM ArtworkStays == Rejected = {} => (Spec => []PublishedArtworkExists)
<1> SUFFICES ASSUME Rejected = {} PROVE Spec => []PublishedArtworkExists
  OBVIOUS
<1>1. Init => FileInv
  BY FileInit
<1>2. FileInv /\ [Next]_vars => FileInv'
  BY FileNext
<1>3. FileInv => PublishedArtworkExists
  BY DEF FileInv, ShownKept, Kept, Shown, PublishedArtworkExists
<1>4. QED  BY <1>1, <1>2, <1>3, PTL DEF Spec

(* When no text is refused, superseded and cancelled images are removed:   *)
(* once the queue is empty, only the file shown is left.                   *)
THEOREM NothingLeaked == Rejected = {} => (Spec => []NoArtworkLeak)
<1> SUFFICES ASSUME Rejected = {} PROVE Spec => []NoArtworkLeak
  OBVIOUS
<1>1. CASE IOFaults
  <2>1. NoArtworkLeak
    BY <1>1 DEF NoArtworkLeak
  <2>2. QED  BY <2>1, PTL
<1>2. CASE ~IOFaults
  <2>1. Init => FileInv /\ Leaving
    BY FileInit
  <2>2. FileInv /\ Leaving /\ [Next]_vars => (FileInv /\ Leaving)'
    BY <1>2, FileNext
  <2>3. FileInv /\ Leaving => NoArtworkLeak
    <3> SUFFICES ASSUME FileInv, Leaving, queue = <<>> PROVE disk \subseteq {Shown}
      BY DEF NoArtworkLeak, Shown
    <3>1. \A g : ~Doomed(g)
      BY DEF Doomed, Places
    <3>2. QED  BY <3>1 DEF Leaving
  <2>4. QED  BY <2>1, <2>2, <2>3, PTL DEF Spec
<1>3. QED  BY <1>1, <1>2, BridgeAssumption
=============================================================================
