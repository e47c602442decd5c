------------------- MODULE PresentationPreparation_proofs -------------------
(***************************************************************************)
(* What the worker prepares with the help of its caches is what it would    *)
(* prepare without them, and what did not change stays where it is: for any *)
(* presentations, artwork, displays, scales and limits of the caches.       *)
(*                                                                          *)
(* The argument: whatever the caches hold is faithful to their scale - its  *)
(* texts were prepared at that scale for its viewport, of a presentation    *)
(* with the same content key; its image is that of the artwork it still     *)
(* names; its gradient is the one of its palette.  Two presentations with   *)
(* one content key have one content, since the metadata region does not     *)
(* depend on timing, and no other timing is prepared than whether there is  *)
(* an activity.                                                             *)
(***************************************************************************)
EXTENDS PresentationPreparation, NaturalsInduction, WellFoundedInduction, SequenceTheorems, TLAPS

-----------------------------------------------------------------------------
(* Caches                                                                  *)

(* The greatest of some indexes of a cache is one of them.                 *)
LEMMA GreatestIndex ==
  ASSUME NEW n \in Nat, NEW S, S \subseteq 1..n, S # {}
  PROVE  Max(S) \in S
<1> DEFINE R == OpToRel(<, Nat)
           Q == {n - k : k \in S}
<1>1. IsWellFoundedOn(R, Nat)
  BY NatLessThanWellFounded
<1>2. Q \subseteq Nat /\ Q # {}
  <2>1. \A k \in S : n - k \in Nat
    OBVIOUS
  <2>2. QED  BY <2>1
<1>3. PICK m \in Q : \A x \in Q : ~(<<x, m>> \in R)
  BY <1>1, <1>2, WFMin
<1>4. \A x \in Q : ~(x < m)
  BY <1>2, <1>3 DEF OpToRel
<1>5. PICK i \in S : m = n - i
  OBVIOUS
<1>6. \A j \in S : ~(n - j < n - i)
  BY <1>4, <1>5
<1>7. \E k \in S : \A j \in S : k >= j
  BY <1>5, <1>6
<1>8. QED  BY <1>7 DEF Max

(* What is appended comes last.                                            *)
LEMMA AppendedLast ==
  ASSUME NEW S, NEW s \in Seq(S), NEW e \in S
  PROVE  /\ Append(s, e) \in Seq(S) /\ Len(Append(s, e)) = Len(s) + 1
         /\ Append(s, e) # <<>> /\ Last(Append(s, e)) = e
<1>1. Append(s, e) \in Seq(S) /\ Len(Append(s, e)) = Len(s) + 1 /\ Append(s, e)[Len(s) + 1] = e
  OBVIOUS
<1>2. Len(<<>>) # Len(s) + 1
  OBVIOUS
<1>3. Last(Append(s, e)) = e
  BY <1>1 DEF Last
<1>. QED BY <1>1, <1>2, <1>3

(* A full cache loses what it has held longest; the entry comes last.      *)
LEMMA PushedBounded ==
  ASSUME NEW S, NEW cache \in Seq(S), NEW limit \in Nat \ {0}, Len(cache) <= limit, NEW entry \in S
  PROVE  /\ Pushed(cache, limit, entry) \in Seq(S)
         /\ Len(Pushed(cache, limit, entry)) <= limit
         /\ Pushed(cache, limit, entry) # <<>>
         /\ Last(Pushed(cache, limit, entry)) = entry
         /\ IsInjective(cache) /\ (\A i \in DOMAIN cache : cache[i] # entry)
              => IsInjective(Pushed(cache, limit, entry))
<1> DEFINE kept == IF Len(cache) >= limit THEN Tail(cache) ELSE cache
<1>1. /\ kept \in Seq(S) /\ Len(kept) < limit
      /\ \A i \in DOMAIN kept : \E j \in DOMAIN cache : kept[i] = cache[j]
      /\ IsInjective(cache) => IsInjective(kept)
  BY DEF IsInjective
<1>2. Pushed(cache, limit, entry) = Append(kept, entry)
  BY DEF Pushed
<1> HIDE DEF kept
<1>3. /\ Append(kept, entry) \in Seq(S) /\ Len(Append(kept, entry)) = Len(kept) + 1
      /\ Append(kept, entry) # <<>> /\ Last(Append(kept, entry)) = entry
  BY <1>1, AppendedLast
<1>4. ASSUME IsInjective(cache), \A i \in DOMAIN cache : cache[i] # entry
      PROVE  IsInjective(Append(kept, entry))
  BY <1>1, <1>4 DEF IsInjective
<1>. QED BY <1>1, <1>2, <1>3, <1>4

(* What is used again comes last, and nothing else comes or goes.           *)
LEMMA UsedAgainBounded ==
  ASSUME NEW S, NEW cache \in Seq(S), NEW i \in DOMAIN cache, IsInjective(cache)
  PROVE  /\ UsedAgain(cache, i) \in Seq(S)
         /\ Len(UsedAgain(cache, i)) = Len(cache)
         /\ Last(UsedAgain(cache, i)) = cache[i]
         /\ IsInjective(UsedAgain(cache, i))
<1> DEFINE rest == RemoveAt(cache, i)
<1>1. /\ rest \in Seq(S) /\ Len(rest) = Len(cache) - 1
      /\ \A j \in 1..Len(cache) - 1 : rest[j] = IF j < i THEN cache[j] ELSE cache[j + 1]
  <2> DEFINE before == SubSeq(cache, 1, i - 1)
             after == SubSeq(cache, i + 1, Len(cache))
  <2>1. /\ before \in Seq(S) /\ Len(before) = i - 1
        /\ \A j \in 1..i - 1 : before[j] = cache[j]
    OBVIOUS
  <2>2. /\ after \in Seq(S) /\ Len(after) = Len(cache) - i
        /\ \A j \in 1..Len(cache) - i : after[j] = cache[i + j]
    OBVIOUS
  <2>3. rest = before \o after
    BY DEF RemoveAt
  <2> HIDE DEF before, after, rest
  <2>. QED BY <2>1, <2>2, <2>3
<1>2. UsedAgain(cache, i) = Append(rest, cache[i])
  BY DEF UsedAgain
<1> HIDE DEF rest
<1>3. /\ Append(rest, cache[i]) \in Seq(S) /\ Len(Append(rest, cache[i])) = Len(rest) + 1
      /\ Last(Append(rest, cache[i])) = cache[i]
  BY <1>1, AppendedLast
<1>4. \A j \in 1..Len(cache) : Append(rest, cache[i])[j] = IF j < i THEN cache[j] ELSE IF j = Len(cache) THEN cache[i] ELSE cache[j + 1]
  BY <1>1
<1>5. \A a, b \in 1..Len(cache) : cache[a] = cache[b] => a = b
  BY DEF IsInjective
<1>6. IsInjective(Append(rest, cache[i]))
  BY <1>1, <1>3, <1>4, <1>5 DEF IsInjective
<1>. QED BY <1>1, <1>2, <1>3, <1>6

-----------------------------------------------------------------------------
(* What the texts are prepared from                                        *)

(* The record of a Now Playing presentation.                                *)
Shaped(p) ==
  p = [kind |-> "now_playing", metadata |-> p.metadata, art |-> p.art, lyrics |-> p.lyrics,
       timing |-> p.timing, status |-> p.status, names |-> p.names]

(* Whatever artwork fails to decode, what is prepared is a Now Playing or a *)
(* Full-field presentation.                                                *)
LEMMA ResolvedShape ==
  ASSUME NEW p \in Resolutions
  PROVE  p.kind = "full_field" \/ (p.kind = "now_playing" /\ Shaped(p))
<1>1. ASSUME NEW q \in Presentations
      PROVE  q.kind = "full_field" \/ (q.kind = "now_playing" /\ Shaped(q))
  BY PresentationAssumption DEF Shaped
<1>2. ASSUME NEW q \in Presentations, p = Resolved(q, <<>>)
      PROVE  p.kind = "full_field" \/ (p.kind = "now_playing" /\ Shaped(p))
  <2>1. CASE q.kind = "full_field"
    BY <1>2, <2>1 DEF Resolved
  <2>2. CASE q.kind # "full_field" /\ Present(q.metadata) = {}
    BY <1>2, <2>2 DEF Resolved, Trackless
  <2>3. CASE q.kind # "full_field" /\ Present(q.metadata) # {}
    <3>1. p = [q EXCEPT !.art = "none"]
      BY <1>2, <2>3 DEF Resolved
    <3>2. q.kind = "now_playing" /\ Shaped(q)
      BY <1>1, <2>3
    <3>. QED BY <3>1, <3>2 DEF Shaped
  <2>. QED BY <2>1, <2>2, <2>3
<1>. QED BY <1>1, <1>2 DEF Resolutions

(* The footer reserves its height whatever stands in it.                   *)
LEMMA RegionOfViewport ==
  ASSUME NEW v, NEW timing, NEW other, NEW height
  PROVE  /\ MetadataRegion(v, timing) = MetadataRegion(v, other)
         /\ HeightBudget(v, timing) = HeightBudget(v, other)
         /\ MetadataGroupOffset(v, timing, height) = MetadataGroupOffset(v, other, height)
<1>1. MetadataRegion(v, timing) = MetadataRegion(v, other)
  BY DEF MetadataRegion, FooterHeight
<1>. QED BY <1>1 DEF HeightBudget, MetadataGroupOffset

(* What is computed once for each presentation and viewport.                *)
LEMMA ContentOfPresentation ==
  ASSUME NEW p \in Resolutions, NEW v \in Viewports
  PROVE  Content(p, v) = IF p.kind = "full_field" THEN FullFieldContent(p, v)
                         ELSE NowPlayingContent(p, v, GroupPlanOf(p.metadata, v))
<1> DEFINE Made(q, w) == IF q.kind = "full_field" THEN FullFieldContent(q, w)
                         ELSE NowPlayingContent(q, w, GroupPlanOf(q.metadata, w))
           found == CHOOSE prepared \in Contents : prepared.presentation = p /\ prepared.viewport = v
<1>1. Contents = {[presentation |-> key[1], viewport |-> key[2], content |-> Made(key[1], key[2])]
                    : key \in Resolutions \X Viewports}
  BY DEF Contents
<1>2. Content(p, v) = found.content
  BY DEF Content
<1> HIDE DEF Made
<1>3. [presentation |-> p, viewport |-> v, content |-> Made(p, v)] \in Contents
  <2>1. <<p, v>> \in Resolutions \X Viewports
    OBVIOUS
  <2>. QED BY <1>1, <2>1
<1>4. found \in Contents /\ found.presentation = p /\ found.viewport = v
  <2>1. \E prepared \in Contents : prepared.presentation = p /\ prepared.viewport = v
    BY <1>3
  <2>. QED BY <2>1
<1> HIDE DEF found
<1>5. PICK key \in Resolutions \X Viewports :
        found = [presentation |-> key[1], viewport |-> key[2], content |-> Made(key[1], key[2])]
  BY <1>1, <1>4
<1>6. key[1] = p /\ key[2] = v
  BY <1>4, <1>5
<1>7. found.content = Made(p, v)
  BY <1>5, <1>6
<1>. QED BY <1>2, <1>7 DEF Made

(* The key of what is playing leaves out its artwork, its status and all   *)
(* of its timing but whether that is an activity.                          *)
LEMMA PlayingKey ==
  ASSUME NEW r, Shaped(r), r.kind # "full_field"
  PROVE  ContentKey(r) = [kind |-> "now_playing", metadata |-> r.metadata, art |-> "none", lyrics |-> r.lyrics,
                          timing |-> IF r.timing = "activity" THEN r.timing ELSE "none",
                          status |-> "PLAYING", names |-> r.names]
<1>1. PICK a : a = [r EXCEPT !.art = "none"]
  OBVIOUS
<1>2. PICK b : b = [a EXCEPT !.status = "PLAYING"]
  OBVIOUS
<1>3. ContentKey(r) = [b EXCEPT !.timing = IF b.timing = "activity" THEN b.timing ELSE "none"]
  BY <1>1, <1>2, Zenon DEF ContentKey
<1>4. a = [kind |-> "now_playing", metadata |-> r.metadata, art |-> "none", lyrics |-> r.lyrics,
           timing |-> r.timing, status |-> r.status, names |-> r.names]
  BY <1>1 DEF Shaped
<1>5. b = [kind |-> "now_playing", metadata |-> r.metadata, art |-> "none", lyrics |-> r.lyrics,
           timing |-> r.timing, status |-> "PLAYING", names |-> r.names]
  BY <1>4, <1>2
<1>. QED BY <1>3, <1>5

(* The content key says all that contents are prepared from.               *)
LEMMA KeySaysContent ==
  ASSUME NEW p \in Resolutions, NEW q \in Resolutions, NEW v \in Viewports, ContentKey(p) = ContentKey(q)
  PROVE  Content(p, v) = Content(q, v)
<1>1. CASE p.kind = "full_field" /\ q.kind = "full_field"
  BY <1>1 DEF ContentKey
<1>2. CASE p.kind # "full_field" /\ q.kind # "full_field"
  <2> DEFINE Timing(r) == IF r.timing = "activity" THEN r.timing ELSE "none"
             Key(r) == [kind |-> "now_playing", metadata |-> r.metadata, art |-> "none", lyrics |-> r.lyrics,
                        timing |-> Timing(r), status |-> "PLAYING", names |-> r.names]
  <2>1. Shaped(p) /\ Shaped(q)
    BY <1>2, ResolvedShape
  <2>2. ContentKey(p) = Key(p) /\ ContentKey(q) = Key(q)
    BY <1>2, <2>1, PlayingKey
  <2>3. Key(p) = Key(q)
    BY <1>2, <2>1, <2>2
  <2>4. /\ p.metadata = q.metadata /\ p.lyrics = q.lyrics /\ p.names = q.names
        /\ p.timing = "activity" <=> q.timing = "activity"
    BY <2>3
  <2>5. PICK plan : plan = GroupPlanOf(p.metadata, v)
    OBVIOUS
  <2>6. /\ MetadataRegion(v, p.timing) = MetadataRegion(v, q.timing)
        /\ HeightBudget(v, p.timing) = HeightBudget(v, q.timing)
        /\ MetadataGroupOffset(v, p.timing, plan.height) = MetadataGroupOffset(v, q.timing, plan.height)
    BY RegionOfViewport
  <2>7. NowPlayingContent(p, v, plan) = NowPlayingContent(q, v, plan)
    BY <2>4, <2>6 DEF NowPlayingContent
  <2>. QED BY <1>2, <2>4, <2>5, <2>7, ContentOfPresentation
<1>3. CASE p.kind = "full_field" /\ q.kind # "full_field"
  <2>1. ContentKey(p) = p
    BY <1>3 DEF ContentKey
  <2>2. Shaped(q)
    BY <1>3, ResolvedShape
  <2>3. ContentKey(q).kind = "now_playing"
    BY <1>3, <2>2, PlayingKey
  <2>. QED BY <1>3, <2>1, <2>3
<1>4. CASE p.kind # "full_field" /\ q.kind = "full_field"
  <2>1. ContentKey(q) = q
    BY <1>4 DEF ContentKey
  <2>2. Shaped(p)
    BY <1>4, ResolvedShape
  <2>3. ContentKey(p).kind = "now_playing"
    BY <1>4, <2>2, PlayingKey
  <2>. QED BY <1>4, <2>1, <2>3
<1>. QED BY <1>1, <1>2, <1>3, <1>4

-----------------------------------------------------------------------------
(* The invariant of the caches                                             *)

Arts == {p.art : p \in {q \in Presentations : q.kind # "full_field"}} \ {"none"}
Palettes == Arts \cup {"fallback"}
Decodable == {Images[art] : art \in Arts} \cup {<<>>}
Gradients == {[palette |-> key[1], width |-> key[2].width * key[3], height |-> key[2].height * key[3]]
                : key \in Palettes \X Viewports \X Scales}
Prepareds == [presentation: Resolutions, palette: Palettes, image: Decodable, viewport: Viewports, view: Views,
              gradient: Gradients \cup {<<>>},
              content: [presentation: Resolutions, viewport: Viewports, scale: Scales]]

(* What the caches of a scale may give back: texts prepared at this scale   *)
(* for this viewport of a presentation with the same key, the image of the *)
(* artwork the presentation still names, and the gradient of its palette.  *)
Faithful(density) ==
  {prepared \in Prepareds :
     /\ prepared.viewport = ContentViewport(prepared.view)
     /\ prepared.content.viewport = prepared.viewport
     /\ prepared.content.scale = density
     /\ ContentKey(prepared.content.presentation) = ContentKey(prepared.presentation)
     /\ ImageOfItsArtwork(prepared)
     /\ GradientOfItsPalette(prepared)}

CachesInv ==
  /\ scale \in Scales \cup {1}
  /\ recent \in Seq(Faithful(scale)) /\ Len(recent) <= RecentLimit
  /\ gradients \in Seq(Gradients) /\ Len(gradients) <= GradientLimit /\ IsInjective(gradients)
  /\ arriving = <<>> \/ (arriving.art \in DOMAIN Images /\ arriving.image \in Decoded(arriving.art))

(* Caches that are faithful have their type.                                *)
LEMMA CachesType == CachesInv => TypeOK
<1>1. ASSUME CachesInv, NEW i \in DOMAIN recent
      PROVE  /\ recent[i].presentation \in Resolutions /\ recent[i].viewport \in Viewports
             /\ recent[i].content.presentation \in Resolutions
  <2>1. recent[i] \in Faithful(scale)
    BY <1>1 DEF CachesInv
  <2>2. recent[i] \in Prepareds
    BY <2>1 DEF Faithful
  <2>. QED BY <2>2 DEF Prepareds
<1>. QED BY <1>1 DEF CachesInv, TypeOK

(* Reused texts are those of the presentation they are reused for.          *)
LEMMA FaithfulIsFresh ==
  ASSUME NEW density, NEW prepared \in Faithful(density)
  PROVE  /\ ContentIsFresh(prepared)
         /\ ContentOf(prepared) = Content(prepared.presentation, prepared.viewport)
<1>1. /\ prepared.presentation \in Resolutions /\ prepared.viewport \in Viewports
      /\ prepared.content.presentation \in Resolutions
  BY DEF Faithful, Prepareds
<1>2. /\ prepared.content.viewport = prepared.viewport
      /\ ContentKey(prepared.content.presentation) = ContentKey(prepared.presentation)
  BY DEF Faithful
<1>3. Content(prepared.content.presentation, prepared.viewport) = Content(prepared.presentation, prepared.viewport)
  BY <1>1, <1>2, KeySaysContent
<1>. QED BY <1>2, <1>3 DEF ContentIsFresh, ContentOf

(* An image that is reused or comes ahead is one its artwork decodes to.   *)
LEMMA ImageDecoded ==
  ASSUME NEW density, NEW cache \in Seq(Faithful(density)), NEW arrived,
         arrived = <<>> \/ arrived.image \in Decoded(arrived.art),
         NEW p \in Presentations, NEW image \in ImagesOf(p, cache, arrived)
  PROVE  IF ArtworkKey(p) = "none" THEN image = <<>> ELSE p.kind # "full_field" /\ image \in Decoded(p.art)
<1>1. CASE ArtworkKey(p) = "none"
  BY <1>1 DEF ImagesOf
<1>2. CASE ArtworkKey(p) # "none"
  <2> DEFINE suitable == {i \in DOMAIN cache : ArtworkKey(cache[i].presentation) = p.art}
             previous == IF suitable = {} THEN <<>> ELSE cache[Max(suitable)]
  <2>1. p.kind # "full_field" /\ ArtworkKey(p) = p.art
    BY <1>2 DEF ArtworkKey
  <2>2. ImagesOf(p, cache, arrived) =
          IF previous # <<>> THEN {previous.image}
          ELSE IF arrived # <<>> /\ arrived.art = p.art THEN {arrived.image}
          ELSE Decoded(p.art)
    BY <1>2 DEF ImagesOf, NewestOf
  <2>3. CASE suitable # {}
    <3>1. Max(suitable) \in suitable
      <4>1. Len(cache) \in Nat /\ suitable \subseteq 1..Len(cache)
        OBVIOUS
      <4>. QED BY <2>3, <4>1, GreatestIndex
    <3>2. PICK i \in DOMAIN cache : previous = cache[i] /\ ArtworkKey(cache[i].presentation) = p.art
      BY <2>3, <3>1
    <3>3. cache[i] \in Faithful(density)
      OBVIOUS
    <3>4. ImageOfItsArtwork(cache[i])
      BY <3>3 DEF Faithful
    <3>5. cache[i].image = Images[p.art]
      BY <3>2, <3>4, <1>2, <2>1 DEF ImageOfItsArtwork
    <3>6. previous # <<>> => image = Images[p.art]
      BY <2>2, <3>2, <3>5
    <3>7. previous = <<>> => image \in Decoded(p.art)
      BY <2>2 DEF Decoded
    <3>. QED BY <1>2, <2>1, <3>6, <3>7 DEF Decoded
  <2>4. CASE suitable = {}
    <3>1. previous = <<>>
      BY <2>4
    <3>. QED BY <1>2, <2>1, <2>2, <3>1
  <2>. QED BY <2>3, <2>4
<1>. QED BY <1>1, <1>2

(* A presentation keeps its artwork exactly if that has an image.           *)
LEMMA ResolvedFields ==
  ASSUME NEW p \in Presentations, NEW image,
         IF ArtworkKey(p) = "none" THEN image = <<>> ELSE p.kind # "full_field" /\ image \in Decoded(p.art)
  PROVE  /\ Resolved(p, image) \in Resolutions
         /\ image \in Decodable
         /\ (IF image = <<>> THEN "fallback" ELSE p.art) \in Palettes
         /\ LET art == ArtworkKey(Resolved(p, image))
            IN IF art = "none" THEN image = <<>> ELSE art = p.art /\ image = Images[art] /\ image # <<>>
<1>1. CASE image = <<>>
  <2>1. Resolved(p, image) \in Resolutions
    BY <1>1 DEF Resolutions
  <2>2. ArtworkKey(Resolved(p, image)) = "none"
    <3>1. CASE p.kind = "full_field"
      BY <3>1 DEF Resolved, ArtworkKey
    <3>2. CASE p.kind # "full_field" /\ Present(p.metadata) = {}
      BY <1>1, <3>2 DEF Resolved, ArtworkKey, Trackless
    <3>3. CASE p.kind # "full_field" /\ Present(p.metadata) # {}
      <4>1. Resolved(p, image) = [p EXCEPT !.art = "none"]
        BY <1>1, <3>3 DEF Resolved
      <4>2. Shaped(p)
        BY <3>3, ResolvedShape DEF Resolutions
      <4>. QED BY <4>1, <4>2 DEF ArtworkKey, Shaped
    <3>. QED BY <3>1, <3>2, <3>3
  <2>. QED BY <1>1, <2>1, <2>2 DEF Decodable, Palettes
<1>2. CASE image # <<>>
  <2>1. p.kind # "full_field" /\ ArtworkKey(p) = p.art /\ p.art # "none" /\ image = Images[p.art]
    BY <1>2 DEF ArtworkKey, Decoded
  <2>2. Resolved(p, image) = p
    BY <1>2 DEF Resolved
  <2>3. p.art \in Arts
    BY <2>1 DEF Arts
  <2>. QED BY <1>2, <2>1, <2>2, <2>3 DEF Decodable, Palettes, Resolutions
<1>. QED BY <1>1, <1>2

(* The gradient that is asked for is the one used last.                    *)
LEMMA GradientFound ==
  ASSUME NEW cache \in Seq(Gradients), Len(cache) <= GradientLimit, IsInjective(cache), NEW gradient \in Gradients
  PROVE  /\ LookedUp(cache, gradient) \in Seq(Gradients) /\ Len(LookedUp(cache, gradient)) <= GradientLimit
         /\ IsInjective(LookedUp(cache, gradient)) /\ Last(LookedUp(cache, gradient)) = gradient
<1>1. CASE gradient \in ToSet(cache)
  <2>1. PICK i \in DOMAIN cache : i = (CHOOSE j \in DOMAIN cache : cache[j] = gradient) /\ cache[i] = gradient
    BY <1>1 DEF ToSet
  <2>2. LookedUp(cache, gradient) = UsedAgain(cache, i)
    BY <1>1, <2>1 DEF LookedUp
  <2>. QED BY <2>1, <2>2, UsedAgainBounded
<1>2. CASE gradient \notin ToSet(cache)
  <2>1. LookedUp(cache, gradient) = Pushed(cache, GradientLimit, gradient)
    BY <1>2 DEF LookedUp
  <2>2. \A i \in DOMAIN cache : cache[i] # gradient
    BY <1>2 DEF ToSet
  <2>. QED BY <2>1, <2>2, PushedBounded, LimitAssumption
<1>. QED BY <1>1, <1>2

(* Artwork that comes ahead of its presentation (prepare_arriving_artwork).  *)
LEMMA ArriveKeepsCaches ==
  ASSUME CachesInv, NEW art \in DOMAIN Images, Arrive(art)
  PROVE  CachesInv' /\ recent' = recent
<1>1. PICK image \in Decoded(art) : arriving' = [art |-> art, image |-> image]
  BY DEF Arrive
<1>2. UNCHANGED <<scale, recent, gradients>>
  BY DEF Arrive
<1>3. arriving'.art \in DOMAIN Images /\ arriving'.image \in Decoded(arriving'.art)
  BY <1>1
<1>. QED BY <1>2, <1>3 DEF CachesInv

(* A preparation, in the caches of its scale or in new ones (prepare).       *)
LEMMA PrepareKeepsCaches ==
  ASSUME CachesInv, NEW p \in Presentations, NEW view \in Views, NEW density \in Scales, Prepare(p, view, density)
  PROVE  CachesInv' /\ recent' # <<>> /\ Last(recent') \in Faithful(scale')
<1> DEFINE kept == density = scale
           v == ContentViewport(view)
<1>1. PICK cache : cache = IF kept THEN recent ELSE <<>>
  OBVIOUS
<1>2. PICK used : used = IF kept THEN gradients ELSE <<>>
  OBVIOUS
<1>3. PICK arrived : arrived = IF kept THEN arriving ELSE <<>>
  OBVIOUS
<1>4. /\ cache \in Seq(Faithful(density)) /\ Len(cache) <= RecentLimit
      /\ used \in Seq(Gradients) /\ Len(used) <= GradientLimit /\ IsInjective(used)
      /\ arrived = <<>> \/ (arrived.art \in DOMAIN Images /\ arrived.image \in Decoded(arrived.art))
  BY <1>1, <1>2, <1>3, LimitAssumption DEF CachesInv, IsInjective
<1>5. PICK image \in ImagesOf(p, cache, arrived) :
        LET resolved == Resolved(p, image)
            palette == IF image = <<>> THEN "fallback" ELSE p.art
            looked == IF resolved.kind = "full_field" THEN used
                      ELSE LookedUp(used, [palette |-> palette, width |-> v.width * density, height |-> v.height * density])
            previous == NewestOf(cache, LAMBDA prepared : /\ prepared.viewport = v
                                                          /\ ContentKey(prepared.presentation) = ContentKey(resolved))
        IN /\ scale' = density
           /\ arriving' = arrived
           /\ gradients' = looked
           /\ recent' = Pushed(cache, RecentLimit,
                [presentation |-> resolved, palette |-> palette, image |-> image, viewport |-> v, view |-> view,
                 gradient |-> IF resolved.kind = "full_field" THEN <<>> ELSE Last(looked),
                 content |-> IF previous # <<>> THEN previous.content
                             ELSE [presentation |-> resolved, viewport |-> v, scale |-> density]])
  BY <1>1, <1>2, <1>3 DEF Prepare
<1> DEFINE suitable(resolved) == {i \in DOMAIN cache : /\ cache[i].viewport = v
                                                       /\ ContentKey(cache[i].presentation) = ContentKey(resolved)}
<1>6. PICK resolved : resolved = Resolved(p, image)
  OBVIOUS
<1>7. PICK palette : palette = IF image = <<>> THEN "fallback" ELSE p.art
  OBVIOUS
<1>8. PICK looked : looked = IF resolved.kind = "full_field" THEN used
                      ELSE LookedUp(used, [palette |-> palette, width |-> v.width * density, height |-> v.height * density])
  OBVIOUS
<1>9. PICK previous : previous = IF suitable(resolved) = {} THEN <<>> ELSE cache[Max(suitable(resolved))]
  OBVIOUS
<1>10. PICK content : content = IF previous # <<>> THEN previous.content
                                ELSE [presentation |-> resolved, viewport |-> v, scale |-> density]
  OBVIOUS
<1>11. PICK gradient : gradient = IF resolved.kind = "full_field" THEN <<>> ELSE Last(looked)
  OBVIOUS
<1>12. PICK entry : entry = [presentation |-> resolved, palette |-> palette, image |-> image, viewport |-> v,
                             view |-> view, gradient |-> gradient, content |-> content]
  OBVIOUS
<1>13. /\ scale' = density /\ arriving' = arrived /\ gradients' = looked
       /\ recent' = Pushed(cache, RecentLimit, entry)
  BY <1>5, <1>6, <1>7, <1>8, <1>9, <1>10, <1>11, <1>12 DEF NewestOf
<1>14. v \in Viewports
  BY DEF Viewports
<1>15. IF ArtworkKey(p) = "none" THEN image = <<>> ELSE p.kind # "full_field" /\ image \in Decoded(p.art)
  BY <1>4, ImageDecoded
<1>16. /\ resolved \in Resolutions /\ image \in Decodable /\ palette \in Palettes
       /\ LET art == ArtworkKey(resolved)
          IN IF art = "none" THEN image = <<>> ELSE art = p.art /\ image = Images[art] /\ image # <<>>
  BY <1>6, <1>7, <1>15, ResolvedFields
<1>17. [palette |-> palette, width |-> v.width * density, height |-> v.height * density] \in Gradients
  <2>1. <<palette, v, density>> \in Palettes \X Viewports \X Scales
    BY <1>14, <1>16
  <2>. QED BY <2>1 DEF Gradients
<1>18. /\ looked \in Seq(Gradients) /\ Len(looked) <= GradientLimit /\ IsInjective(looked)
       /\ gradient = IF resolved.kind = "full_field" THEN <<>>
                     ELSE [palette |-> palette, width |-> v.width * density, height |-> v.height * density]
  BY <1>4, <1>8, <1>11, <1>17, GradientFound
<1>19. /\ content \in [presentation: Resolutions, viewport: Viewports, scale: Scales]
       /\ content.scale = density /\ content.viewport = v /\ ContentKey(content.presentation) = ContentKey(resolved)
  <2>1. CASE previous = <<>>
    BY <1>10, <1>14, <1>16, <2>1
  <2>2. CASE previous # <<>>
    <3>1. suitable(resolved) # {} /\ previous = cache[Max(suitable(resolved))]
      BY <1>9, <2>2
    <3>2. Max(suitable(resolved)) \in suitable(resolved)
      <4>1. Len(cache) \in Nat /\ suitable(resolved) \subseteq 1..Len(cache)
        BY <1>4
      <4>. QED BY <3>1, <4>1, GreatestIndex
    <3>3. /\ previous \in Faithful(density)
          /\ previous.viewport = v /\ ContentKey(previous.presentation) = ContentKey(resolved)
      BY <1>4, <3>1, <3>2
    <3>4. previous \in Prepareds /\ previous.content.viewport = previous.viewport /\ previous.content.scale = density
          /\ ContentKey(previous.content.presentation) = ContentKey(previous.presentation)
      BY <3>3 DEF Faithful
    <3>. QED BY <1>10, <2>2, <3>3, <3>4 DEF Prepareds
  <2>. QED BY <2>1, <2>2
<1>20. entry \in Faithful(density)
  <2>1. entry \in Prepareds
    BY <1>12, <1>14, <1>16, <1>17, <1>18, <1>19 DEF Prepareds
  <2>2. ImageOfItsArtwork(entry)
    BY <1>7, <1>12, <1>16 DEF ImageOfItsArtwork
  <2>3. GradientOfItsPalette(entry)
    BY <1>12, <1>18, <1>19 DEF GradientOfItsPalette, IsPlaying
  <2>. QED BY <1>12, <1>19, <2>1, <2>2, <2>3 DEF Faithful
<1>21. /\ Pushed(cache, RecentLimit, entry) \in Seq(Faithful(density))
       /\ Len(Pushed(cache, RecentLimit, entry)) <= RecentLimit
       /\ Pushed(cache, RecentLimit, entry) # <<>> /\ Last(Pushed(cache, RecentLimit, entry)) = entry
  BY <1>4, <1>20, LimitAssumption, PushedBounded
<1>. QED BY <1>4, <1>13, <1>18, <1>20, <1>21 DEF CachesInv

(* Either step; a new preparation is faithful as well.                      *)
LEMMA CachesStep ==
  ASSUME CachesInv, [Next]_vars
  PROVE  /\ CachesInv'
         /\ recent' # recent => recent' # <<>> /\ Last(recent') \in Faithful(scale')
<1>1. CASE \E art \in DOMAIN Images : Arrive(art)
  BY <1>1, ArriveKeepsCaches
<1>2. CASE \E p \in Presentations, view \in Views, density \in Scales : Prepare(p, view, density)
  BY <1>2, PrepareKeepsCaches
<1>3. CASE UNCHANGED vars
  BY <1>3 DEF CachesInv, vars
<1>. QED BY <1>1, <1>2, <1>3 DEF Next

(* The caches of a new worker are empty.                                    *)
LEMMA CachesStart == Init => CachesInv
  BY LimitAssumption DEF Init, CachesInv, IsInjective

(* Whatever presentations, artwork, failures, displays and scales come, in   *)
(* whatever order, what the caches hold is faithful to their scale, and no  *)
(* more than their limits (PresentationPreparation::prepare).               *)
THEOREM CachesAlwaysFaithful == Spec => []CachesInv
<1>1. CachesInv /\ [Next]_vars => CachesInv'
  BY CachesStep
<1>. QED BY <1>1, CachesStart, PTL DEF Spec

(* A preparation has the texts, the image and the gradient that it would     *)
(* have without the caches: no key says too little (content_key,            *)
(* artwork_key, the palette and pixels of a gradient).                      *)
THEOREM ReuseIsInvisible == Spec => AsPreparedAnew
<1> DEFINE Step == /\ TypeOK'
                   /\ recent' # recent => LET prepared == Last(recent')
                                          IN /\ prepared.content.scale = scale'
                                             /\ ContentIsFresh(prepared)
                                             /\ ImageOfItsArtwork(prepared)
                                             /\ GradientOfItsPalette(prepared)
<1>1. CachesInv /\ TypeOK' /\ [Next]_vars => Step
  <2> SUFFICES ASSUME CachesInv, TypeOK', [Next]_vars PROVE Step
    OBVIOUS
  <2>2. ASSUME recent' # recent
        PROVE  LET prepared == Last(recent')
               IN /\ prepared.content.scale = scale' /\ ContentIsFresh(prepared)
                  /\ ImageOfItsArtwork(prepared) /\ GradientOfItsPalette(prepared)
    <3>1. PICK prepared : prepared = Last(recent')
      OBVIOUS
    <3>2. prepared \in Faithful(scale')
      BY <2>2, <3>1, CachesStep
    <3>3. prepared.content.scale = scale' /\ ImageOfItsArtwork(prepared) /\ GradientOfItsPalette(prepared)
      BY <3>2 DEF Faithful
    <3>4. ContentIsFresh(prepared)
      BY <3>2, FaithfulIsFresh
    <3>. QED BY <3>1, <3>3, <3>4
  <2>. QED BY <2>2
<1>2. Spec => []TypeOK
  BY CachesAlwaysFaithful, CachesType, PTL
<1>. QED BY <1>1, <1>2, CachesAlwaysFaithful, PTL DEF Spec, AsPreparedAnew

-----------------------------------------------------------------------------
(* What did not change stays where it is                                   *)

(* Metadata that did not change is fitted alike, whatever timing, status and *)
(* lyrics are prepared with it.                                            *)
LEMMA MetadataOfTexts ==
  ASSUME NEW density, NEW prepared \in Faithful(density), NEW other \in Faithful(density)
  PROVE  MetadataStays(prepared, other)
<1> SUFFICES ASSUME prepared.viewport = other.viewport, IsPlaying(prepared), IsPlaying(other), Texts(prepared) = Texts(other)
             PROVE  ContentOf(prepared).metadata = ContentOf(other).metadata
  BY DEF MetadataStays
<1> DEFINE v == prepared.viewport
           p == prepared.presentation
           q == other.presentation
<1>1. p \in Resolutions /\ q \in Resolutions /\ v \in Viewports
  BY DEF Faithful, Prepareds
<1>2. PICK plan : plan = GroupPlanOf(p.metadata, v)
  OBVIOUS
<1>3. p.metadata = q.metadata
  BY DEF Texts
<1>4. ContentOf(prepared) = NowPlayingContent(p, v, plan) /\ ContentOf(other) = NowPlayingContent(q, v, plan)
  BY <1>1, <1>2, <1>3, FaithfulIsFresh, ContentOfPresentation DEF IsPlaying
<1>5. /\ MetadataRegion(v, p.timing) = MetadataRegion(v, q.timing)
      /\ MetadataGroupOffset(v, p.timing, plan.height) = MetadataGroupOffset(v, q.timing, plan.height)
  BY RegionOfViewport
<1>6. \A r : NowPlayingContent(r, v, plan).metadata =
               Metadata(r.metadata, v, MetadataRegion(v, r.timing), MetadataGroupOffset(v, r.timing, plan.height), plan)
  BY DEF NowPlayingContent
<1>. QED BY <1>3, <1>4, <1>5, <1>6

(* The content of a display that moves while inactive stays inside it, and   *)
(* its viewport is the same wherever it moves.                              *)
LEMMA ViewportOfView ==
  ASSUME NEW density, NEW prepared \in Faithful(density), NEW other \in Faithful(density)
  PROVE  MovesInsideDisplay(prepared, other)
<1> DEFINE view == prepared.view
           layout == InactivityLayout(view.display, view.offset)
<1>1. /\ view \in Views /\ other.view \in Views
      /\ prepared.viewport = layout.content
      /\ other.viewport = InactivityLayout(other.view.display, other.view.offset).content
  BY DEF Faithful, Prepareds, ContentViewport
<1>2. /\ layout.start + layout.content.width + layout.end = view.display.width
      /\ layout.top + layout.content.height + layout.bottom = view.display.height
  <2>1. /\ view.display.width \in Nat /\ view.display.height \in Nat
        /\ view.offset = <<>> \/ (view.offset.x \in Int /\ view.offset.y \in Int)
    BY <1>1, ViewAssumption
  <2>2. CASE view.offset = <<>>
    BY <2>1, <2>2 DEF InactivityLayout
  <2>3. CASE view.offset # <<>>
    <3>1. layout = [content |-> [width |-> view.display.width - 2 * 18, height |-> view.display.height - 2 * 12],
                    start |-> 18 + view.offset.x, end |-> 18 - view.offset.x,
                    top |-> 12 + view.offset.y, bottom |-> 12 - view.offset.y]
      BY <2>3, Zenon DEF InactivityLayout, Reserved, HorizontalBound, VerticalBound
    <3> HIDE DEF layout
    <3>2. /\ layout.start = 18 + view.offset.x /\ layout.end = 18 - view.offset.x
          /\ layout.top = 12 + view.offset.y /\ layout.bottom = 12 - view.offset.y
          /\ layout.content.width = view.display.width - 2 * 18 /\ layout.content.height = view.display.height - 2 * 12
      BY <3>1
    <3>3. \A w \in Int, h \in Int, x \in Int, y \in Int :
            18 + x + (w - 2 * 18) + (18 - x) = w /\ 12 + y + (h - 2 * 12) + (12 - y) = h
      OBVIOUS
    <3>4. view.display.width \in Int /\ view.display.height \in Int /\ view.offset.x \in Int /\ view.offset.y \in Int
      BY <2>1, <2>3
    <3>5. /\ (18 + view.offset.x) + (view.display.width - 2 * 18) + (18 - view.offset.x) = view.display.width
          /\ (12 + view.offset.y) + (view.display.height - 2 * 12) + (12 - view.offset.y) = view.display.height
      BY <3>3, <3>4
    <3>6. layout.start + layout.content.width + layout.end = view.display.width
      BY <3>2, <3>5
    <3>7. layout.top + layout.content.height + layout.bottom = view.display.height
      BY <3>2, <3>5
    <3>. QED BY <3>6, <3>7
  <2>. QED BY <2>2, <2>3
<1>3. ASSUME other.view.display = view.display, (other.view.offset = <<>>) = (view.offset = <<>>)
      PROVE  other.viewport = prepared.viewport
  BY <1>1, <1>3 DEF InactivityLayout, Reserved
<1>. QED BY <1>1, <1>2, <1>3 DEF MovesInsideDisplay

(* Timing, status and lyrics that come and go, and the movement of an        *)
(* inactive display, leave metadata in its lines and content in its         *)
(* viewport (refresh_metadata_height_budget, InactivityLayout).             *)
THEOREM UnchangedPlaces == Spec => UnchangedStays
<1> DEFINE Step == \A other \in ToSet(recent') :
                     recent' # recent => /\ MetadataStays(Last(recent'), other)
                                         /\ MovesInsideDisplay(Last(recent'), other)
<1>1. CachesInv /\ [Next]_vars => Step
  <2> SUFFICES ASSUME CachesInv, [Next]_vars, recent' # recent, NEW other \in ToSet(recent')
               PROVE  MetadataStays(Last(recent'), other) /\ MovesInsideDisplay(Last(recent'), other)
    OBVIOUS
  <2>1. recent' \in Seq(Faithful(scale')) /\ Last(recent') \in Faithful(scale')
    BY CachesStep DEF CachesInv
  <2>2. other \in Faithful(scale')
    BY <2>1 DEF ToSet
  <2>. QED BY <2>1, <2>2, MetadataOfTexts, ViewportOfView
<1>. QED BY <1>1, CachesAlwaysFaithful, PTL DEF Spec, UnchangedStays

=============================================================================
