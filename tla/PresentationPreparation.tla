---------------------- MODULE PresentationPreparation ----------------------
(***************************************************************************)
(* The Renderer's worker: it prepares presentations for the display they    *)
(* are asked for, and reuses what it still has of earlier ones              *)
(* (src/renderer/src/prepared_presentation.rs, resolution.rs, the worker of *)
(* native_runtime.rs). The properties are about what it reuses, and about   *)
(* where Scene draws what was prepared.                                     *)
(*                                                                          *)
(* Texts with their places are large: a preparation keeps what they were    *)
(* prepared of, and Content is what comes of it.                            *)
(***************************************************************************)
EXTENDS Scene

CONSTANTS Presentations,  \* PreparedContent says what they are
          Images,         \* the size of the image of each artwork, "none" is none
          Views,          \* [display, offset]: displays, still or moved while inactive
          Scales,         \* pixels of the window per pixel of the display
          RecentLimit, GradientLimit,
          MaxTexture,     \* the largest texture of the window
          Amounts         \* how far the composition has travelled, in percent

ASSUME LimitAssumption == RecentLimit \in Nat \ {0} /\ GradientLimit \in Nat \ {0} /\ MaxTexture \in Nat \ 0..2

(* What a snapshot is mapped to, and the displays of the window.           *)
ASSUME PresentationAssumption ==
  \A p \in Presentations :
    \/ p.kind = "full_field"
    \/ p = [kind |-> "now_playing", metadata |-> p.metadata, art |-> p.art, lyrics |-> p.lyrics,
            timing |-> p.timing, status |-> p.status, names |-> p.names]
ASSUME ViewAssumption ==
  \A view \in Views : /\ view.display.width \in Nat /\ view.display.height \in Nat
                      /\ view.offset = <<>> \/ (view.offset.x \in Int /\ view.offset.y \in Int)

VARIABLES scale,          \* what the worker's caches are for
          recent,         \* the last preparations
          gradients,      \* [palette, physical], the one used last at the end
          arriving        \* artwork that came ahead of its presentation, or <<>>

vars == <<scale, recent, gradients, arriving>>

-----------------------------------------------------------------------------
(* resolve_presentation_with_palette: without a usable image the names     *)
(* stand alone, and without names the status does.                         *)

Trackless(p) == [kind |-> "full_field", heading |-> 1500, explanation |-> 0, status |-> p.status, names |-> p.names]

\* mutant: artwork that cannot be decoded stays
ResolvedKeeping(p, image) == p

Resolved(p, image) ==
  IF p.kind = "full_field" \/ image # <<>> THEN p
  ELSE IF Present(p.metadata) = {} THEN Trackless(p)
  ELSE [p EXCEPT !.art = "none"]

ArtworkKey(p) == IF p.kind = "full_field" THEN "none" ELSE p.art

\* mutant: texts of a presentation with lyrics are those of any other lyrics
ContentKeyWithoutLyrics(p) ==
  IF p.kind = "full_field" THEN p
  ELSE [p EXCEPT !.art = "none", !.status = "PLAYING", !.lyrics = <<>>,
                 !.timing = IF @ = "activity" THEN @ ELSE "none"]

ContentKey(p) ==
  IF p.kind = "full_field" THEN p
  ELSE [p EXCEPT !.art = "none", !.status = "PLAYING", !.timing = IF @ = "activity" THEN @ ELSE "none"]

-----------------------------------------------------------------------------
(* Content: computed once for what the worker can be asked for.            *)

ContentViewport(view) == InactivityLayout(view.display, view.offset).content
Viewports == {ContentViewport(view) : view \in Views}
Resolutions == Presentations \cup {Resolved(p, <<>>) : p \in Presentations}
Playing == {p \in Resolutions : p.kind = "now_playing"}

GroupPlans ==
  {[metadata |-> key[1], viewport |-> key[2],
    plan |-> FittingGroupPlan(key[1], key[2], Composition(key[2], 0).musical, HeightBudget(key[2], "none"))]
     : key \in {p.metadata : p \in Playing} \X Viewports}
GroupPlanOf(metadata, v) == (CHOOSE plan \in GroupPlans : plan.metadata = metadata /\ plan.viewport = v).plan

Contents ==
  {[presentation |-> key[1], viewport |-> key[2],
    content |-> IF key[1].kind = "full_field" THEN FullFieldContent(key[1], key[2])
                ELSE NowPlayingContent(key[1], key[2], GroupPlanOf(key[1].metadata, key[2]))]
     : key \in Resolutions \X Viewports}
Content(p, v) ==
  (CHOOSE prepared \in Contents : prepared.presentation = p /\ prepared.viewport = v).content

-----------------------------------------------------------------------------
(* The worker                                                              *)

Init == scale = 1 /\ recent = <<>> /\ gradients = <<>> /\ arriving = <<>>

(* image: a file may fail to decode, and not fail the next time.           *)
Decoded(art) == {Images[art], <<>>}

(* prepare_arriving_artwork                                                *)
Arrive(art) ==
  /\ arriving # <<>> => arriving.art # art
  /\ \A i \in DOMAIN recent : ArtworkKey(recent[i].presentation) # art
  /\ \E image \in Decoded(art) : arriving' = [art |-> art, image |-> image]
  /\ UNCHANGED <<scale, recent, gradients>>

NewestOf(cache, Suits(_)) ==
  LET suitable == {i \in DOMAIN cache : Suits(cache[i])}
  IN IF suitable = {} THEN <<>> ELSE cache[Max(suitable)]

ImagesOf(p, cache, arrived) ==
  LET previous == NewestOf(cache, LAMBDA prepared : ArtworkKey(prepared.presentation) = p.art)
  IN IF ArtworkKey(p) = "none" THEN {<<>>}
     ELSE IF previous # <<>> THEN {previous.image}
     ELSE IF arrived # <<>> /\ arrived.art = p.art THEN {arrived.image}
     ELSE Decoded(p.art)

\* mutant: nothing leaves a full cache
PushedBeyond(cache, limit, entry) == Append(cache, entry)

Pushed(cache, limit, entry) == Append(IF Len(cache) >= limit THEN Tail(cache) ELSE cache, entry)

(* What is found becomes the one used last. *)
UsedAgain(cache, i) == Append(RemoveAt(cache, i), cache[i])

\* mutant: the gradient of a palette is the same for every viewport
LookedUpByPalette(cache, gradient) ==
  LET held == {i \in DOMAIN cache : cache[i].palette = gradient.palette}
  IN IF held # {} THEN UsedAgain(cache, CHOOSE i \in held : TRUE) ELSE Pushed(cache, GradientLimit, gradient)

LookedUp(cache, gradient) ==
  IF gradient \in ToSet(cache) THEN UsedAgain(cache, CHOOSE i \in DOMAIN cache : cache[i] = gradient)
  ELSE Pushed(cache, GradientLimit, gradient)

(* prepare, in the caches of its scale                                     *)
Prepare(p, view, density) ==
  LET kept == density = scale
      cache == IF kept THEN recent ELSE <<>>
      v == ContentViewport(view)
  IN \E image \in ImagesOf(p, cache, IF kept THEN arriving ELSE <<>>) :
       LET resolved == Resolved(p, image)
           palette == IF image = <<>> THEN "fallback" ELSE p.art
           looked == IF resolved.kind = "full_field" THEN IF kept THEN gradients ELSE <<>>
                     ELSE LookedUp(IF kept THEN gradients ELSE <<>>,
                                   [palette |-> palette, width |-> v.width * density, height |-> v.height * density])
           previous == NewestOf(cache, LAMBDA prepared : /\ prepared.viewport = v
                                                         /\ ContentKey(prepared.presentation) = ContentKey(resolved))
       IN /\ scale' = density
          /\ arriving' = IF kept THEN arriving ELSE <<>>
          /\ gradients' = looked
          /\ recent' = Pushed(cache, RecentLimit,
               [presentation |-> resolved, palette |-> palette, image |-> image, viewport |-> v, view |-> view,
                gradient |-> IF resolved.kind = "full_field" THEN <<>> ELSE Last(looked),
                content |-> IF previous # <<>> THEN previous.content
                            ELSE [presentation |-> resolved, viewport |-> v, scale |-> density]])

Next == \/ \E art \in DOMAIN Images : Arrive(art)
        \/ \E p \in Presentations, view \in Views, density \in Scales : Prepare(p, view, density)

Spec == Init /\ [][Next]_vars


-----------------------------------------------------------------------------
(* Properties                                                              *)

ContentOf(prepared) == Content(prepared.content.presentation, prepared.content.viewport)
IsPlaying(prepared) == prepared.presentation.kind = "now_playing"
Plan(prepared, role) == ContentOf(prepared).metadata.plan.plans[role]
Texts(prepared) == prepared.presentation.metadata
Rest(prepared) == prepared.viewport

(* The caches hold at most what they should, of the worker's scale.        *)
TypeOK ==
  /\ scale \in Scales \cup {1}
  /\ Len(recent) <= RecentLimit /\ Len(gradients) <= GradientLimit
  /\ \A i \in DOMAIN recent : /\ recent[i].presentation \in Resolutions /\ recent[i].viewport \in Viewports
                              /\ recent[i].content.presentation \in Resolutions
  /\ IsInjective(gradients)
  /\ arriving = <<>> \/ arriving.art \in DOMAIN Images

(* What is prepared with the help of the caches is what would be prepared  *)
(* without them: its texts are those of the presentation for this viewport *)
(* and scale (prepare, content_key).                                       *)
ContentIsFresh(prepared) ==
  ContentOf(prepared) = Content(prepared.presentation, prepared.viewport)

(* A presentation names artwork exactly if its image was decoded, in       *)
(* whatever order artwork, failures and presentations came                 *)
(* (prepare_arriving_artwork, resolve_presentation_with_palette).          *)
ImageOfItsArtwork(prepared) ==
  LET art == ArtworkKey(prepared.presentation)
  IN IF art = "none" THEN prepared.image = <<>> /\ prepared.palette = "fallback"
     ELSE prepared.image = Images[art] /\ prepared.palette = art

(* The gradient behind Now Playing is that of its palette for its pixels.  *)
GradientOfItsPalette(prepared) ==
  IsPlaying(prepared) =>
    prepared.gradient = [palette |-> prepared.palette, width |-> prepared.viewport.width * prepared.content.scale,
                         height |-> prepared.viewport.height * prepared.content.scale]

(* Whatever was prepared and arrived before, and in whatever order, a      *)
(* preparation cannot be told from one made anew.                          *)
AsPreparedAnew ==
  [][/\ TypeOK'
     /\ recent' # recent => LET prepared == Last(recent')
                            IN /\ prepared.content.scale = scale'
                               /\ ContentIsFresh(prepared)
                               /\ ImageOfItsArtwork(prepared)
                               /\ GradientOfItsPalette(prepared)]_vars

(* Inactivity moves the content inside the display, and asks for nothing   *)
(* new when it moves again: its viewport stays (InactivityLayout).         *)
MovesInsideDisplay(prepared, other) ==
  LET view == prepared.view
      layout == InactivityLayout(view.display, view.offset)
  IN /\ layout.start + prepared.viewport.width + layout.end = view.display.width
     /\ layout.top + prepared.viewport.height + layout.bottom = view.display.height
     /\ other.view.display = view.display /\ (other.view.offset = <<>>) = (view.offset = <<>>)
          => other.viewport = prepared.viewport

(* Each line shows the words after those of the line before, all of them   *)
(* unless the text is ellipsized, and fits the rail unless a single word   *)
(* does not; what Pango and the sum of words round apart is a pixel a word.*)
LinesHoldTheText(prepared) ==
  IsPlaying(prepared) =>
    \A role \in Present(Texts(prepared)) :
      LET lines == Plan(prepared, role).lines
          room == Composition(Rest(prepared), 0).musical
          cut == Plan(prepared, role).ellipsized
          Shown(n) == IF cut /\ n = Len(lines) THEN MeasuredWithEllipsis(Texts(prepared)[role], lines[n], Plan(prepared, role).size)
                      ELSE Measured(Texts(prepared)[role], lines[n], Plan(prepared, role).size)
      IN /\ Len(lines) \in 1..MaximumLines[role]
         /\ \A n \in DOMAIN lines :
              /\ lines[n].from = IF n = 1 THEN 1 ELSE lines[n - 1].to + 1
              /\ lines[n].from <= lines[n].to \/ (cut /\ n = Len(lines))
              /\ Shown(n) <= room + Words(lines[n]) \/ Words(lines[n]) <= 1
         /\ Last(lines).to = Len(Texts(prepared)[role]) \/ cut

(* No other lines, as few and as wide, are closer to their average.        *)
BreaksAreBest(prepared) ==
  IsPlaying(prepared) =>
    \A role \in {present \in Present(Texts(prepared)) : Len(Plan(prepared, present).lines) > 1 /\ ~Plan(prepared, present).ellipsized} :
      LET words == Texts(prepared)[role]
          widths == LineWidths(words, Plan(prepared, role).size)
          room == Composition(Rest(prepared), 0).musical
          lines == Plan(prepared, role).lines
          Score(set) == MapThenSumSet(LAMBDA line : Shortfall(widths, line, Len(lines)), set)
          Broken(ends) == {[from |-> Max({0} \cup {end \in ends : end < to}) + 1, to |-> to] : to \in ends}
          Fits(set) == \A line \in set : widths[line.from][line.to] <= room
          Ways(n) == {Broken(ends \cup {Len(words)}) : ends \in kSubset(n - 1, 1 .. Len(words) - 1)}
      IN /\ \A way \in Ways(Len(lines)) : Fits(way) => Score(ToSet(lines)) <= Score(way)
         /\ \A way \in Ways(Len(lines) - 1) : ~Fits(way)

(* The group, drawn at the heights of its fonts, stays between status and  *)
(* footer, in fonts that are never below their floor.                      *)
GroupInItsRegion(prepared) ==
  IsPlaying(prepared) =>
    LET texts == ContentOf(prepared).metadata.ordinary
        region == MetadataRegion(Rest(prepared), prepared.presentation.timing)
    IN /\ \A i \in DOMAIN texts : region.top <= texts[i].top /\ texts[i].bottom <= region.bottom
       /\ \A i \in 1..Len(texts) - 1 : texts[i].bottom <= texts[i + 1].top
       /\ \A role \in Present(Texts(prepared)) : Typography(Rest(prepared))[role].minimum <= Plan(prepared, role).size

(* The metadata is set in the best lines that fit its place. What is       *)
(* prepared first is told of; the rest is as prepared anew.                *)
MetadataFits ==
  [][recent = <<>> => \A prepared \in ToSet(recent') :
       LinesHoldTheText(prepared) /\ BreaksAreBest(prepared) /\ GroupInItsRegion(prepared)]_vars

(* Timing, status and lyrics that come or go leave the lines of unchanged  *)
(* metadata where they are.                                                *)
MetadataStays(prepared, other) ==
  /\ prepared.viewport = other.viewport
  /\ IsPlaying(prepared) /\ IsPlaying(other)
  /\ Texts(prepared) = Texts(other)
  => ContentOf(prepared).metadata = ContentOf(other).metadata

(* What did not change does not move: for timing and lyrics that come and  *)
(* go, nor in its viewport while inactivity moves that.                    *)
UnchangedStays ==
  [][\A other \in ToSet(recent') :
       recent' # recent => /\ MetadataStays(Last(recent'), other)
                           /\ MovesInsideDisplay(Last(recent'), other)]_vars

(* A word that sets out from its text at rest is where it was, and so is   *)
(* one that arrives, a text too wide for the rail included; one that has   *)
(* been left out ends at the ellipsis (moving_words, prepare_paths).       *)
EndsAtRest(prepared) ==
  IsPlaying(prepared) =>
    LET movement == ContentOf(prepared).metadata.movement
        Near(a, b) == a - b \in -1..1
        Same(still, moved) ==
          /\ {word.occ : word \in still} = {word.occ : word \in moved}
          /\ \A word \in still : \E other \in moved :
               /\ other.occ = word.occ /\ Near(word.x, other.x) /\ Near(word.y, other.y)
               /\ word.size - other.size \in -100..100
    IN \A i \in DOMAIN movement :
         /\ Same(StillWords(movement[i].ordinary, Rest(prepared), 0), MovingWords(movement[i], Rest(prepared), 0))
         /\ Same(StillWords(movement[i].compact, Rest(prepared), 100), MovingWords(movement[i], Rest(prepared), 100))
         /\ \A path \in movement[i].paths, ellipsis \in StillWords(movement[i].compact, Rest(prepared), 100) :
              path.visible = <<TRUE, FALSE>> /\ ellipsis.occ = 0 =>
                LET gone == MovingWord(path, movement[i], Rest(prepared), 100)
                IN Near(gone.x, ellipsis.x) /\ Near(gone.y, ellipsis.y)

WordsTravelInPlace == [][recent = <<>> => \A prepared \in ToSet(recent') : EndsAtRest(prepared)]_vars

(* However far the composition has travelled, status, names, lyrics,       *)
(* timing and identities are above each other, and the artwork, the rail   *)
(* and the gutter next to each other.                                      *)
RolesApart(prepared) ==
  IsPlaying(prepared) =>
    LET content == ContentOf(prepared)
        footer == Footer(Rest(prepared))
    IN /\ footer.timing.bottom <= footer.identity.top - FooterGap(Rest(prepared))
       /\ footer.identity.bottom <= Rest(prepared).height
       /\ \A progress \in Amounts :
            LET amount == CompositionGeometry(progress)
                status == Anchors(Rest(prepared)).status + StatusLayout(Rest(prepared)).symbol
                composition == Composition(Rest(prepared), amount)
                identities == IdentityAt(content, amount)
            IN /\ ArtworkBounds(Rest(prepared), prepared.image, amount).right + PlateOffset(Rest(prepared)).x <= composition.left
               /\ composition.left + composition.utility <= Rest(prepared).width - OuterGutter(Rest(prepared)) + 1
               /\ \A i \in DOMAIN identities : identities[i].right <= composition.utility
               /\ \A i \in DOMAIN content.metadata.movement :
                    \A word \in DrawnWords(content.metadata.movement[i], Rest(prepared), amount) : status <= word.y
               /\ \A album \in Album(content, Rest(prepared), progress) : status <= album.top
       /\ IF content.reel = <<>> THEN MetadataBottom(content, Rest(prepared), 0) <= footer.timing.top
          ELSE \A progress \in Amounts :
                 LET slot == ReelSlot(content, Rest(prepared), progress)
                 IN MetadataBottom(content, Rest(prepared), progress) <= slot.top /\ slot.bottom <= footer.timing.top

(* The artwork, its border included, stays in the square reserved for it.  *)
ArtworkInItsSquare(prepared) ==
  IsPlaying(prepared) =>
    \A progress \in Amounts :
      LET amount == CompositionGeometry(progress)
          bounds == ArtworkBounds(Rest(prepared), prepared.image, amount)
          size == Composition(Rest(prepared), amount).artwork
      IN /\ OuterGutter(Rest(prepared)) <= bounds.left /\ bounds.right <= OuterGutter(Rest(prepared)) + size
         /\ Anchors(Rest(prepared)).top <= bounds.top /\ bounds.bottom <= Anchors(Rest(prepared)).bottom
         /\ size - 1 <= Greatest(bounds.right - bounds.left, bounds.bottom - bounds.top)

(* The cues prepared on each side of the current one fill the reel twice,  *)
(* a run of blank ones as one row, unless the song ends before.            *)
CuesFillTheReel(prepared) ==
  IsPlaying(prepared) /\ prepared.presentation.lyrics # <<>> =>
    LET reel == ContentOf(prepared).reel
        timeline == prepared.presentation.lyrics.timeline
        current == prepared.presentation.lyrics.current
        cues == DOMAIN reel.cues
        Rows(side) == {i \in side : timeline[i] # 0 \/ i - 1 \notin side \/ timeline[i - 1] # 0}
        Height(side) == MapThenSumSet(LAMBDA i : reel.cues[i] + reel.gap, Rows(side))
        after == {i \in cues : i >= current}
        before == {i \in cues : i < current}
    IN /\ cues = Min(cues)..Max(cues) /\ current \in cues
       /\ Max(cues) = Len(timeline) \/ Height(after) >= 2 * (reel.bottom - reel.top)
       /\ Min(cues) = 1 \/ Height(before) >= 2 * (reel.bottom - reel.top)

(* The roles of a Full-field presentation are above each other and its     *)
(* copy is no wider than its place.                                        *)
FullFieldInPlace(prepared) ==
  prepared.presentation.kind = "full_field" =>
    LET content == ContentOf(prepared)
        layout == FullField(Rest(prepared))
        p == prepared.presentation
    IN /\ 0 < layout.status.top /\ Bottom(layout.status) < layout.heading.top
       /\ Bottom(layout.heading) < layout.explanation.top
       /\ AccentBottom(Rest(prepared), p.explanation # 0) + NaturalHeight(layout.identity) <= layout.identityBottom
       /\ Fraction(p.heading, content.heading, 100) <= layout.width
       /\ Fraction(p.explanation, content.explanation, 100) <= layout.width
       /\ content.identity # <<>> => Last(content.identity).right <= layout.identityWidth

(* The tiles of a text are disjoint and cover it; none but the last of a   *)
(* row or column is short, and each, with a pixel of every neighbor it     *)
(* has, is within the largest texture.                                     *)
TilesCoverTheText(prepared) ==
  IsPlaying(prepared) =>
    \A role \in Present(Texts(prepared)) : \A n \in DOMAIN Plan(prepared, role).lines :
      LET plan == Plan(prepared, role)
          density == prepared.content.scale
          raster == [width |-> density * (Measured(Texts(prepared)[role], plan.lines[n], plan.size) + 2),
                     height |-> density * (NaturalHeight(plan.size) + 2)]
          tiles == RasterTiles(raster, MaxTexture)
          Covered(side, extent) ==
            /\ \A tile \in side :
                 /\ tile.last - tile.first <= MaxTexture
                 /\ tile.from > 0 => tile.first < tile.from
                 /\ tile.to < extent =>
                      /\ tile.to < tile.last
                      /\ \E next \in side : next.from = tile.to
                      /\ \A other \in side : other.to - other.from <= tile.to - tile.from
            /\ MapThenSumSet(LAMBDA tile : tile.to - tile.from, side) = extent
      IN /\ Covered({tile[1] : tile \in tiles}, raster.width) /\ Covered({tile[2] : tile \in tiles}, raster.height)
         /\ Cardinality(tiles) = 1 <=> raster.width <= MaxTexture /\ raster.height <= MaxTexture

(* Every role is drawn whole, in its own place.                            *)
RolesInPlace ==
  [][recent = <<>> => \A prepared \in ToSet(recent') :
       /\ RolesApart(prepared) /\ ArtworkInItsSquare(prepared) /\ FullFieldInPlace(prepared)
       /\ CuesFillTheReel(prepared) /\ TilesCoverTheText(prepared)]_vars

=============================================================================
