-------------------------- MODULE PreparedContent --------------------------
(***************************************************************************)
(* What the worker prepares of a presentation for a viewport: texts with    *)
(* their places, the words that travel between the two compositions, and    *)
(* the cues of the lyrics around the current one                            *)
(* (src/renderer/src/prepared_presentation.rs, text_preparation.rs).        *)
(*                                                                          *)
(* A Now Playing presentation is [kind, metadata, art, lyrics, timing,      *)
(* status, names], where lyrics is <<>> or [timeline, current]: a cue is    *)
(* the number of lines it fills, 0 for a blank one. A Full-field one is     *)
(* [kind, heading, explanation, status, names]. Names and copy are widths,  *)
(* in hundredths of the size of the font, 0 if absent. Places are whole     *)
(* pixels, and those of words thousandths of the size of their font.        *)
(***************************************************************************)
EXTENDS MetadataFitting

CONSTANTS LabelWidth \* of OUTPUT and of ZONE, in hundredths of the size of the font

-----------------------------------------------------------------------------
(* TextPreparation::rasterize_drawing: a raster with a side beyond the     *)
(* limit of a texture is cut along both into tiles, painted with a pixel   *)
(* of their neighbors on each side.                                        *)

\* mutant: a step leaves no room for the neighboring pixels
TileStepWhole(extent, tiled, limit) == IF tiled THEN limit ELSE extent

TileStep(extent, tiled, limit) == IF tiled THEN Greatest(limit - 2, 1) ELSE extent

(* The tiles along one side.                                               *)
Tiles(extent, tiled, limit) ==
  LET step == TileStep(extent, tiled, limit)
      End(x) == Least(x + step, extent)
  IN {[from |-> x, to |-> End(x), first |-> Minus(x, 1), last |-> Least(End(x) + 1, extent)]
        : x \in {x \in 0..extent - 1 : x % step = 0}}

RasterTiles(raster, limit) ==
  LET tiled == raster.width > limit \/ raster.height > limit
  IN Tiles(raster.width, tiled, limit) \X Tiles(raster.height, tiled, limit)

-----------------------------------------------------------------------------
(* The words of a text that are drawn: [occ, x, y, part, right], occurrence*)
(* 0 an ellipsis, part a word that is cut short. TextPreparation::words.   *)

WordsOfLine(words, line, size, y, ellipsis) ==
  LET X(i) == Measured(words, [from |-> line.from, to |-> i], size)
      start == [i \in line.from..line.to |-> X(i) - Fraction(words[i], size, 100)]
      end == IF line.to < line.from THEN 0 ELSE X(line.to)
  IN {[occ |-> i, x |-> start[i], y |-> y, part |-> FALSE, right |-> X(i)] : i \in line.from..line.to}
     \cup IF ellipsis THEN {[occ |-> 0, x |-> end, y |-> y, part |-> FALSE,
                             right |-> end + Fraction(EllipsisWidth, size, 100)]} ELSE {}

WordsOfPlan(words, plan) ==
  UNION {WordsOfLine(words, plan.lines[n], plan.size, (n - 1) * NaturalHeight(plan.size),
                     plan.ellipsized /\ n = Len(plan.lines)) : n \in DOMAIN plan.lines}

(* A single line that Pango ellipsizes, in the middle of a word if need be.*)
WordsInWidth(words, size, width) ==
  IF Measured(words, Whole(words), size) <= width THEN WordsOfLine(words, Whole(words), size, 0, FALSE)
  ELSE LET line == EllipsizedLine(words, 1, width, size)
           cut == IF line.to = Len(words) THEN {}
                  ELSE WordsOfLine([words EXCEPT ![line.to + 1] = @ \div 2],
                                   [line EXCEPT !.to = @ + 1], size, 0, TRUE)
       IN IF cut # {} /\ \A word \in cut : word.right <= width
          THEN {[word EXCEPT !.part = word.occ = line.to + 1] : word \in cut}
          ELSE WordsOfLine(words, line, size, 0, TRUE)

-----------------------------------------------------------------------------
(* MetadataMovement: where each word is with and without lyrics.           *)

(* The one drawn last if there is no ellipsis: words follow the text.      *)
EllipsisOf(endpoint) ==
  IF \E word \in endpoint.words : word.occ = 0 THEN CHOOSE word \in endpoint.words : word.occ = 0
  ELSE CHOOSE word \in endpoint.words : \A other \in endpoint.words : other.occ <= word.occ

NormalizedExtent(endpoint) ==
  Least(1000 * Max({word.right : word \in endpoint.words}), 1000 * (endpoint.width + 2)) \div endpoint.size

Occurrences(endpoint) == {word.occ : word \in endpoint.words}
The(endpoint, occ) == CHOOSE word \in endpoint.words : word.occ = occ
AtEndpoint(endpoint, word) == [x |-> (1000 * word.x) \div endpoint.size, y |-> endpoint.y + word.y]

\* mutant: a word shown at one end only stays where it is
StartOrStay(endpoint, other, occ) ==
  IF occ \in Occurrences(endpoint) THEN The(endpoint, occ) ELSE The(other, occ)

WordOrEllipsis(endpoint, other, occ) ==
  IF occ \in Occurrences(endpoint) THEN The(endpoint, occ) ELSE EllipsisOf(endpoint)

(* Omitted words keep their distances to the first of them while they fade.*)
OmittedSpread(endpoint, other, occ) ==
  LET only == {word \in endpoint.words : word.occ \notin Occurrences(other) \cup {0}}
      first == CHOOSE word \in only : \A later \in only : word.occ <= later.occ
      word == The(endpoint, occ)
  IN IF occ = 0 \/ occ \notin Occurrences(endpoint) \/ occ \in Occurrences(other) THEN [x |-> 0, y |-> 0]
     ELSE [x |-> (1000 * (word.x - first.x)) \div endpoint.size, y |-> (1000 * (word.y - first.y)) \div endpoint.size]

PreparePaths(ordinary, compact) ==
  {LET a == WordOrEllipsis(ordinary, compact, occ)
       b == WordOrEllipsis(compact, ordinary, occ)
       both == occ \in Occurrences(ordinary) \cap Occurrences(compact)
       spread == IF occ \in Occurrences(ordinary) THEN OmittedSpread(ordinary, compact, occ)
                 ELSE OmittedSpread(compact, ordinary, occ)
   IN [occ |-> occ, source |-> AtEndpoint(ordinary, a), destination |-> AtEndpoint(compact, b),
       visible |-> <<occ \in Occurrences(ordinary), occ \in Occurrences(compact)>>,
       cut |-> IF both THEN <<a.part, b.part>> ELSE <<FALSE, FALSE>>, spread |-> spread]
   : occ \in Occurrences(ordinary) \cup Occurrences(compact)}

Movement(role, ordinary, compact) ==
  [role |-> role, ordinary |-> ordinary, compact |-> compact, paths |-> PreparePaths(ordinary, compact),
   extents |-> <<NormalizedExtent(ordinary), NormalizedExtent(compact)>>]

-----------------------------------------------------------------------------
(* PresentationPreparation::metadata                                       *)

GapAfter(plan, previous) == IF previous = "title" THEN plan.creditGap ELSE plan.albumGap

(* Lines are drawn at the natural height of their font.                    *)
DrawnHeight(line) == Fraction(13 * line.size, Len(line.lines), 10)

Metadata(metadata, v, region, offset, plan) ==
  LET roles == SelectSeq(Roles, LAMBDA role : role \in Present(metadata))
      top == FoldLeft(LAMBDA tops, i :
                        Append(tops, Last(tops) + DrawnHeight(plan.plans[roles[i]]) + GapAfter(plan, roles[i])),
                      <<region.top + offset>>,
                      [i \in 1..Len(roles) - 1 |-> i])
      Ordinary(i) == [words |-> WordsOfPlan(metadata[roles[i]], plan.plans[roles[i]]),
                      size |-> plan.plans[roles[i]].size, y |-> top[i], width |-> Composition(v, 0).musical]
      heads == SelectSeq(roles, LAMBDA role : role # "album")
      Size(role) == IF role = "title" THEN Typography(v).mastheadTitle ELSE Typography(v).mastheadArtist
      gap == Fraction(Typography(v).mastheadArtist, 25, 100)
      Top(i) == IF i = 1 THEN 0 ELSE NaturalHeight(Size(heads[1])) + gap
      Compact(i) == [words |-> WordsInWidth(metadata[heads[i]], Size(heads[i]), LyricWidth(v)),
                     size |-> Size(heads[i]), y |-> region.top + Top(i), width |-> LyricWidth(v)]
      last == Len(heads)
  IN [plan |-> plan,
      ordinary |-> [i \in DOMAIN roles |->
                      [role |-> roles[i], top |-> top[i], bottom |-> top[i] + DrawnHeight(plan.plans[roles[i]])]],
      movement |-> [i \in DOMAIN heads |-> Movement(heads[i], Ordinary(i), Compact(i))],
      mastheadHeight |-> IF last = 0 THEN 0 ELSE Top(last) + NaturalHeight(Size(heads[last])),
      albumDisplacement |-> IF last = 0 THEN 0 ELSE Compact(last).y - top[last]]

-----------------------------------------------------------------------------
(* identity: two labels with their names, each in its share of the row.    *)

Phrase(x, name, budget, row, size, label) ==
  LET labelled == Fraction(LabelWidth, label, 100)
      room == Greatest(1, Minus(budget, labelled + row.labelGap))
  IN [x |-> x, right |-> x + labelled + row.labelGap + Least(room, Fraction(name, size, 100))]

Identity(names, row, size, label) ==
  LET output == Phrase(0, names.output, row.output, row, size, label)
  IN IF names.zone = 0 THEN <<output>>
     ELSE <<output, Phrase(output.right + 2 * row.gap + row.separator, names.zone, row.zone, row, size, label)>>

-----------------------------------------------------------------------------
(* The reel of lyrics: its place, and as many cues around the current one  *)
(* as fill it twice in each direction.                                     *)

\* mutant: every blank cue is a row
EachIsRow(lyrics, i) == TRUE

IsRow(lyrics, i) == \/ lyrics.timeline[i] # 0 \/ i = lyrics.current
                    \/ i > 1 /\ lyrics.timeline[i - 1] # 0

Reel(lyrics, v, region, budget, mastheadHeight) ==
  LET type == Typography(v)
      margin == Fraction(type.cue, 52, 100)
      upper == mastheadHeight + margin
      primary == Minus(budget, upper) \div 3
      progressHeight == ProgressHeight(v) + NaturalHeight(type.time)
      footerTop == Anchors(v).footer - TimingHeight(v) - FooterGap(v) - NaturalHeight(type.identity)
      top == region.top + upper
      bottom == footerTop + (TimingHeight(v) - progressHeight) \div 2 - margin
      height == Greatest(bottom - top, 1)
      fade == Least(Fraction(type.spacing, 65, 100), height \div 4)
      available == Greatest(height - primary - fade, 1)
      gap == Fraction(type.spacing, 42, 100)
      Height(i) == Least(available, Fraction(type.cue * 13, Greatest(lyrics.timeline[i], 1) * 104, 1000))
      Further(around, i) ==
        IF around.distance >= 2 * height THEN around
        ELSE [cues |-> around.cues \cup {i},
              distance |-> around.distance + IF IsRow(lyrics, i) THEN Height(i) + gap ELSE 0]
      Around(indexes) == FoldLeft(Further, [cues |-> {}, distance |-> 0], indexes).cues
      after == [n \in 1 .. Len(lyrics.timeline) - lyrics.current + 1 |-> lyrics.current + n - 1]
      before == [n \in 1 .. lyrics.current - 1 |-> lyrics.current - n]
  IN [top |-> top, bottom |-> bottom, primary |-> primary, gap |-> gap,
      cues |-> [i \in Around(after) \cup Around(before) |-> Height(i)]]

-----------------------------------------------------------------------------
(* now_playing and full_field                                              *)

NowPlayingContent(p, v, plan) ==
  LET region == MetadataRegion(v, p.timing)
      metadata == Metadata(p.metadata, v, region, MetadataGroupOffset(v, p.timing, plan.height), plan)
      Row(progress) == Identity(p.names, Composition(v, progress).identity, Typography(v).identity,
                                Fraction(Typography(v).identity, 885, 1000))
  IN [metadata |-> metadata, identities |-> <<Row(0), Row(100)>>, activity |-> p.timing = "activity",
      reel |-> IF p.lyrics = <<>> THEN <<>> ELSE Reel(p.lyrics, v, region, HeightBudget(v, p.timing), metadata.mastheadHeight)]

FullFieldContent(p, v) ==
  LET layout == FullField(v)
      label == Fraction(layout.identity, 84, 100)
      gap == (layout.identityGap + 1) \div 2
      separator == Least(10, Greatest(4, (5 * layout.identity + 25) \div 26))
      half == Minus(layout.identityWidth, separator + 2 * gap) \div 2
      row == [gap |-> gap, separator |-> separator, labelGap |-> label \div 2,
              output |-> IF p.names.zone = 0 THEN layout.identityWidth ELSE half, zone |-> half]
  IN [heading |-> FittingFont(p.heading, layout.font.heading, layout.width),
      explanation |-> IF p.explanation = 0 THEN 0 ELSE FittingFont(p.explanation, layout.font.explanation, layout.width),
      identity |-> IF p.names.output = 0 THEN <<>> ELSE Identity(p.names, row, layout.identity, label)]

=============================================================================
