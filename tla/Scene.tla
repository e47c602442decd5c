------------------------------- MODULE Scene -------------------------------
(***************************************************************************)
(* Where a prepared presentation is drawn while the composition travels     *)
(* between the one without lyrics and the one with them                     *)
(* (src/renderer/src/scene.rs, PreparedPresentation::graphic). Amounts and  *)
(* opacities are percentages.                                               *)
(***************************************************************************)
EXTENDS PreparedContent

MotionPhase(value, start, duration) ==
  LET t == Least(100, Greatest(0, (100 * (value - start)) \div duration))
  IN (t * t * (300 - 2 * t)) \div 10000

CompositionGeometry(progress) == MotionPhase(progress, 12, 72)

Mixed(a, b, amount) == a + ((b - a) * amount) \div 100

-----------------------------------------------------------------------------
(* PreparedPresentation::graphic: the artwork and the plate behind it.     *)

ArtworkBounds(v, image, amount) ==
  LET size == Composition(v, amount).artwork
      footprint == Footprint(image, size, BorderWidth(v))
      left == OuterGutter(v) + (size - footprint.width) \div 2
      top == (v.height - footprint.height) \div 2
  IN [left |-> left, top |-> top, right |-> left + footprint.width, bottom |-> top + footprint.height]

-----------------------------------------------------------------------------
(* moving_words: a sprite is [occ, x, y, size, alpha], its size in         *)
(* hundredths of a pixel.                                                  *)

Horizontal(amount) == 100 - ((100 - amount) * (100 - amount) * (100 - amount)) \div 10000

MovingSize(movement, v, amount) ==
  LET extent == Mixed(movement.extents[1], movement.extents[2], Horizontal(amount))
  IN Least(100 * movement.ordinary.size + (movement.compact.size - movement.ordinary.size) * Horizontal(amount),
           (100000 * (Composition(v, amount).musical + 2)) \div Greatest(extent, 1000))

MovingWord(word, movement, v, amount) ==
  LET horizontal == Horizontal(amount)
      visibility == MotionPhase(horizontal, 35, 45)
      size == MovingSize(movement, v, amount)
      disappearing == IF word.visible = <<TRUE, FALSE>> THEN horizontal
                      ELSE IF word.visible = <<FALSE, TRUE>> THEN 100 - horizontal ELSE 0
      spread == (disappearing * (100 - MotionPhase(disappearing, 80, 20))) \div 100
      Spread(distance) == (((distance * size) \div 100000) * spread) \div 100
  IN [occ |-> word.occ, size |-> size,
      x |-> Composition(v, amount).left
            + (Mixed(word.source.x, word.destination.x, horizontal) * size) \div 100000 + Spread(word.spread.x),
      y |-> Mixed(word.source.y, word.destination.y, amount) + Spread(word.spread.y),
      alpha |-> IF word.visible = <<TRUE, TRUE>> THEN 100
                ELSE IF word.visible[1] THEN 100 - visibility ELSE visibility]

MovingWords(movement, v, amount) ==
  {word \in {MovingWord(path, movement, v, amount) : path \in movement.paths} : word.alpha > 0}

(* A text at rest is drawn as it was shaped.                               *)
StillWords(endpoint, v, amount) ==
  {[occ |-> word.occ, size |-> 100 * endpoint.size, x |-> Composition(v, amount).left + word.x,
    y |-> endpoint.y + word.y, alpha |-> 100] : word \in endpoint.words}

DrawnWords(movement, v, amount) ==
  IF amount = 0 THEN StillWords(movement.ordinary, v, 0)
  ELSE IF amount = 100 THEN StillWords(movement.compact, v, 100)
  ELSE MovingWords(movement, v, amount)

Album(content, v, progress) ==
  LET albums == SelectSeq(content.metadata.ordinary, LAMBDA text : text.role = "album")
      amount == CompositionGeometry(progress)
      alpha == IF amount = 100 THEN 0 ELSE 100 - MotionPhase(progress, 12, 35)
      moved == (content.metadata.albumDisplacement * amount) \div 100
  IN IF albums = <<>> \/ alpha = 0 THEN {}
     ELSE {[top |-> albums[1].top + moved, bottom |-> albums[1].bottom + moved, alpha |-> alpha]}

-----------------------------------------------------------------------------
(* now_playing: the roles of the rail, from top to bottom.                 *)

MetadataBottom(content, v, progress) ==
  LET amount == CompositionGeometry(progress)
      Bottoms(movement) == {word.y + (13 * word.size) \div 1000 : word \in DrawnWords(movement, v, amount)}
  IN Max({0} \cup {album.bottom : album \in Album(content, v, progress)}
         \cup UNION {Bottoms(content.metadata.movement[i]) : i \in DOMAIN content.metadata.movement})

(* The lyrics rise from below, and never above what is left of the names.  *)
ReelSlot(content, v, progress) ==
  LET amount == CompositionGeometry(progress)
      reel == content.reel
      travel == ((100 - amount) * (reel.bottom - reel.top + 2 * Typography(v).cue)) \div 100
      clearance == Greatest(0, reel.top - MetadataBottom(content, v, 100))
  IN [top |-> Greatest(reel.top + travel, MetadataBottom(content, v, progress) + clearance),
      bottom |-> reel.bottom]

Footer(v) ==
  LET identity == Anchors(v).footer - NaturalHeight(Typography(v).identity)
      timing == identity - FooterGap(v) - TimingHeight(v)
  IN [timing |-> [top |-> timing, bottom |-> timing + TimingHeight(v)],
      identity |-> [top |-> identity, bottom |-> Anchors(v).footer]]

IdentityAt(content, amount) ==
  LET rest == content.identities
  IN [i \in DOMAIN rest[1] |-> [x |-> Mixed(rest[1][i].x, rest[2][i].x, amount),
                                right |-> Mixed(rest[1][i].x, rest[2][i].x, amount)
                                          + (IF amount >= 50 THEN rest[2][i].right - rest[2][i].x
                                             ELSE rest[1][i].right - rest[1][i].x)]]

=============================================================================
