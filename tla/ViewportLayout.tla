--------------------------- MODULE ViewportLayout ---------------------------
(***************************************************************************)
(* The geometry of a presentation for a viewport, in whole pixels           *)
(* (src/renderer/src/layout.rs). A viewport is [width, height]. A ratio of  *)
(* the code is a number of millionths here and rounded exactly, where the   *)
(* code rounds a product of floating-point numbers; a product that ends in  *)
(* exactly half a pixel may come out one pixel smaller in the code.         *)
(***************************************************************************)
EXTENDS Integers

Least(a, b) == IF a <= b THEN a ELSE b
Greatest(a, b) == IF a <= b THEN b ELSE a

(* saturating_sub                                                          *)
Minus(a, b) == Greatest(a - b, 0)

Fraction(value, numerator, denominator) ==
  (2 * value * numerator + denominator) \div (2 * denominator)

Scaled(axis, millionths, minimum, maximum) ==
  Least(maximum, Greatest(minimum, Fraction(axis, millionths, 1000000)))

(* Progress is a percentage.                                               *)
Interpolated(from, to, progress) == Fraction(100 * from + (to - from) * progress, 1, 100)

-----------------------------------------------------------------------------
(* Inactivity: the content shrinks by the envelope of its movement and     *)
(* moves inside. "None" stands for the transform of an active display.     *)

HorizontalBound == 18
VerticalBound == 12

\* mutant: only the margin the offset uses is taken from the viewport
Inset(v, offset) ==
  [width |-> v.width - HorizontalBound - offset.x, height |-> v.height - VerticalBound - offset.y]

Reserved(v, offset) == [width |-> v.width - 2 * HorizontalBound, height |-> v.height - 2 * VerticalBound]

InactivityLayout(v, offset) ==
  IF offset = <<>> THEN [content |-> v, start |-> 0, end |-> 0, top |-> 0, bottom |-> 0]
  ELSE [content |-> Reserved(v, offset),
        start |-> HorizontalBound + offset.x, end |-> HorizontalBound - offset.x,
        top |-> VerticalBound + offset.y, bottom |-> VerticalBound - offset.y]

-----------------------------------------------------------------------------
(* The artwork: the largest image of its shape inside the border of the    *)
(* square reserved for it; without an image, a field of the whole square.  *)

ContainedWithin(image, room) ==
  IF image.width * room.height >= image.height * room.width
  THEN [width |-> room.width,
        height |-> Least(room.height, Greatest(1, Fraction(room.width, image.height, image.width)))]
  ELSE [width |-> Least(room.width, Greatest(1, Fraction(room.height, image.width, image.height))),
        height |-> room.height]

\* mutant: the image fills the whole square and its border lies outside
FootprintOutside(image, size, border) ==
  IF image = <<>> THEN [width |-> size, height |-> size]
  ELSE LET fitted == ContainedWithin(image, [width |-> size, height |-> size])
       IN [width |-> fitted.width + 2 * border, height |-> fitted.height + 2 * border]

Footprint(image, size, border) ==
  IF image = <<>> THEN [width |-> size, height |-> size]
  ELSE LET inside == size - 2 * border
           fitted == ContainedWithin(image, [width |-> inside, height |-> inside])
       IN [width |-> fitted.width + 2 * border, height |-> fitted.height + 2 * border]

-----------------------------------------------------------------------------
(* Now Playing, as far as it depends on the viewport alone.                *)

OuterGutter(v) == Scaled(v.width, 42500, 32, 160)
ColumnGap(v) == Scaled(v.width, 42000, 40, 192)
ContentWidth(v) == Minus(Minus(v.width, 2 * OuterGutter(v)), ColumnGap(v))
ArtworkSize(v) == Least(Fraction(v.height, 84, 100), Fraction(v.width, 56, 100))
LyricArtworkSize(v) == Least(Fraction(v.height, 68, 100), Fraction(v.width, 42, 100))
LyricWidth(v) == Minus(ContentWidth(v), LyricArtworkSize(v))
BorderWidth(v) == Scaled(v.height, 900, 1, 2)
PlateOffset(v) == [x |-> Scaled(v.height, 11000, 8, 28), y |-> Scaled(v.height, 7400, 6, 18)]
ShadowReach(v) == Scaled(v.height, 13000, 10, 31) + Scaled(v.height, 2800, 2, 7)

Sizes(preferred, reduced, minimum) == [preferred |-> preferred, reduced |-> reduced, minimum |-> minimum]

Typography(v) ==
  [title |-> Sizes(Scaled(v.height, 81500, 88, 180),
                   Least(Scaled(v.height, 70000, 68, 154), Scaled(v.width, 40000, 68, 154)),
                   Least(Scaled(v.height, 58000, 54, 128), Scaled(v.width, 34000, 54, 128))),
   artist |-> Sizes(Scaled(v.height, 32000, 26, 68), Scaled(v.height, 26000, 22, 56), Scaled(v.height, 22000, 20, 48)),
   album |-> Sizes(Scaled(v.height, 26000, 22, 56), Scaled(v.height, 22000, 19, 48), Scaled(v.height, 19000, 18, 42)),
   time |-> Scaled(v.height, 25900, 22, 56),
   heading |-> Scaled(v.height, 25900, 22, 56),
   detail |-> Scaled(v.height, 25900, 21, 56),
   identity |-> Least(Scaled(v.height, 24100, 22, 52), Scaled(v.width, 14000, 22, 52)),
   mastheadTitle |-> Scaled(v.height, 25000, 20, 48),
   mastheadArtist |-> Scaled(v.height, 18000, 16, 36),
   cue |-> Least(118, Greatest(42, Fraction(v.height, 96, 2160))),
   spacing |-> Scaled(v.height, 24000, 19, 48)]

Fitting(v) ==
  [normalCreditGap |-> Scaled(v.height, 18500, 22, 40),
   compactCreditGap |-> Scaled(v.height, 14000, 14, 28),
   normalAlbumGap |-> Fraction(Typography(v).album.preferred, 38, 100),
   compactAlbumGap |-> Fraction(Typography(v).album.minimum, 38, 100)]

OpticalCorrection(v) == Scaled(v.height, 4000, 3, 10)

StatusLayout(v) ==
  LET font == Scaled(v.height, 26850, 22, 58)
  IN [font |-> font, symbol |-> Fraction(font, 142, 100), gap |-> Fraction(font, 42, 100)]

(* The rail is anchored to the square reserved for artwork, as large as it *)
(* is without lyrics; the footer is raised from its lower end.             *)
Anchors(v) ==
  LET top == Minus(v.height, ArtworkSize(v)) \div 2
      inset == Fraction(v.height, 13, 1000)
  IN [top |-> top, bottom |-> top + ArtworkSize(v), status |-> top + inset,
      footer |-> Minus(top + ArtworkSize(v) - inset, Fraction(v.height, 48, 1000))]

(* The footer has room for the tallest of what may stand in it, whatever   *)
(* stands in it now: progress and its times, a waveform, or two lines.     *)
ProgressHeight(v) == Scaled(v.width, 3125, 4, 12) + Fraction(Typography(v).time, 58, 100)
ActivityHeight(v) == Fraction(Typography(v).heading, 5, 4) + Fraction(Typography(v).detail, 5, 4)
TimingHeight(v) ==
  Greatest(ProgressHeight(v) + Fraction(Typography(v).time, 5, 4),
           Greatest(Scaled(v.height, 65000, 46, 96), ActivityHeight(v)))
FooterGap(v) == Scaled(v.height, 18500, 18, 40)

\* mutant: a footer without timing is lower
FooterHeightInUse(v, timing) ==
  (IF timing = "none" THEN 0 ELSE TimingHeight(v)) + FooterGap(v) + Fraction(Typography(v).identity, 5, 4)

FooterHeight(v, timing) == TimingHeight(v) + FooterGap(v) + Fraction(Typography(v).identity, 5, 4)

MetadataRegion(v, timing) ==
  [top |-> Anchors(v).status + StatusLayout(v).symbol,
   bottom |-> Minus(Anchors(v).footer, FooterHeight(v, timing))]

HeightBudget(v, timing) ==
  Minus(Minus(Minus(MetadataRegion(v, timing).bottom, MetadataRegion(v, timing).top),
              2 * StatusLayout(v).font), 2 * OpticalCorrection(v))

MetadataGroupOffset(v, timing, height) ==
  Minus(Minus(Minus(MetadataRegion(v, timing).bottom, MetadataRegion(v, timing).top), height) \div 2,
        OpticalCorrection(v))

-----------------------------------------------------------------------------
(* The composition: lyrics take room from the artwork.                     *)

IdentityRow(v, utility) ==
  LET size == Typography(v).identity
      gap == Fraction(size, 11, 10)
      separator == Least(10, Greatest(4, (5 * size + 25) \div 26))
      phrases == Minus(utility, 2 * gap + separator)
  IN [gap |-> gap, separator |-> separator, labelGap |-> Fraction(size, 42, 100),
      output |-> Fraction(phrases, 57, 100), zone |-> Minus(phrases, Fraction(phrases, 57, 100))]

Rail(v, artwork) == OuterGutter(v) + artwork + ColumnGap(v)

\* mutant: the rail keeps its width while the artwork grows
CompositionWide(v, progress) ==
  LET artwork == Interpolated(ArtworkSize(v), LyricArtworkSize(v), progress)
  IN [artwork |-> artwork, left |-> Rail(v, artwork), utility |-> LyricWidth(v), musical |-> LyricWidth(v),
      identity |-> IdentityRow(v, LyricWidth(v))]

Composition(v, progress) ==
  LET artwork == Interpolated(ArtworkSize(v), LyricArtworkSize(v), progress)
      ordinary == ContentWidth(v) - ArtworkSize(v)
      utility == Interpolated(ordinary, LyricWidth(v), progress)
  IN [artwork |-> artwork, left |-> Rail(v, artwork), utility |-> utility,
      musical |-> Interpolated(Least(ordinary, Fraction(v.height, 72, 100)), LyricWidth(v), progress),
      identity |-> IdentityRow(v, utility)]

-----------------------------------------------------------------------------
(* A Full-field presentation: a status, a heading in the middle and an     *)
(* explanation under it, and the identities in the lower right corner.     *)

\* mutant: the copy keeps its size
FontUnfitted(copy, preferred, width) == preferred

(* The largest size at which the copy fits in the width.                   *)
FittingFont(copy, preferred, width) ==
  LET fitting == {size \in 1..preferred : Fraction(copy, size, 100) <= width}
  IN IF fitting = {} THEN 1 ELSE CHOOSE size \in fitting : \A other \in fitting : other <= size

\* The grid of Full-field presentations is not that of Now Playing.
FullFieldGutter(v) == Scaled(v.width, 42000, 32, 160)

FullField(v) ==
  LET heading == Scaled(v.width, 50000, 51, 160)
      explanation == Scaled(v.width, 13500, 16, 48)
      accent == Scaled(v.width, 3800, 5, 15)
      padding == Scaled(v.width, 40000, 32, 144)
      width == Fraction(v.width, 3, 5)
      left == Minus(v.width, width) \div 2
      headingHeight == Fraction(heading, 5, 4)
      headingTop == Minus(v.height, headingHeight) \div 2
      symbol == Scaled(v.width, 38500, 56, 96)
      columns == Minus(Minus(v.width, 2 * FullFieldGutter(v)), Scaled(v.width, 50000, 40, 192))
      inset == Scaled(v.width, 20000, 24, 77)
  IN [left |-> left, text |-> left + accent + padding, width |-> Minus(Minus(width, accent), padding),
      font |-> [heading |-> heading, explanation |-> explanation],
      status |-> [top |-> Minus(Minus(headingTop, Scaled(v.height, 36000, 29, 80)), symbol), height |-> symbol],
      heading |-> [top |-> headingTop, height |-> headingHeight],
      explanation |-> [top |-> headingTop + headingHeight + Fraction(explanation, 9, 10),
                       height |-> Fraction(explanation, 145, 100)],
      identityBottom |-> Anchors(v).bottom - Scaled(v.height, 18000, 16, 44),
      identityRight |-> v.width - FullFieldGutter(v) - inset,
      identityWidth |-> Minus(columns - Fraction(columns, 59, 100), inset),
      identity |-> Scaled(v.width, 12500, 20, 48),
      identityGap |-> Scaled(v.width, 18000, 19, 64)]

Bottom(slot) == slot.top + slot.height

AccentBottom(v, explained) == Bottom(IF explained THEN FullField(v).explanation ELSE FullField(v).heading)

=============================================================================
