-------------------------- MODULE MetadataFitting --------------------------
(***************************************************************************)
(* How title, artist and album are broken into lines and sized for the room *)
(* they have (src/renderer/src/metadata.rs). A text is the sequence of the  *)
(* widths of its words, in hundredths of the size of the font; <<>> is a    *)
(* text that is absent. A line is [from, to], the words it shows, an        *)
(* ellipsis after the last of them in the last line of an ellipsized text.  *)
(***************************************************************************)
EXTENDS ViewportLayout, FiniteSetsExt, SequencesExt

CONSTANTS SpaceWidth, EllipsisWidth \* in hundredths of the size of the font

Roles == <<"title", "artist", "album">>
MaximumLines == [title |-> 5, artist |-> 3, album |-> 3]

Words(line) == line.to - line.from + 1
Unbroken(words, line) == FoldSeq(+, 0, SubSeq(words, line.from, line.to)) + SpaceWidth * (Words(line) - 1)

-----------------------------------------------------------------------------
(* What Pango measures of words in one line, and the height of its lines.  *)

Measured(words, line, size) == Fraction(Unbroken(words, line), size, 100)
MeasuredWithEllipsis(words, line, size) ==
  Fraction((IF Words(line) = 0 THEN 0 ELSE Unbroken(words, line)) + EllipsisWidth, size, 100)
NaturalHeight(size) == Fraction(size, 13, 10)

-----------------------------------------------------------------------------
(* balanced_word_lines: the fewest lines that hold the words, and of those *)
(* the breaks that keep the lines closest to their average.                *)

(* The width of each line is the sum of what its words and spaces measure. *)
LineWidths(words, size) ==
  LET width == [i \in DOMAIN words |-> Fraction(words[i], size, 100)]
      space == Fraction(SpaceWidth, size, 100)
  IN [from \in DOMAIN words |->
        [to \in from..Len(words) |-> FoldSeq(+, 0, SubSeq(width, from, to)) + space * (to - from)]]

Whole(words) == [from |-> 1, to |-> Len(words)]

Shortfall(widths, line, lines) ==
  LET target == (widths[1][Len(widths)] + lines - 1) \div lines
      width == widths[line.from][line.to]
  IN (target - width) * (target - width)

\* mutant: every line takes the words that fit
GreedyBreaks(widths, lines, available) ==
  LET Longer(ends, i) ==
        LET fitting == {to \in Last(ends) + 1 .. Len(widths) - (lines - i) :
                          widths[Last(ends) + 1][to] <= available}
        IN Append(ends, IF fitting = {} THEN Len(widths) ELSE Max(fitting))
      ends == FoldLeft(Longer, <<0>>, [i \in 1..lines |-> i])
      broken == [i \in 1..lines |-> [from |-> ends[i] + 1, to |-> ends[i + 1]]]
  IN IF /\ Last(ends) = Len(widths)
        /\ \A i \in 1..lines : broken[i].from <= broken[i].to /\ widths[broken[i].from][broken[i].to] <= available
     THEN broken ELSE <<>>

(* The best way to end the i-th line after each word, line after line; of  *)
(* equally good ways the first found.                                      *)
BalancedBreaks(widths, lines, available) ==
  LET Better(way, other) == \/ way.score < other.score
                            \/ way.score = other.score /\ Last(way.lines).from < Last(other.lines).from
      Ways(best, i) ==
        {[end |-> pair[2], score |-> pair[1].score + Shortfall(widths, [from |-> pair[1].end + 1, to |-> pair[2]], lines),
          lines |-> Append(pair[1].lines, [from |-> pair[1].end + 1, to |-> pair[2]])]
           : pair \in {pair \in best \X (i .. Len(widths) - (lines - i)) :
                               pair[1].end < pair[2] /\ widths[pair[1].end + 1][pair[2]] <= available}}
      Further(best, i) == LET ways == Ways(best, i)
                          IN {way \in ways : ~\E other \in ways : other.end = way.end /\ Better(other, way)}
      best == FoldLeft(Further, {[end |-> 0, score |-> 0, lines |-> <<>>]}, [i \in 1..lines |-> i])
      complete == {way \in best : way.end = Len(widths)}
  IN IF complete = {} THEN <<>> ELSE (CHOOSE way \in complete : TRUE).lines

BalancedWordLines(words, maximum, available, size) ==
  LET widths == LineWidths(words, size)
      broken == [n \in 1..Least(maximum, Len(words)) |-> BalancedBreaks(widths, n, available)]
      fitting == SelectSeq(broken, LAMBDA lines : lines # <<>>)
  IN IF fitting = <<>> THEN <<>> ELSE Head(fitting)

-----------------------------------------------------------------------------
(* truncated_word_lines: as many words as fit, at least one, in every line *)
(* but the last, which ends with an ellipsis and may show no word.         *)

\* mutant: an ellipsis follows the word that did not fit with it
EllipsizedLater(words, from, available, size) ==
  LET tooWide == {to \in from..Len(words) : MeasuredWithEllipsis(words, [from |-> from, to |-> to], size) > available}
  IN [from |-> from, to |-> IF tooWide = {} THEN Len(words) ELSE Min(tooWide)]

EllipsizedLine(words, from, available, size) ==
  LET tooWide == {to \in from..Len(words) : MeasuredWithEllipsis(words, [from |-> from, to |-> to], size) > available}
  IN [from |-> from, to |-> IF tooWide = {} THEN Len(words) ELSE Min(tooWide) - 1]

TruncatedWordLines(words, maximum, available, size) ==
  LET lines == Least(Greatest(maximum, 1), Len(words))
      Filled(ends, i) ==
        LET tooWide == {to \in Last(ends) + 2 .. Len(words) - (lines - i) :
                          Measured(words, [from |-> Last(ends) + 1, to |-> to], size) > available}
        IN Append(ends, IF tooWide = {} THEN Len(words) - (lines - i) ELSE Min(tooWide) - 1)
      ends == FoldLeft(Filled, <<0>>, [i \in 1..lines - 1 |-> i])
  IN [i \in 1..lines |-> IF i = lines THEN EllipsizedLine(words, ends[i] + 1, available, size)
                         ELSE [from |-> ends[i] + 1, to |-> ends[i + 1]]]

-----------------------------------------------------------------------------
(* One text at one size, and the group of those that are present.          *)

LineHeightPercent(role, sizes, size) ==
  IF role = "title" THEN (IF size = sizes.preferred THEN 94 ELSE IF size = sizes.reduced THEN 96 ELSE 98)
  ELSE IF size = sizes.preferred THEN 125 ELSE 118

RenderedHeight(lines, height, percent) == height + (height * percent * (lines - 1) + 99) \div 100

PlanAtSize(role, words, sizes, available, size, maximum, ellipsize) ==
  LET balanced == BalancedWordLines(words, maximum, available, size)
      lines == IF Measured(words, Whole(words), size) <= available THEN <<Whole(words)>>
               ELSE IF balanced # <<>> \/ ~ellipsize THEN balanced
               ELSE TruncatedWordLines(words, maximum, available, size)
  IN [lines |-> lines, size |-> size,
      ellipsized |-> Measured(words, Whole(words), size) > available /\ balanced = <<>>,
      height |-> RenderedHeight(Len(lines), NaturalHeight(size), LineHeightPercent(role, sizes, size))]

Present(metadata) == {role \in DOMAIN metadata : metadata[role] # <<>>}

(* The plan of a group in so many lines; the title may be refused a size.  *)
GroupPlan(metadata, v, width, compact, titleSize, counts, ellipsizeTitle) ==
  LET Size(role) == IF role = "title" THEN titleSize
                    ELSE IF compact THEN Typography(v)[role].minimum ELSE Typography(v)[role].preferred
      plans == [role \in Present(metadata) |->
                  PlanAtSize(role, metadata[role], Typography(v)[role], width, Size(role), counts[role],
                             role # "title" \/ ellipsizeTitle)]
      fitting == Fitting(v)
      creditGap == IF compact THEN fitting.compactCreditGap ELSE fitting.normalCreditGap
      albumGap == IF compact THEN fitting.compactAlbumGap ELSE fitting.normalAlbumGap
      credits == Present(metadata) \ {"title"}
  IN [plans |-> plans, compact |-> compact, creditGap |-> creditGap, albumGap |-> albumGap,
      refused |-> \E role \in Present(metadata) : plans[role].lines = <<>>,
      height |-> FoldSet(LAMBDA role, sum : sum + plans[role].height, 0, Present(metadata))
                 + (IF "title" \in Present(metadata) /\ credits # {} THEN creditGap ELSE 0)
                 + (IF {"artist", "album"} \subseteq credits THEN albumGap ELSE 0)]

NormalDensity(metadata, v, width, size) ==
  GroupPlan(metadata, v, width, FALSE, size, MaximumLines, size = Typography(v).title.minimum)

LineCounts(metadata) ==
  {counts \in [DOMAIN MaximumLines -> 0..5] :
     \A role \in DOMAIN counts : counts[role] \in IF metadata[role] = <<>> THEN {0} ELSE 1..MaximumLines[role]}

(* More lines of the title before more of the artist, of it before album.  *)
Before(a, b) == \/ a.title > b.title
                \/ a.title = b.title /\ a.artist > b.artist
                \/ a.title = b.title /\ a.artist = b.artist /\ a.album >= b.album

CompactCredits(metadata, v, width, counts) ==
  GroupPlan(metadata, v, width, TRUE, Typography(v).title.minimum, counts, TRUE)

\* mutant: the first size at which the title fits
FirstTier(metadata, v, width, room) ==
  LET sizes == Typography(v).title
      tiers == SelectSeq(<<sizes.preferred, sizes.reduced, sizes.minimum>>,
                         LAMBDA size : ~NormalDensity(metadata, v, width, size).refused)
  IN NormalDensity(metadata, v, width, Head(tiers))

(* The first tier of the title whose group fits, else the fullest group of *)
(* compact credits that does, else one line of each.                       *)
FittingGroupPlan(metadata, v, width, room) ==
  LET sizes == Typography(v).title
      Fits(plan) == ~plan.refused /\ plan.height <= room
      tiers == SelectSeq(<<sizes.preferred, sizes.reduced, sizes.minimum>>,
                         LAMBDA size : Fits(NormalDensity(metadata, v, width, size)))
      compact == {counts \in LineCounts(metadata) : Fits(CompactCredits(metadata, v, width, counts))}
      Tried(set) == CHOOSE counts \in set : \A other \in set : Before(counts, other)
      smallest == CHOOSE counts \in LineCounts(metadata) : \A other \in LineCounts(metadata) : Before(other, counts)
  IN IF tiers # <<>> THEN NormalDensity(metadata, v, width, Head(tiers))
     ELSE CompactCredits(metadata, v, width, IF compact # {} THEN Tried(compact) ELSE smallest)

=============================================================================
