------------------------------- MODULE Panes -------------------------------
(* How the panes of the client (crates/pi-oven-ui) share the columns of the   *)
(* window, and how the strips among them, of one line each, are cut to what   *)
(* they get. A text is its width in characters, a span of a line likewise.    *)
EXTENDS Naturals, Sequences, SequencesExt, FiniteSetsExt

-----------------------------------------------------------------------------
(* The layout: a sidebar on the left, the other panes one above the other.    *)

Sidebar == 28
RightWidth(columns) == IF columns > Sidebar THEN columns - Sidebar ELSE 0
\* Inside the borders of the tab strip, or of the input line.
InnerWidth(columns) == IF RightWidth(columns) > 2 THEN RightWidth(columns) - 2 ELSE 0

\* AppState::default: the placeholders that the strips show, two spans to a cell.
Tabs == <<<<11, 12>>, <<11, 16>>, <<11, 17>>, <<11, 11>>>>
Legend == <<<<5, 5>>, <<5, 5>>, <<5, 4>>, <<5, 6>>, <<7, 10>>>>
Title == 45
Status == 49

-----------------------------------------------------------------------------
(* The strips                                                                 *)

Width(spans) == FoldLeft(+, 0, spans)

\* The spans of the first k cells, with one of width sep between each two.
Spans(cells, k, sep) ==
  FlattenSeq([i \in 1..k |-> (IF i = 1 THEN <<>> ELSE <<sep>>) \o cells[i]])

\* How many whole cells fit.
Whole(cells, sep, w) == Max({k \in 0..Len(cells) : Width(Spans(cells, k, sep)) <= w})

\* A line that is cut ends in a mark, for which spans are taken off again; alone, the
\* mark is one wide.
Marked_NoRoom(spans, mark, w) == Append(spans, mark)
Marked(spans, mark, w) ==
  LET n == Max({n \in 0..Len(spans) : n = 0 \/ Width(SubSeq(spans, 1, n)) + mark <= w})
  IN Append(SubSeq(spans, 1, n), IF n = 0 THEN 1 ELSE mark)

Strip(cells, sep, mark, w) ==
  LET k == Whole(cells, sep, w)
      spans == Spans(cells, k, sep)
  IN IF k = Len(cells) THEN spans ELSE Marked(spans, mark, w)

TabsLine(w) == Strip(Tabs, 3, 2, w)
LegendLine(w) == Strip(Legend, 2, 3, w)

\* truncate_to_width: the characters kept, and the mark.
Truncated(n, w) == IF n <= w THEN <<n>> ELSE <<w - 1, 1>>

HeaderLine(w) == Truncated(Title, w)
StatusLine(w) == Truncated(Status, w)

-----------------------------------------------------------------------------
(* Properties                                                                 *)

\* The spans fit the width, and are the whole line exactly when that fits.
Fits(spans, all, w) == Width(spans) <= w /\ (spans = all <=> Width(all) <= w)

StripsFitIn(columns) ==
  /\ Fits(TabsLine(InnerWidth(columns)), Spans(Tabs, Len(Tabs), 3), InnerWidth(columns))
  /\ Fits(LegendLine(RightWidth(columns)), Spans(Legend, Len(Legend), 2), RightWidth(columns))
  /\ Fits(HeaderLine(RightWidth(columns)), <<Title>>, RightWidth(columns))
  /\ Fits(StatusLine(RightWidth(columns)), <<Status>>, RightWidth(columns))
=============================================================================
