----------------------------- MODULE InputLine -----------------------------
(* The input line on the screen of the window build: the row of cells that    *)
(* render_input (crates/pi-oven-ui/src/input.rs) draws, which of them         *)
(* ratatui hands on to the grid, and what the painter                         *)
(* (crates/pi-oven-render/src/paint.rs) makes of the grid's row: the ink of   *)
(* its text and the ground behind it, column by column.                       *)
EXTENDS Keys, Panes

CONSTANT Cols        \* widths that the window takes, in columns

ASSUME InputLineAssumption == (\A c \in Cols : c \in Nat /\ c >= Sidebar + 4) /\ Blank # {}

VARIABLES
  cols,   \* the window's width
  prev,   \* the line as ratatui drew it last
  row     \* the line in the grid

lineVars == <<cols, prev, row>>

Inner == InnerWidth(cols)
Space == CHOOSE c \in Blank : TRUE
Empty == [symbol |-> Space, reversed |-> FALSE]   \* Cell::default

LineInit ==
  /\ Init /\ FrontInit
  /\ cols \in Cols
  /\ prev = [x \in 1..Inner |-> Empty] /\ row = prev

-----------------------------------------------------------------------------
(* The widget                                                                 *)

\* The characters of the line, of which the selection is reversed or, when there is
\* none and the cursor shows, the one at the cursor; at the end that is a space.
Highlit(k, on) ==
  IF anchor # None THEN Before(buf, Start) < k /\ k <= Before(buf, End)
                   ELSE on /\ k = Before(buf, cursor) + 1

Glyphs(on) ==
  <<[symbol |-> ">", reversed |-> FALSE], Empty>>
  \o [k \in 1..Len(buf) |-> [symbol |-> buf[k], reversed |-> Highlit(k, on)]]
  \o IF anchor = None /\ on /\ cursor = Bytes(buf)
     THEN <<[symbol |-> Space, reversed |-> TRUE]>> ELSE <<>>

\* The columns of the first k characters of the line, and of a glyph.
Columns(k) == k + Count(SubSeq(buf, 1, k), Double)
WidthOf(glyph) == IF glyph.symbol \in Double THEN 2 ELSE 1

\* Paragraph: what goes past the end is cut off; the second half of a wide character
\* stays an empty cell. Two columns are the prompt's.
Frame(on) ==
  LET glyphs == Glyphs(on)
      From(n) == IF n <= 2 THEN n ELSE 3 + Columns(n - 3)
      Shown(x) == {n \in DOMAIN glyphs : From(n) = x /\ x + WidthOf(glyphs[n]) <= Inner + 1}
  IN [x \in 1..Inner |-> IF Shown(x) = {} THEN Empty ELSE glyphs[Max(Shown(x))]]

-----------------------------------------------------------------------------
(* From frame to grid                                                         *)

\* A wide character at x - 1.
Hides(line, x) == x > 1 /\ WidthOf(line[x - 1]) = 2

\* Buffer::diff: the columns that changed or that a wide character touched, except
\* those that one hides.
Diff(was, is) ==
  {x \in DOMAIN is : (is[x] # was[x] \/ Hides(was, x)) /\ ~Hides(is, x)}

\* Backend::draw and Grid::set.
Written(line, is, changed) == [x \in DOMAIN line |-> IF x \in changed THEN is[x] ELSE line[x]]

Redrawn(on) == Written(row, Frame(on), Diff(prev, Frame(on)))

-----------------------------------------------------------------------------
(* From grid to screen                                                        *)

\* collect_row_runs: the runs of neighbouring cells out of S, from the first to after
\* the last.
Runs(line, S) == {run \in S \X (2..Len(line) + 1) :
  run[1] - 1 \notin S /\ run[1] < run[2] /\ run[2] \notin S /\ run[1]..(run[2] - 1) \subseteq S}

\* build_fill_rects: a reversed cell of no colour of its own gets a white ground.
White(line) ==
  UNION {run[1]..(run[2] - 1) : run \in Runs(line, {x \in DOMAIN line : line[x].reversed})}

\* build_row_spans and state_to_attrs: a span of text for each run of cells of one style;
\* that of reversed cells has the colour that the ground has elsewhere. The row's text is
\* set from the left, so beyond a wide character its columns are the font's affair.
InkOf(cell) == IF cell.reversed THEN "dark" ELSE "white"

-----------------------------------------------------------------------------
(* Steps                                                                      *)

\* render_input slices the text at both ends of the selection.
Sliceable == anchor # None => Slices(Start, End)

\* A key, the blinking of the cursor or a message asks for one, and many at once may
\* get one.
Redraw(on) ==
  /\ Running /\ front = "window" /\ Sliceable
  /\ prev' = Frame(on) /\ row' = Redrawn(on)
  /\ UNCHANGED <<cols, vars, frontVars>>

RedrawPanics == Running /\ ~Sliceable /\ Panic /\ UNCHANGED <<lineVars, frontVars>>

\* rebuild_terminal, for another size of the window or the font: both sides start over.
Rebuild_PrevKept ==
  /\ Running /\ front = "window"
  /\ row' = [x \in 1..Inner |-> Empty]
  /\ UNCHANGED <<cols, prev, vars, frontVars>>
Rebuild ==
  /\ Running /\ front = "window"
  /\ cols' \in Cols
  /\ row' = [x \in 1..InnerWidth(cols') |-> Empty] /\ prev' = row'
  /\ UNCHANGED <<vars, frontVars>>

LineNext ==
  \/ KeyPressed /\ UNCHANGED lineVars
  \/ FrontSteps /\ UNCHANGED <<vars, lineVars>>
  \/ \E on \in BOOLEAN : Redraw(on)
  \/ RedrawPanics \/ Rebuild

LineSpec == LineInit /\ [][LineNext]_<<vars, frontVars, lineVars>>

-----------------------------------------------------------------------------
(* Properties                                                                 *)

\* Whatever was typed, deleted, selected and rebuilt between two redraws, the next one
\* shows the line: each character that fits stands in its cell of the grid, in another
\* colour than the ground, which is white exactly if it is selected or at the cursor; and
\* after the last one nothing is left of a longer line.
LineShown ==
  Running /\ Sliceable =>
    \A on \in BOOLEAN :
      LET line == Redrawn(on)
          white == White(line)
          Shows(x, c, lit) ==
            /\ line[x].symbol = c
            /\ x \in white <=> lit
            /\ InkOf(line[x]) # IF x \in white THEN "white" ELSE "dark"
          end == 3 + Columns(Len(buf))
      IN /\ \A k \in 1..Len(buf) :
              2 + Columns(k) <= Inner => Shows(3 + Columns(k - 1), buf[k], Highlit(k, on))
         /\ \A x \in end..Inner : Shows(x, Space, x = end /\ Highlit(Len(buf) + 1, on))

\* Up to widths at which all of them are whole.
Fitting == {c \in Cols : \A more \in 0..110 : StripsFitIn(c + more)}

\* However much wider the window is made, no strip in it is longer than its pane, whose
\* end the mark would then be cut off with, nor cut where it had room: each ends in the
\* mark or is whole.
StripsFit == cols \in Fitting
=============================================================================
