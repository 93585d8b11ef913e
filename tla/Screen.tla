------------------------------- MODULE Screen -------------------------------
(* What the client's window shows: the conversation pane                      *)
(* (crates/pi-oven-ui/src/conversation.rs), ratatui's diff into the grid      *)
(* (crates/pi-oven-render/src/backend.rs, grid.rs), the painter's cached rows *)
(* (paint.rs), and the window's events in crates/pi-oven/src/main.rs.         *)
(*                                                                            *)
(* An action is the handler of one event: all run on the window's thread. A   *)
(* row of the grid is what it holds, not its characters; widths, colours and  *)
(* the other panes are left out. Heights are counted in units of the line     *)
(* height of font size 1. Whether a frame can be had is up to the GPU.        *)
EXTENDS Naturals, Sequences, FiniteSets

CONSTANTS
  Chrome,       \* rows that are not the conversation's: strips, borders, the input line
  Heights,      \* heights a window may have; 0: minimised
  FontMin, FontMax, FontStep, FontDefault,
  OffsetLimit,  \* offsets are cut to 16 bits: 65536
  Page,         \* lines of a PageUp or PageDown: 10
  FoldAt,       \* lines shown of a tool's result: 10
  MaxActs,      \* bound: keys, events and resizes together
  MaxOffset     \* bound: the scroll offset

Fonts == FontMin..FontMax
AtMost(a, b) == IF a < b THEN a ELSE b
AtLeast(a, b) == IF a > b THEN a ELSE b
Less(a, b) == AtLeast(a, b) - b

\* grid_dimensions
RowsOf(h, f) == AtLeast(h \div f, 1)

\* In a window shorter than the strips ratatui squeezes them: not modelled.
ASSUME ScreenAssumption ==
  /\ Chrome \in Nat \ {0} /\ Heights \subseteq Nat /\ Heights # {} /\ 0 \notin Heights
  /\ FontMin \in Nat \ {0} /\ FontMax \in Nat /\ FontStep \in Nat \ {0}
  /\ FontDefault \in Fonts
  /\ \A h \in Heights, f \in Fonts : RowsOf(h, f) >= Chrome
  /\ OffsetLimit \in Nat \ {0} /\ Page \in Nat \ {0} /\ FoldAt \in Nat
  /\ MaxActs \in Nat /\ MaxOffset \in Nat

VARIABLES
  lines, tail,       \* the conversation's lines, as the characters appended to each; its last block
  follow, offset,    \* follow_mode, scroll_offset
  cursorOn,          \* cursor_visible
  font, unsaved,     \* font_size; font_save_pending
  saved,             \* font_size in client.toml; 0: no file
  surface, resizing, \* surface_config.height; last_resize is set
  grid,              \* the backend's grid, and what ratatui compares with
  glyphs, block,     \* row_buffers; rect_gpu_buf holds the cursor's block
  presented,         \* the frame on the screen shows glyphs and block as they are
  asked,             \* request_redraw has been called
  exit,              \* "no", or how the loop was left
  acts,
  lost               \* history: rows whose change was handed to a paint that had no frame

conversation == <<lines, tail>>
view == <<follow, offset>>
fonts == <<font, unsaved, saved>>
window == <<surface, resizing>>
painter == <<glyphs, block, presented, lost>>
vars == <<conversation, view, cursorOn, fonts, window, grid, painter, asked, exit, acts>>

Blank == <<"blank", 0, 0>>   \* a row of a new grid
Bare == <<"bare", 0, 0>>     \* drawn, with no line in it: the sidebar is in every row
Empty == <<"empty", 0, 0>>
Cursor(on) == <<IF on THEN "cursor" ELSE "prompt", 0, 0>>
Line(i) == <<"line", i, lines[i]>>

Row == {"blank", "bare", "empty", "cursor", "prompt", "line"} \X Nat \X Nat

TypeOK ==
  /\ lines \in Seq(Nat) /\ tail \in {"other", "empty", "text"}
  /\ follow \in BOOLEAN /\ offset \in Nat /\ cursorOn \in BOOLEAN
  /\ font \in Fonts /\ unsaved \in BOOLEAN /\ saved \in Nat
  /\ surface \in Heights /\ resizing \in BOOLEAN
  /\ Len(grid) >= Chrome /\ grid \in Seq(Row)
  /\ glyphs \in Seq(Row) /\ block \in BOOLEAN /\ presented \in BOOLEAN
  /\ asked \in BOOLEAN /\ exit \in {"no", "closed", "quit"} /\ acts \in 0..MaxActs
  /\ lost \subseteq DOMAIN grid

-----------------------------------------------------------------------------
(* Start                                                                      *)

\* load_font_size, clamped. A file without a size, or none, gives the default.
Load(s) == IF s = 0 THEN FontDefault ELSE AtLeast(FontMin, AtMost(s, FontMax))

\* Terminal::new, with a backend of the painter's dimensions.
RebuildTerminal(h, f) == grid' = [y \in 1..RowsOf(h, f) |-> Blank]

\* The caches are cleared and the terminal starts from a blank grid.
Relayout_GridKept(h, f) ==
  /\ glyphs' = <<>> /\ block' = FALSE /\ presented' = FALSE /\ lost' = {}
  /\ UNCHANGED grid
Relayout(h, f) ==
  /\ glyphs' = <<>> /\ block' = FALSE /\ presented' = FALSE /\ lost' = {}
  /\ RebuildTerminal(h, f)

Init ==
  /\ lines = <<>> /\ tail = "other" /\ follow = TRUE /\ offset = 0 /\ cursorOn = TRUE
  /\ saved \in {0, FontMax + 1} /\ font = Load(saved) /\ unsaved = FALSE
  /\ surface \in Heights /\ resizing = FALSE
  /\ grid = [y \in 1..RowsOf(surface, font) |-> Blank]
  /\ glyphs = <<>> /\ block = FALSE /\ presented = FALSE /\ lost = {}
  /\ asked = TRUE /\ exit = "no" /\ acts = 0

Act == exit = "no" /\ acts < MaxActs /\ acts' = acts + 1

-----------------------------------------------------------------------------
(* The conversation                                                           *)

Total == Len(lines)

\* A block other than the assistant's, of k lines.
Push(k) == lines' = lines \o [i \in 1..k |-> 0] /\ tail' = "other"

\* Deltas are merged into the last block if it is the assistant's. A text that ends
\* with a line break is shown with an empty line after it.
TextDelta(piece) ==
  \/ /\ piece = "nothing"
     /\ tail' = IF tail = "other" THEN "empty" ELSE tail
     /\ UNCHANGED lines
  \/ /\ piece = "character"
     /\ tail' = "text"
     /\ lines' = IF tail = "text" THEN [lines EXCEPT ![Total] = @ + 1] ELSE Append(lines, 1)
  \/ /\ piece = "break"
     /\ tail' = "text"
     /\ lines' = lines \o IF tail = "text" THEN <<0>> ELSE <<0, 0>>

Folded(n) == AtMost(n, FoldAt) + IF n > FoldAt THEN 1 ELSE 0

\* append_agent_event
AppendAgentEvent ==
  \/ \E piece \in {"nothing", "character", "break"} : TextDelta(piece)
  \/ Push(1)
  \/ \E n \in 0..(FoldAt + 2) : Push(Folded(n))

\* handle_net_messages, once a wake-up.
Receive ==
  /\ Act
  /\ AppendAgentEvent
  /\ asked' = TRUE
  /\ UNCHANGED <<view, cursorOn, fonts, window, grid, painter, exit>>

Changed == cursorOn' = TRUE /\ asked' = TRUE

\* Enter: the message's lines and an empty one, or nothing to send. (Of the other keys
\* of the editor as much is modelled.)
Enter ==
  /\ Act
  /\ Push(2) \/ UNCHANGED conversation
  /\ Changed
  /\ UNCHANGED <<view, fonts, window, grid, painter, exit>>

\* ArrowUp, PageUp: the offset counts from the top, so that this moves the view down.
ScrollUp(step) ==
  /\ Act
  /\ offset + step <= MaxOffset
  /\ offset' = offset + step /\ follow' = FALSE
  /\ Changed
  /\ UNCHANGED <<conversation, fonts, window, grid, painter, exit>>

\* ArrowDown, PageDown.
Scrolled_Below(step) == (offset + 1) - step
Scrolled(step) == Less(offset, step)

ScrollDown(step) ==
  /\ Act
  /\ offset' = Scrolled(step)
  /\ follow' = (follow \/ offset' = 0)
  /\ Changed
  /\ UNCHANGED <<conversation, fonts, window, grid, painter, exit>>

-----------------------------------------------------------------------------
(* Drawing and painting                                                       *)

\* In follow mode the last line is in the last row of the pane.
FollowTop_OneShort(v) == Less(Total, v + 1)
FollowTop(v) == Less(Total, v)

Offset == IF follow /\ Len(grid) > Chrome /\ Total > 0 THEN FollowTop(Len(grid) - Chrome) ELSE offset

\* Paragraph's scroll.
Top(o) == AtMost(o, Less(Total, 1)) % OffsetLimit

\* render: the pane, then the strips, the input line last.
Drawn(o) ==
  [y \in DOMAIN grid |->
     IF y = Len(grid) THEN Cursor(cursorOn)
     ELSE IF y > Len(grid) - Chrome THEN Bare
     ELSE IF Total = 0 THEN IF y = 1 THEN Empty ELSE Bare
     ELSE IF Top(o) + y <= Total THEN Line(Top(o) + y) ELSE Bare]

\* ratatui hands over the cells that changed, and take_dirty_rows empties the set.
Dirty == {y \in DOMAIN grid : Drawn(Offset)[y] # grid[y]}

\* row_buffers grow to the grid's rows, and only dirty ones are shaped again.
Shape ==
  /\ glyphs' = [y \in DOMAIN grid |->
                  IF y \in Dirty THEN Drawn(Offset)[y]
                  ELSE IF y \in DOMAIN glyphs THEN glyphs[y] ELSE Blank]
  /\ block' = IF Dirty # {} \/ ~block THEN cursorOn ELSE block
  /\ lost' = lost \ Dirty

Painted == Shape /\ presented' = TRUE

\* The surface is lost or outdated: paint returns before it looks at the rows.
NoFrame == lost' = lost \cup Dirty /\ UNCHANGED <<glyphs, block, presented>>

\* glyphon's prepare fails.
NotPresented == Shape /\ presented' = (presented /\ glyphs' = glyphs /\ block' = block)

Draw ==
  /\ exit = "no"
  /\ offset' = Offset /\ grid' = Drawn(Offset)
  /\ asked' = FALSE
  /\ UNCHANGED <<conversation, follow, cursorOn, fonts, window, exit, acts>>

\* redraw, when asked for and when the window system wants it.
Present == Draw /\ Painted
Redraw == Draw /\ (Painted \/ NoFrame \/ NotPresented)

-----------------------------------------------------------------------------
(* The window                                                                 *)

Blink ==
  /\ exit = "no"
  /\ cursorOn' = ~cursorOn /\ asked' = TRUE
  /\ UNCHANGED <<conversation, view, fonts, window, grid, painter, exit, acts>>

\* resize_surface_only; a minimised window keeps its surface.
Resized(h) ==
  /\ Act
  /\ surface' = IF h = 0 THEN surface ELSE h
  /\ resizing' = TRUE /\ asked' = TRUE
  /\ UNCHANGED <<conversation, view, cursorOn, fonts, grid, painter, exit>>

\* 50 ms after the last Resized.
ResizeSettles ==
  /\ exit = "no" /\ resizing
  /\ resizing' = FALSE /\ asked' = TRUE
  /\ Relayout(surface, font)
  /\ UNCHANGED <<conversation, view, cursorOn, fonts, surface, exit, acts>>

\* adjust_font_size
AdjustFontSize(f) ==
  /\ Act
  /\ f = AtMost(font + FontStep, FontMax) \/ f = AtLeast(Less(font, FontStep), FontMin)
  /\ f # font
  /\ font' = f /\ unsaved' = TRUE
  /\ Relayout(surface, f)
  /\ asked' = TRUE
  /\ UNCHANGED <<conversation, view, cursorOn, saved, window, exit>>

\* save_font_size, to a file that can be written.
Save == unsaved' = FALSE /\ saved' = font

\* 500 ms after the last change.
FontSaveDue ==
  /\ exit = "no" /\ unsaved
  /\ Save
  /\ UNCHANGED <<conversation, view, cursorOn, font, window, grid, painter, asked, exit, acts>>

\* The process ends: what it held in memory is gone.
Exit(how) ==
  /\ exit = "no" /\ exit' = how
  /\ lines' = <<>> /\ tail' = "other" /\ follow' = TRUE /\ offset' = 0 /\ cursorOn' = FALSE
  /\ resizing' = FALSE /\ asked' = FALSE /\ acts' = MaxActs
  /\ Relayout(surface, font)
  /\ UNCHANGED <<font, surface>>

\* CloseRequested
FlushFontSave_Dropped == UNCHANGED <<unsaved, saved>>
FlushFontSave == IF unsaved THEN Save ELSE UNCHANGED <<unsaved, saved>>

Close ==
  /\ Exit("closed")
  /\ FlushFontSave

\* Cmd+Q
Quit ==
  /\ Exit("quit")
  /\ UNCHANGED <<unsaved, saved>>

Next ==
  \/ Receive \/ Enter
  \/ \E step \in {1, Page} : ScrollUp(step) \/ ScrollDown(step)
  \/ Redraw \/ Blink
  \/ \E h \in Heights \cup {0} : Resized(h)
  \/ ResizeSettles
  \/ \E f \in Fonts : AdjustFontSize(f)
  \/ FontSaveDue \/ Close \/ Quit

Spec == Init /\ [][Next]_vars

\* Timers fire; a redraw that is asked for takes place, and now and then it gets a
\* frame.
Fairness == WF_vars(Blink) /\ WF_vars(ResizeSettles) /\ SF_vars(asked /\ Present)

FairSpec == Spec /\ Fairness

-----------------------------------------------------------------------------
(* Properties                                                                 *)

\* A row that the painter has cached differs from the grid only if the change was
\* handed to a paint that had no frame, and nothing in that row has changed since:
\* no order of resizes, font changes and redraws loses a row otherwise.
StaleOnlyIfLost ==
  /\ \A y \in DOMAIN grid \ lost : grid[y] = IF y \in DOMAIN glyphs THEN glyphs[y] ELSE Blank
  /\ Len(grid) \notin lost => block = (grid[Len(grid)] = Cursor(TRUE))

\* The screen shows the conversation and the cursor as they are, in the rows the
\* window has; in follow mode the newest line is among them.
Current ==
  /\ Len(grid) = RowsOf(surface, font) /\ ~resizing
  /\ presented /\ glyphs = Drawn(Offset) /\ block = cursorOn
  /\ follow /\ Total > 0 /\ Len(grid) > Chrome /\ Less(Total, Len(grid) - Chrome) < OffsetLimit
       => \E y \in DOMAIN glyphs : glyphs[y] = Line(Total)

\* Whatever happens, the screen is in the end current again, if every row that was
\* lost with a frame has changed again.
ScreenCatchesUp == <>[](lost = {}) => []<>(Current \/ exit # "no")

\* The next start has the font size the user saw last, unless it was changed less
\* than half a second before Cmd+Q.
NextStartSameSize == Load(saved) = font \/ (unsaved /\ exit # "closed")
=============================================================================
