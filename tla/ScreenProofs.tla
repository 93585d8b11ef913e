---------------------------- MODULE ScreenProofs ----------------------------
(* Invariants of module Screen for every window, font size and conversation:   *)
(* that a cached row is stale only after a lost frame, that the font size is    *)
(* saved but for a Cmd+Q, and that a window left alone shows what it should.    *)
EXTENDS Screen, TLAPS, SequenceTheorems

\* A sequence given row by row (the theorem IsASeq, for a function).
LEMMA RowByRow ==
  ASSUME NEW S, NEW n \in Nat, NEW g \in [1..n -> S]
  PROVE  g \in Seq(S) /\ Len(g) = n /\ DOMAIN g = 1..n
<1>1. g \in Seq(S)
  BY SeqDef
<1>2. DOMAIN g = 1..n /\ DOMAIN g = 1..Len(g) /\ Len(g) \in Nat
  BY <1>1, LenProperties
<1> QED
  BY <1>1, <1>2

\* grid_dimensions: a window has room for the strips at every font size.
LEMMA RowsSuffice ==
  ASSUME NEW h \in Heights, NEW f \in Fonts
  PROVE  /\ RowsOf(h, f) \in Nat /\ RowsOf(h, f) >= 1 /\ RowsOf(h, f) >= Chrome
<1>1. h \in Nat /\ f \in Nat \ {0}
  BY ScreenAssumption DEF Fonts
<1>2. h \div f \in Int
  BY <1>1
<1>3. RowsOf(h, f) \in Int /\ RowsOf(h, f) >= 1
  BY <1>2 DEF RowsOf, AtLeast
<1>4. RowsOf(h, f) >= Chrome
  BY ScreenAssumption
<1> QED
  BY <1>3, <1>4

\* A font size read from the file is one the keys can reach, and one that was
\* written is read as it is.
LEMMA LoadInRange ==
  /\ \A s \in Nat : Load(s) \in Fonts
  /\ \A f \in Fonts : Load(f) = f
BY ScreenAssumption DEF Load, Fonts, AtLeast, AtMost

\* render writes every row of the grid, and leaves their number.
LEMMA DrawnRows ==
  ASSUME TypeOK, NEW o \in Nat
  PROVE  /\ Drawn(o) \in Seq(Row) /\ Len(Drawn(o)) = Len(grid)
         /\ DOMAIN Drawn(o) = DOMAIN grid
         /\ Drawn(o)[Len(grid)] = Cursor(cursorOn)
<1> DEFINE n == Len(grid)
<1>1. n \in Nat /\ n >= 1 /\ DOMAIN grid = 1..n
  BY ScreenAssumption, LenProperties DEF TypeOK
<1>2. Total \in Nat /\ Top(o) \in Nat
  <2>1. Total \in Nat
    BY LenProperties DEF TypeOK, Total
  <2>2. Less(Total, 1) \in Nat
    BY <2>1 DEF Less, AtLeast
  <2>3. AtMost(o, Less(Total, 1)) \in Nat
    BY <2>2 DEF AtMost
  <2>4. \A k \in Nat : k % OffsetLimit \in Nat
    BY ScreenAssumption
  <2> QED
    BY <2>1, <2>3, <2>4 DEF Top
<1>3. \A i \in 1..Total : Line(i) \in Row
  BY LenProperties, ElementOfSeq DEF TypeOK, Total, Line, Row
<1>4. Bare \in Row /\ Empty \in Row /\ Blank \in Row /\ \A b \in BOOLEAN : Cursor(b) \in Row
  BY DEF Bare, Empty, Blank, Cursor, Row
<1>5. \A y \in 1..n : Top(o) + y <= Total => Top(o) + y \in 1..Total
  BY <1>1, <1>2
<1>6. Drawn(o) \in [1..n -> Row]
  BY <1>1, <1>3, <1>4, <1>5 DEF Drawn, TypeOK
<1>7. Drawn(o)[n] = Cursor(cursorOn)
  BY <1>1 DEF Drawn
<1> QED
  BY <1>1, <1>6, <1>7, RowByRow

\* follow mode: the offset is counted in lines.
LEMMA OffsetType == TypeOK => Offset \in Nat
BY LenProperties, ScreenAssumption DEF TypeOK, Offset, FollowTop, Less, AtLeast, Total

\* The painter's rows after a rebuild of the layout: none are cached.
LEMMA RelayoutType ==
  ASSUME NEW h \in Heights, NEW f \in Fonts, Relayout(h, f)
  PROVE  /\ grid' \in Seq(Row) /\ Len(grid') >= Chrome /\ Len(grid') >= 1 /\ Len(grid') \in Nat
         /\ DOMAIN grid' = 1..Len(grid') /\ \A y \in DOMAIN grid' : grid'[y] = Blank
         /\ glyphs' = <<>> /\ glyphs' \in Seq(Row) /\ ~block' /\ ~presented' /\ lost' = {}
<1> DEFINE n == RowsOf(h, f)
<1>1. n \in Nat /\ n >= 1 /\ n >= Chrome
  BY RowsSuffice
<1>2. grid' = [y \in 1..n |-> Blank]
  BY DEF Relayout, RebuildTerminal
<1>3. Blank \in Row
  BY DEF Blank, Row
<1>4. grid' \in [1..n -> Row]
  BY <1>2, <1>3
<1>5. grid' \in Seq(Row) /\ Len(grid') = n /\ DOMAIN grid' = 1..n
  BY <1>1, <1>4, RowByRow
<1>6. glyphs' = <<>> /\ <<>> \in Seq(Row) /\ ~block' /\ ~presented' /\ lost' = {}
  BY EmptySeq DEF Relayout
<1> QED
  BY <1>1, <1>2, <1>5, <1>6

\* Shape makes one cached row for each of the grid's.
LEMMA ShapeType ==
  ASSUME TypeOK, Shape
  PROVE  glyphs' \in Seq(Row) /\ block' \in BOOLEAN /\ lost' \subseteq DOMAIN grid
<1> DEFINE n == Len(grid)
<1>1. n \in Nat /\ DOMAIN grid = 1..n
  BY LenProperties DEF TypeOK
<1>2. /\ Drawn(Offset) \in Seq(Row) /\ DOMAIN Drawn(Offset) = 1..n
      /\ \A y \in 1..n : Drawn(Offset)[y] \in Row
  BY <1>1, OffsetType, DrawnRows, LenProperties
<1>3. \A y \in DOMAIN glyphs : glyphs[y] \in Row
  BY LenProperties DEF TypeOK
<1>4. Blank \in Row
  BY DEF Blank, Row
<1>5. glyphs' \in [1..n -> Row]
  BY <1>1, <1>2, <1>3, <1>4 DEF Shape
<1>6. glyphs' \in Seq(Row)
  BY <1>1, <1>5, RowByRow
<1>7. block' \in BOOLEAN /\ lost' \subseteq DOMAIN grid
  BY DEF Shape, TypeOK
<1> QED
  BY <1>6, <1>7

-----------------------------------------------------------------------------
\* No event leaves a variable outside its type (main.rs, paint.rs, conversation.rs).
LEMMA TypeInit == Init => TypeOK
<1> SUFFICES ASSUME Init PROVE TypeOK
  OBVIOUS
<1>1. surface \in Heights /\ saved \in Nat /\ font \in Fonts
  BY ScreenAssumption, LoadInRange DEF Init, Fonts
<1>2. RowsOf(surface, font) \in Nat /\ RowsOf(surface, font) >= Chrome
  BY <1>1, RowsSuffice
<1>3. grid \in [1..RowsOf(surface, font) -> Row]
  BY DEF Init, Row, Blank
<1>4. grid \in Seq(Row) /\ Len(grid) >= Chrome
  BY <1>2, <1>3, RowByRow
<1>5. lines \in Seq(Nat) /\ glyphs \in Seq(Row)
  BY EmptySeq DEF Init
<1>6. /\ tail = "other" /\ offset = 0 /\ exit = "no" /\ acts \in 0..MaxActs
      /\ lost \subseteq DOMAIN grid /\ surface \in Heights
  BY ScreenAssumption DEF Init
<1>7. /\ follow \in BOOLEAN /\ cursorOn \in BOOLEAN /\ unsaved \in BOOLEAN
      /\ resizing \in BOOLEAN /\ block \in BOOLEAN /\ presented \in BOOLEAN /\ asked \in BOOLEAN
  BY DEF Init
<1> QED
  BY <1>1, <1>4, <1>5, <1>6, <1>7 DEF TypeOK

\* What an event of the agent, or a message of the user, appends.
LEMMA PushType ==
  ASSUME TypeOK, NEW k \in Nat, Push(k)
  PROVE  lines' \in Seq(Nat) /\ tail' \in {"other", "empty", "text"}
<1>1. [i \in 1..k |-> 0] \in [1..k -> Nat]
  OBVIOUS
<1>2. [i \in 1..k |-> 0] \in Seq(Nat)
  BY <1>1, RowByRow
<1> QED
  BY <1>2, ConcatProperties DEF Push, TypeOK

\* A text delta lengthens the last line, or adds one or two.
LEMMA TextType ==
  ASSUME TypeOK, NEW piece, TextDelta(piece)
  PROVE  lines' \in Seq(Nat) /\ tail' \in {"other", "empty", "text"}
<1>1. CASE piece = "nothing"
  BY <1>1 DEF TextDelta, TypeOK
<1>2. CASE piece = "character"
  <2>1. tail' = "text"
    BY <1>2 DEF TextDelta
  <2>2. CASE tail = "text"
    <3>1. lines' = [lines EXCEPT ![Total] = @ + 1]
      BY <1>2, <2>2 DEF TextDelta
    <3>2. lines \in Seq(Nat) /\ lines \in [1..Len(lines) -> Nat] /\ Len(lines) \in Nat
      BY LenProperties DEF TypeOK
    <3>3. \A i \in 1..Len(lines) : lines[i] \in Nat
      BY <3>2
    <3>4. Total \in 1..Len(lines) => lines[Total] + 1 \in Nat
      BY <3>3
    <3>5. lines' \in [1..Len(lines) -> Nat]
      BY <3>1, <3>2, <3>3, <3>4
    <3> QED
      BY <2>1, <3>2, <3>5, RowByRow
  <2>3. CASE tail # "text"
    <3>1. lines' = Append(lines, 1)
      BY <1>2, <2>3 DEF TextDelta
    <3>2. lines' \in Seq(Nat)
      BY <3>1 DEF TypeOK
    <3> QED
      BY <2>1, <3>2
  <2> QED
    BY <2>2, <2>3
<1>3. CASE piece = "break"
  <2>1. <<0>> \in Seq(Nat) /\ <<0, 0>> \in Seq(Nat)
    OBVIOUS
  <2>2. tail' = "text" /\ (lines' = lines \o <<0>> \/ lines' = lines \o <<0, 0>>)
    BY <1>3 DEF TextDelta
  <2>3. lines' \in Seq(Nat)
    <3>1. lines \in Seq(Nat)
      BY DEF TypeOK
    <3>2. lines \o <<0>> \in Seq(Nat) /\ lines \o <<0, 0>> \in Seq(Nat)
      BY <2>1, <3>1, ConcatProperties
    <3> QED
      BY <2>2, <3>2
  <2> QED
    BY <2>2, <2>3
<1> QED
  BY <1>1, <1>2, <1>3 DEF TextDelta

\* append_agent_event, whatever the event.
LEMMA EventType ==
  ASSUME TypeOK, AppendAgentEvent
  PROVE  lines' \in Seq(Nat) /\ tail' \in {"other", "empty", "text"}
<1>1. \A n \in 0..(FoldAt + 2) : Folded(n) \in Nat
  BY ScreenAssumption DEF Folded, AtMost
<1> QED
  BY <1>1, PushType, TextType DEF AppendAgentEvent

\* A step that touches no row; one that leaves grid and painter well typed.
Kept == UNCHANGED <<grid, painter>>
KeepsRows == /\ Len(grid') >= Chrome /\ grid' \in Seq(Row) /\ glyphs' \in Seq(Row)
             /\ block' \in BOOLEAN /\ presented' \in BOOLEAN /\ lost' \subseteq DOMAIN grid'

\* Handlers that only change the state to be drawn.
LEMMA KeptRows == TypeOK /\ Kept => KeepsRows
BY DEF TypeOK, Kept, KeepsRows, painter

\* Handlers that rebuild the layout and the terminal.
LEMMA RelayoutRows ==
  ASSUME NEW h \in Heights, NEW f \in Fonts, Relayout(h, f)
  PROVE  KeepsRows
<1>1. block' \in BOOLEAN /\ presented' \in BOOLEAN
  BY DEF Relayout
<1> QED
  BY <1>1, RelayoutType DEF KeepsRows

\* redraw, whatever becomes of the frame.
LEMMA DrawRows ==
  ASSUME TypeOK, Draw, Painted \/ NoFrame \/ NotPresented
  PROVE  KeepsRows /\ offset' \in Nat
<1>1. /\ offset' \in Nat /\ grid' \in Seq(Row) /\ Len(grid') >= Chrome
      /\ DOMAIN grid' = DOMAIN grid
  BY OffsetType, DrawnRows DEF TypeOK, Draw
<1>2. CASE NoFrame
  <2>1. glyphs' \in Seq(Row) /\ block' \in BOOLEAN /\ presented' \in BOOLEAN
    BY <1>2 DEF NoFrame, TypeOK
  <2>2. lost' \subseteq DOMAIN grid
    BY <1>2 DEF NoFrame, TypeOK, Dirty
  <2> QED
    BY <1>1, <2>1, <2>2 DEF KeepsRows
<1>3. CASE Painted \/ NotPresented
  <2>1. Shape /\ presented' \in BOOLEAN
    BY <1>3 DEF Painted, NotPresented, TypeOK
  <2> QED
    BY <1>1, <2>1, ShapeType DEF KeepsRows
<1> QED
  BY <1>2, <1>3

\* The type invariant, handler by handler.
LEMMA TypeStep == TypeOK /\ [Next]_vars => TypeOK'
<1> SUFFICES ASSUME TypeOK, [Next]_vars PROVE TypeOK'
  OBVIOUS
<1> USE DEF conversation, view, fonts, window
<1>1. CASE Receive
  <2>1. KeepsRows
    BY <1>1, KeptRows DEF Receive, Kept
  <2>2. lines' \in Seq(Nat) /\ tail' \in {"other", "empty", "text"}
    BY <1>1, EventType DEF Receive
  <2> QED
    BY <1>1, <2>1, <2>2, ScreenAssumption DEF Receive, Act, TypeOK, KeepsRows
<1>2. CASE Enter
  <2>1. KeepsRows
    BY <1>2, KeptRows DEF Enter, Kept
  <2>2. lines' \in Seq(Nat) /\ tail' \in {"other", "empty", "text"}
    BY <1>2, PushType DEF Enter, TypeOK
  <2> QED
    BY <1>2, <2>1, <2>2, ScreenAssumption DEF Enter, Act, Changed, TypeOK, KeepsRows
<1>3. CASE \E step \in {1, Page} : ScrollUp(step) \/ ScrollDown(step)
  <2>1. PICK step \in {1, Page} : ScrollUp(step) \/ ScrollDown(step)
    BY <1>3
  <2>2. KeepsRows
    BY <2>1, KeptRows DEF ScrollUp, ScrollDown, Kept
  <2>3. offset' \in Nat
    BY <2>1, ScreenAssumption DEF ScrollUp, ScrollDown, Scrolled, Less, AtLeast, TypeOK
  <2>4. follow' \in BOOLEAN
    BY <2>1 DEF ScrollUp, ScrollDown, TypeOK
  <2>5. Act /\ Changed /\ UNCHANGED <<conversation, fonts, window, exit>>
    BY <2>1 DEF ScrollUp, ScrollDown
  <2>6. acts' \in 0..MaxActs /\ asked' \in BOOLEAN /\ cursorOn' \in BOOLEAN
    BY <2>5, ScreenAssumption DEF Act, Changed, TypeOK
  <2> QED
    BY <2>2, <2>3, <2>4, <2>5, <2>6 DEF TypeOK, KeepsRows
<1>4. CASE Redraw
  <2>1. KeepsRows /\ offset' \in Nat
    BY <1>4, DrawRows DEF Redraw
  <2> QED
    BY <1>4, <2>1 DEF Redraw, Draw, TypeOK, KeepsRows
<1>5. CASE Blink
  <2>1. KeepsRows
    BY <1>5, KeptRows DEF Blink, Kept
  <2> QED
    BY <1>5, <2>1 DEF Blink, TypeOK, KeepsRows
<1>6. CASE \E h \in Heights \cup {0} : Resized(h)
  <2>1. KeepsRows
    BY <1>6, KeptRows DEF Resized, Kept
  <2>2. surface' \in Heights
    BY <1>6 DEF Resized, TypeOK
  <2> QED
    BY <1>6, <2>1, <2>2, ScreenAssumption DEF Resized, Act, TypeOK, KeepsRows
<1>7. CASE ResizeSettles
  <2>1. KeepsRows
    BY <1>7, RelayoutRows DEF ResizeSettles, TypeOK
  <2> QED
    BY <1>7, <2>1 DEF ResizeSettles, TypeOK, KeepsRows
<1>8. CASE \E f \in Fonts : AdjustFontSize(f)
  <2>1. PICK f \in Fonts : AdjustFontSize(f)
    BY <1>8
  <2>2. KeepsRows
    BY <2>1, RelayoutRows DEF AdjustFontSize, TypeOK
  <2> QED
    BY <2>1, <2>2, ScreenAssumption DEF AdjustFontSize, Act, TypeOK, KeepsRows
<1>9. CASE FontSaveDue
  <2>1. KeepsRows
    BY <1>9, KeptRows DEF FontSaveDue, Kept
  <2>2. font \in Nat
    BY ScreenAssumption DEF TypeOK, Fonts
  <2> QED
    BY <1>9, <2>1, <2>2 DEF FontSaveDue, Save, TypeOK, KeepsRows
<1>10. CASE Close \/ Quit
  <2>1. PICK how \in {"closed", "quit"} : Exit(how)
    BY <1>10 DEF Close, Quit
  <2>2. KeepsRows
    BY <2>1, RelayoutRows DEF Exit, TypeOK
  <2>3. saved' \in Nat /\ unsaved' \in BOOLEAN
    <3>1. font \in Nat
      BY ScreenAssumption DEF TypeOK, Fonts
    <3> QED
      BY <1>10, <3>1 DEF Close, Quit, FlushFontSave, Save, TypeOK
  <2>4. lines' \in Seq(Nat)
    BY <2>1, EmptySeq DEF Exit
  <2>5. acts' \in 0..MaxActs /\ exit' \in {"no", "closed", "quit"}
    BY <2>1, ScreenAssumption DEF Exit
  <2>6. /\ follow' \in BOOLEAN /\ cursorOn' \in BOOLEAN /\ resizing' \in BOOLEAN
        /\ asked' \in BOOLEAN /\ tail' = "other" /\ offset' = 0
        /\ UNCHANGED <<font, surface>>
    BY <2>1 DEF Exit
  <2> QED
    BY <2>2, <2>3, <2>4, <2>5, <2>6 DEF TypeOK, KeepsRows
<1>11. CASE UNCHANGED vars
  BY <1>11 DEF vars, painter, TypeOK
<1> QED
  BY <1>1, <1>2, <1>3, <1>4, <1>5, <1>6, <1>7, <1>8, <1>9, <1>10, <1>11 DEF Next

\* Every reachable state of the window, the panes and the painter is well typed.
THEOREM TypeCorrect == Spec => []TypeOK
BY TypeInit, TypeStep, PTL DEF Spec

-----------------------------------------------------------------------------
(* The painter's rows                                                         *)

\* A new layout has no cached row, and a grid to which nothing was drawn.
LEMMA RelayoutFresh ==
  ASSUME NEW h \in Heights, NEW f \in Fonts, Relayout(h, f)
  PROVE  StaleOnlyIfLost'
<1>1. /\ \A y \in DOMAIN grid' : grid'[y] = Blank
      /\ Len(grid') \in DOMAIN grid' /\ DOMAIN glyphs' = {} /\ ~block'
  BY RelayoutType
<1>2. Blank # Cursor(TRUE) /\ block' = FALSE
  BY DEF Blank, Cursor, Relayout
<1> QED
  BY <1>1, <1>2 DEF StaleOnlyIfLost

\* A redraw makes every row it hands over either a cached or a lost one.
LEMMA DrawStale ==
  ASSUME TypeOK, StaleOnlyIfLost, Draw, Painted \/ NoFrame \/ NotPresented
  PROVE  StaleOnlyIfLost'
<1> DEFINE n == Len(grid)
           Now == Drawn(Offset)
<1>1. n \in DOMAIN grid
  BY ScreenAssumption, LenProperties DEF TypeOK
<1>2. /\ grid' = Now /\ Len(grid') = n /\ DOMAIN grid' = DOMAIN grid
      /\ Now[n] = Cursor(cursorOn)
  BY OffsetType, DrawnRows DEF Draw
<1>3. \A y \in DOMAIN grid : y \notin Dirty => grid'[y] = grid[y]
  BY <1>2 DEF Dirty
<1>4. CASE NoFrame
  <2>1. glyphs' = glyphs /\ block' = block /\ lost' = lost \cup Dirty
    BY <1>4 DEF NoFrame
  <2>2. \A y \in DOMAIN grid' \ lost' : grid'[y] = IF y \in DOMAIN glyphs' THEN glyphs'[y] ELSE Blank
    BY <1>2, <1>3, <2>1 DEF StaleOnlyIfLost
  <2>3. n \notin lost' => block' = (grid'[n] = Cursor(TRUE))
    BY <1>1, <1>3, <2>1 DEF StaleOnlyIfLost
  <2> QED
    BY <1>2, <2>2, <2>3 DEF StaleOnlyIfLost
<1>5. CASE Shape
  <2>1. lost' = lost \ Dirty /\ DOMAIN glyphs' = DOMAIN grid
    BY <1>5 DEF Shape
  <2>2. \A y \in Dirty : glyphs'[y] = Now[y]
    BY <1>5 DEF Shape, Dirty
  <2>3. \A y \in DOMAIN grid \ Dirty :
           glyphs'[y] = IF y \in DOMAIN glyphs THEN glyphs[y] ELSE Blank
    BY <1>5 DEF Shape
  <2>4. \A y \in DOMAIN grid' \ lost' : grid'[y] = glyphs'[y]
    <3> SUFFICES ASSUME NEW y \in DOMAIN grid', y \notin lost' PROVE grid'[y] = glyphs'[y]
      OBVIOUS
    <3>1. CASE y \in Dirty
      BY <1>2, <2>2, <3>1
    <3>2. CASE y \notin Dirty
      BY <1>2, <1>3, <2>1, <2>3, <3>2 DEF StaleOnlyIfLost
    <3> QED
      BY <3>1, <3>2
  <2>5. n \notin lost' => block' = (grid'[n] = Cursor(TRUE))
    <3>1. cursorOn = (Cursor(cursorOn) = Cursor(TRUE))
      BY DEF Cursor, TypeOK
    <3>2. CASE Dirty # {} \/ ~block
      <4>1. block' = cursorOn
        BY <1>5, <3>2 DEF Shape
      <4> QED
        BY <1>2, <3>1, <4>1
    <3>3. CASE Dirty = {} /\ block
      <4>1. block' = block /\ lost' = lost /\ grid'[n] = grid[n]
        BY <1>1, <1>3, <1>5, <3>3 DEF Shape, TypeOK
      <4> QED
        BY <4>1 DEF StaleOnlyIfLost
    <3> QED
      BY <3>2, <3>3
  <2> QED
    BY <1>2, <2>1, <2>4, <2>5 DEF StaleOnlyIfLost
<1> QED
  BY <1>4, <1>5 DEF Painted, NotPresented

\* Only redraw and the rebuilding of the layout touch cached rows.
LEMMA StaleStep == TypeOK /\ StaleOnlyIfLost /\ [Next]_vars => StaleOnlyIfLost'
<1> SUFFICES ASSUME TypeOK, StaleOnlyIfLost, [Next]_vars PROVE StaleOnlyIfLost'
  OBVIOUS
<1>1. CASE Redraw
  BY <1>1, DrawStale DEF Redraw
<1>2. CASE ResizeSettles
  BY <1>2, RelayoutFresh DEF ResizeSettles, TypeOK
<1>3. CASE \E f \in Fonts : AdjustFontSize(f)
  BY <1>3, RelayoutFresh DEF AdjustFontSize, TypeOK
<1>4. CASE Close \/ Quit
  BY <1>4, RelayoutFresh DEF Close, Quit, Exit, TypeOK
<1>5. CASE UNCHANGED <<grid, painter>>
  BY <1>5 DEF painter, StaleOnlyIfLost
<1>6. CASE \E step \in {1, Page} : ScrollUp(step) \/ ScrollDown(step)
  BY <1>5, <1>6 DEF ScrollUp, ScrollDown
<1>7. CASE \E h \in Heights \cup {0} : Resized(h)
  BY <1>5, <1>7 DEF Resized
<1> QED
  BY <1>1, <1>2, <1>3, <1>4, <1>5, <1>6, <1>7
     DEF Next, Receive, Enter, Blink, FontSaveDue, vars, painter

\* Whatever is resized, scrolled, appended, drawn or lost, in any order: a cached row
\* is stale only after a frame that could not be had, and until the row changes.
THEOREM StaleRowsWereLost == Spec => []StaleOnlyIfLost
<1>1. Init => StaleOnlyIfLost
  <2> SUFFICES ASSUME Init PROVE StaleOnlyIfLost
    OBVIOUS
  <2>1. /\ RowsOf(surface, font) \in Nat /\ RowsOf(surface, font) >= 1
    BY TypeInit, RowsSuffice DEF TypeOK
  <2>2. grid \in [1..RowsOf(surface, font) -> {Blank}]
    BY DEF Init
  <2>3. Len(grid) \in DOMAIN grid /\ \A y \in DOMAIN grid : grid[y] = Blank
    BY <2>1, <2>2, RowByRow
  <2>4. Blank # Cursor(TRUE)
    BY DEF Blank, Cursor
  <2>5. glyphs = <<>> /\ block = FALSE
    BY DEF Init
  <2>6. DOMAIN glyphs = {}
    BY <2>5
  <2>7. \A y \in DOMAIN grid \ lost : grid[y] = IF y \in DOMAIN glyphs THEN glyphs[y] ELSE Blank
    BY <2>3, <2>6
  <2>8. block = (grid[Len(grid)] = Cursor(TRUE))
    BY <2>3, <2>4, <2>5
  <2> QED
    BY <2>7, <2>8 DEF StaleOnlyIfLost
<1> QED
  BY <1>1, TypeInit, TypeStep, StaleStep, PTL DEF Spec

-----------------------------------------------------------------------------
(* The font size                                                              *)

\* Only the keys, the timer and CloseRequested touch the size or its file.
LEMMA FontSavedStep == TypeOK /\ NextStartSameSize /\ [Next]_vars => NextStartSameSize'
<1> SUFFICES ASSUME TypeOK, NextStartSameSize, [Next]_vars PROVE NextStartSameSize'
  OBVIOUS
<1>1. CASE \E f \in Fonts : AdjustFontSize(f)
  BY <1>1 DEF AdjustFontSize, Act, NextStartSameSize
<1>2. CASE FontSaveDue
  BY <1>2, LoadInRange DEF FontSaveDue, Save, NextStartSameSize, TypeOK
<1>3. CASE Close
  <2>1. CASE unsaved
    <3>1. saved' = font /\ font' = font
      BY <1>3, <2>1 DEF Close, Exit, FlushFontSave, Save
    <3>2. Load(font) = font
      BY LoadInRange DEF TypeOK
    <3>3. Load(saved)' = font'
      BY <3>1, <3>2 DEF Load
    <3> QED
      BY <3>3 DEF NextStartSameSize
  <2>2. CASE ~unsaved
    BY <1>3, <2>2 DEF Close, Exit, FlushFontSave, NextStartSameSize, Load
  <2> QED
    BY <2>1, <2>2
<1>4. CASE Quit
  BY <1>4 DEF Quit, Exit, NextStartSameSize, Load
<1>5. CASE UNCHANGED <<fonts, exit>>
  BY <1>5 DEF fonts, NextStartSameSize, Load
<1>6. CASE \E step \in {1, Page} : ScrollUp(step) \/ ScrollDown(step)
  BY <1>5, <1>6 DEF ScrollUp, ScrollDown
<1>7. CASE \E h \in Heights \cup {0} : Resized(h)
  BY <1>5, <1>7 DEF Resized
<1>8. CASE ResizeSettles
  BY <1>5, <1>8 DEF ResizeSettles
<1>9. CASE Redraw
  BY <1>5, <1>9 DEF Redraw, Draw
<1> QED
  BY <1>1, <1>2, <1>3, <1>4, <1>5, <1>6, <1>7, <1>8, <1>9
     DEF Next, Receive, Enter, Blink, vars

\* However often the font size is changed, and however the window is left, the next
\* start has the size seen last, but for a change within half a second of Cmd+Q.
THEOREM FontSizeKept == Spec => []NextStartSameSize
<1>1. Init => NextStartSameSize
  BY DEF Init, NextStartSameSize
<1> QED
  BY <1>1, TypeInit, TypeStep, FontSavedStep, PTL DEF Spec
-----------------------------------------------------------------------------
(* Where it comes to rest                                                     *)

\* The terminal has the rows of the window, but for the moment before a resize settles.
SizesMatch == resizing \/ Len(grid) = RowsOf(surface, font)

\* When no redraw is asked for, another one would change nothing.
NothingToDraw == exit = "no" /\ ~asked => offset = Offset /\ grid = Drawn(Offset)

\* The painter has a row for each of the grid's, or none yet and shows none.
CachedWhole == DOMAIN glyphs = DOMAIN grid \/ (glyphs = <<>> /\ ~presented)

RestInv == SizesMatch /\ NothingToDraw /\ CachedWhole

\* The window waits for the next event, and what it holds has been presented.
AtRest == exit = "no" /\ ~asked /\ ~resizing /\ presented

\* What a window that is left alone shows is current, if no row was lost with a frame.
CurrentAtRest == AtRest /\ lost = {} => Current

\* A new layout has the rows of the window and asks for a redraw, or the loop is left.
LEMMA RelayoutRests ==
  ASSUME NEW h \in Heights, NEW f \in Fonts, Relayout(h, f),
         surface' = h, font' = f, asked' \/ exit' # "no"
  PROVE  RestInv'
<1>1. RowsOf(h, f) \in Nat
  BY RowsSuffice
<1>2. grid' \in [1..RowsOf(h, f) -> {Blank}]
  BY DEF Relayout, RebuildTerminal
<1>3. Len(grid') = RowsOf(h, f)
  BY <1>1, <1>2, RowByRow
<1>4. SizesMatch'
  BY <1>3 DEF SizesMatch
<1>5. NothingToDraw'
  BY DEF NothingToDraw
<1>6. CachedWhole'
  BY DEF Relayout, CachedWhole
<1> QED
  BY <1>4, <1>5, <1>6 DEF RestInv

\* A redraw leaves nothing to draw: the offset that follow mode gives is then the offset.
LEMMA DrawRests ==
  ASSUME TypeOK, RestInv, Draw, Painted \/ NoFrame \/ NotPresented
  PROVE  RestInv'
<1>1. /\ grid' = Drawn(Offset) /\ Len(grid') = Len(grid) /\ DOMAIN grid' = DOMAIN grid
  BY OffsetType, DrawnRows DEF Draw
<1>2. /\ lines' = lines /\ follow' = follow /\ cursorOn' = cursorOn /\ offset' = Offset
      /\ surface' = surface /\ font' = font /\ resizing' = resizing
  BY DEF Draw, conversation, fonts, window
<1>3. SizesMatch'
  BY <1>1, <1>2 DEF RestInv, SizesMatch
<1>4. Offset' = Offset
  <2>1. Total' = Total /\ FollowTop(Len(grid) - Chrome)' = FollowTop(Len(grid') - Chrome)
    BY <1>2 DEF Total, FollowTop
  <2> QED
    BY <1>1, <1>2, <2>1 DEF Offset, FollowTop, Total
<1>5. Drawn(Offset)' = Drawn(Offset)
  BY <1>1, <1>2, <1>4 DEF Drawn, Top, Total, Line
<1>6. NothingToDraw'
  BY <1>1, <1>2, <1>4, <1>5 DEF NothingToDraw
<1>7. CASE NoFrame
  <2>1. CachedWhole'
    BY <1>1, <1>7 DEF RestInv, CachedWhole, NoFrame
  <2> QED
    BY <1>3, <1>6, <2>1 DEF RestInv
<1>8. CASE Shape
  <2>1. DOMAIN glyphs' = DOMAIN grid'
    BY <1>1, <1>8 DEF Shape
  <2> QED
    BY <1>3, <1>6, <2>1 DEF RestInv, CachedWhole
<1> QED
  BY <1>7, <1>8 DEF Painted, NotPresented

\* Every handler that changes what is drawn asks for a redraw.
LEMMA RestStep == TypeOK /\ RestInv /\ [Next]_vars => RestInv'
<1> SUFFICES ASSUME TypeOK, RestInv, [Next]_vars PROVE RestInv'
  OBVIOUS
<1>1. ASSUME UNCHANGED <<grid, painter>>, asked', UNCHANGED <<font, surface>> \/ resizing',
             UNCHANGED resizing \/ resizing'
      PROVE  RestInv'
  BY <1>1 DEF RestInv, SizesMatch, NothingToDraw, CachedWhole, painter
<1>2. ASSUME UNCHANGED <<conversation, view, cursorOn, grid, painter, font, window, asked, exit>>
      PROVE  RestInv'
  <2>1. /\ UNCHANGED <<lines, follow, offset, cursorOn, grid, glyphs, presented, font>>
        /\ UNCHANGED <<surface, resizing, asked, exit>>
    BY <1>2 DEF conversation, view, painter, window
  <2>2. SizesMatch' = SizesMatch /\ CachedWhole' = CachedWhole
    BY <2>1 DEF SizesMatch, CachedWhole
  <2>3. Offset' = Offset
    BY <2>1 DEF Offset, FollowTop, Total
  <2>4. Drawn(Offset)' = Drawn(Offset)
    BY <2>1, <2>3 DEF Drawn, Top, Total, Line
  <2>5. NothingToDraw'
    BY <2>1, <2>3, <2>4 DEF RestInv, NothingToDraw
  <2> QED
    BY <2>2, <2>5 DEF RestInv
<1>3. CASE Receive
  BY <1>1, <1>3 DEF Receive, fonts, window
<1>4. CASE Enter
  BY <1>1, <1>4 DEF Enter, Changed, fonts, window
<1>5. CASE \E step \in {1, Page} : ScrollUp(step) \/ ScrollDown(step)
  BY <1>1, <1>5 DEF ScrollUp, ScrollDown, Changed, fonts, window
<1>6. CASE Redraw
  BY <1>6, DrawRests DEF Redraw
<1>7. CASE Blink
  BY <1>1, <1>7 DEF Blink, fonts, window
<1>8. CASE \E h \in Heights \cup {0} : Resized(h)
  BY <1>1, <1>8 DEF Resized
<1>9. CASE ResizeSettles
  BY <1>9, RelayoutRests DEF ResizeSettles, fonts, TypeOK
<1>10. CASE \E f \in Fonts : AdjustFontSize(f)
  BY <1>10, RelayoutRests DEF AdjustFontSize, window, TypeOK
<1>11. CASE FontSaveDue
  BY <1>2, <1>11 DEF FontSaveDue
<1>12. CASE Close \/ Quit
  BY <1>12, RelayoutRests DEF Close, Quit, Exit, TypeOK
<1>13. CASE UNCHANGED vars
  BY <1>2, <1>13 DEF vars, fonts
<1> QED
  BY <1>3, <1>4, <1>5, <1>6, <1>7, <1>8, <1>9, <1>10, <1>11, <1>12, <1>13 DEF Next

\* In follow mode the newest line is drawn.
LEMMA NewestDrawn ==
  ASSUME TypeOK, follow, Total > 0, Len(grid) > Chrome,
         Less(Total, Len(grid) - Chrome) < OffsetLimit
  PROVE  \E y \in DOMAIN grid : Drawn(Offset)[y] = Line(Total)
<1> DEFINE n == Len(grid)
           v == n - Chrome
<1>1. n \in Nat /\ Chrome \in Nat /\ Chrome >= 1 /\ DOMAIN grid = 1..n /\ Total \in Nat /\ n > Chrome
  BY ScreenAssumption, LenProperties DEF TypeOK, Total
<1>2. v \in Nat /\ v >= 1 /\ v < n
  BY <1>1
<1>3. Offset = Less(Total, v)
  BY DEF Offset, FollowTop
<1>4. Less(Total, v) \in Nat /\ Less(Total, v) <= Less(Total, 1)
  BY <1>1, <1>2 DEF Less, AtLeast
<1>5. Less(Total, 1) \in Nat /\ AtMost(Less(Total, v), Less(Total, 1)) = Less(Total, v)
  BY <1>1, <1>4 DEF Less, AtLeast, AtMost
<1>6. Top(Offset) = Less(Total, v)
  <2>1. \A k \in Nat : k < OffsetLimit => k % OffsetLimit = k
    BY ScreenAssumption
  <2> QED
    BY <1>3, <1>4, <1>5, <2>1 DEF Top
<1> DEFINE y == Total - Less(Total, v)
<1>7. y \in 1..v /\ Less(Total, v) + y = Total
  <2>1. \A t, w \in Nat : t > 0 /\ w >= 1 =>
           t - Less(t, w) \in 1..w /\ Less(t, w) + (t - Less(t, w)) = t
    BY DEF Less, AtLeast
  <2> QED
    BY <1>1, <1>2, <2>1
<1>8. y \in DOMAIN grid /\ y # n /\ ~(y > n - Chrome) /\ Total # 0
  BY <1>1, <1>2, <1>7
<1>9. Top(Offset) + y = Total
  BY <1>6, <1>7
<1> HIDE DEF y
<1>10. Drawn(Offset)[y] = Line(Total)
  BY <1>1, <1>8, <1>9 DEF Drawn
<1> QED
  BY <1>8, <1>10

\* A grid to which nothing is left to draw, and rows none of which is stale, are current.
LEMMA RestIsCurrent == TypeOK /\ StaleOnlyIfLost /\ RestInv => CurrentAtRest
<1> SUFFICES ASSUME TypeOK, StaleOnlyIfLost, RestInv, AtRest, lost = {} PROVE Current
  BY DEF CurrentAtRest
<1>1. exit = "no" /\ ~asked /\ ~resizing /\ presented /\ presented = TRUE
  BY DEF AtRest, TypeOK
<1>2. Len(grid) = RowsOf(surface, font) /\ grid = Drawn(Offset) /\ DOMAIN glyphs = DOMAIN grid
  BY <1>1 DEF RestInv, SizesMatch, NothingToDraw, CachedWhole
<1>3. glyphs = grid
  <2>1. \A y \in DOMAIN grid : glyphs[y] = grid[y]
    BY <1>2 DEF StaleOnlyIfLost
  <2>2. DOMAIN grid = 1..Len(grid) /\ DOMAIN glyphs = 1..Len(glyphs) /\ glyphs \in Seq(Row) /\ grid \in Seq(Row)
    BY LenProperties DEF TypeOK
  <2>3. Len(glyphs) = Len(grid)
    BY <1>2, <2>2, LenProperties
  <2> QED
    BY <1>2, <2>1, <2>2, <2>3, SeqEqual
<1>4. block = cursorOn
  <2>1. grid[Len(grid)] = Cursor(cursorOn)
    BY <1>2, OffsetType, DrawnRows
  <2>2. cursorOn = (Cursor(cursorOn) = Cursor(TRUE))
    BY DEF Cursor, TypeOK
  <2>3. block = (grid[Len(grid)] = Cursor(TRUE))
    BY DEF StaleOnlyIfLost
  <2> QED
    BY <2>1, <2>2, <2>3
<1>5. follow /\ Total > 0 /\ Len(grid) > Chrome /\ Less(Total, Len(grid) - Chrome) < OffsetLimit
        => \E y \in DOMAIN glyphs : glyphs[y] = Line(Total)
  BY <1>2, <1>3, NewestDrawn
<1> QED
  BY <1>1, <1>2, <1>3, <1>4, <1>5 DEF Current

\* A window that is left alone and presented shows the conversation and the cursor as
\* they are, in its size, unless a row was lost with a frame: no handler changes what is
\* drawn without asking for a redraw. It is what ScreenCatchesUp asks of the states.
THEOREM RestsCurrent == Spec => []CurrentAtRest
<1>1. Init => RestInv
  <2> SUFFICES ASSUME Init PROVE RestInv
    OBVIOUS
  <2>1. RowsOf(surface, font) \in Nat
    BY TypeInit, RowsSuffice DEF TypeOK
  <2>2. grid \in [1..RowsOf(surface, font) -> {Blank}]
    BY DEF Init
  <2>3. Len(grid) = RowsOf(surface, font)
    BY <2>1, <2>2, RowByRow
  <2> QED
    BY <2>3 DEF Init, RestInv, SizesMatch, NothingToDraw, CachedWhole
<1>2. Spec => []RestInv
  BY <1>1, TypeInit, TypeStep, RestStep, PTL DEF Spec
<1> QED
  BY <1>2, TypeCorrect, StaleRowsWereLost, RestIsCurrent, PTL
=============================================================================
