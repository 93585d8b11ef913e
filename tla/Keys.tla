-------------------------------- MODULE Keys --------------------------------
(* The two builds of the client around its input line: what each makes of a   *)
(* key with its modifiers (crates/pi-oven/src/keys.rs and the handlers of     *)
(* main.rs), and how each comes up and ends. The terminal build takes over    *)
(* the terminal it was started from, which has to be given back.              *)
EXTENDS Editor

VARIABLES
  front,   \* the build: "window" (dev-wgpu) or "terminal" (dev-crossterm)
  phase,   \* "starting", "running", "failed" (returned before its loop), "over"
  tty      \* the terminal it was started from: "cooked", "raw", "alternate"

frontVars == <<front, phase, tty>>

FrontInit == front \in {"window", "terminal"} /\ phase = "starting" /\ tty = "cooked"

-----------------------------------------------------------------------------
(* Keys. A key that was let go and a Cmd+V of nothing ask for nothing.        *)

Modifier == {"cmd", "ctrl", "alt", "shift"}
Letter == {"q", "c", "x", "v", "w", "n", "letter"}
Typed == Letter \cup {"digit", "=", "-", "backquote", "tilde", "Space"}   \* keys that have a text
Key == Typed \cup {"Enter", "Escape", "Up", "Left", "Right", "Backspace", "Delete", "F1"}

\* The KeyAction of a key pressed with the modifiers m.
Translate(k, m) ==
  LET cmd == "cmd" \in m
      held == {"cmd", "ctrl"} \cap m # {}
  IN CASE k = "Escape" /\ {"cmd", "alt"} \cap m = {} -> "Escape"
       [] k = "digit" /\ cmd                         -> "CmdDigit"
       [] held /\ (k = "tilde" \/ (k = "backquote" /\ "shift" \in m))
                                                     -> "CmdShiftBackquote"
       [] held /\ k = "backquote" /\ "shift" \notin m        -> "CmdBackquote"
       [] ~held /\ k = "backquote" /\ "alt" \in m            -> "OptionBackquote"
       [] k = "w" /\ cmd -> "CmdW"
       [] k = "n" /\ cmd -> "CmdN"
       [] k = "=" /\ cmd -> "CmdEqual"
       [] k = "-" /\ cmd -> "CmdMinus"
       [] k \in Letter \ {"w", "n"} /\ cmd -> "CmdLetter"
       [] OTHER -> "Other"

\* handle_key: the operation, and whether it extends the selection.
WindowOp(k, m) ==
  LET command == IF Translate(k, m) = "CmdLetter" THEN k ELSE ""
      cmd == "cmd" \in m
      alt == "alt" \in m
      shift == "shift" \in m
      plain == {"cmd", "ctrl"} \cap m = {}
  IN CASE command = "q" -> <<"quit", FALSE>>
       [] command = "c" -> <<"copy", FALSE>>
       [] command = "x" -> <<"cut", FALSE>>
       [] command = "v" -> <<"paste", FALSE>>
       [] k = "Enter" /\ plain -> <<"enter", FALSE>>
       [] k = "Backspace" ->
            <<IF cmd THEN "deleteToStart" ELSE IF alt THEN "deleteWord" ELSE "deleteBefore", FALSE>>
       [] k = "Delete" -> <<"deleteAfter", FALSE>>
       [] k = "Left"   -> <<IF cmd THEN "start" ELSE IF alt THEN "wordLeft" ELSE "left", shift>>
       [] k = "Right"  -> <<IF cmd THEN "end" ELSE IF alt THEN "wordRight" ELSE "right", shift>>
       [] k \in Typed /\ plain -> <<"type", FALSE>>
       [] OTHER -> <<"none", FALSE>>   \* not of the line: a font size, a scroll, an abort

\* The terminal's arrow keys never extend a selection, whatever is held with them.
Arrow_Shift(k, m) == <<IF k = "Left" THEN "left" ELSE "right", "shift" \in m>>
Arrow(k, m) == <<IF k = "Left" THEN "left" ELSE "right", FALSE>>

\* The loop of the terminal build. Of Ctrl and a letter it knows three, and types the
\* others; it never sees the Cmd key.
TerminalOp(k, m) ==
  LET ctrl == "ctrl" \in m
  IN CASE k = "Escape" /\ {"alt", "ctrl"} \cap m = {} -> <<"abortOrQuit", FALSE>>
       [] k = "Enter" /\ ~ctrl  -> <<"enter", FALSE>>
       [] k = "Backspace"       -> <<"deleteBefore", FALSE>>
       [] k = "Delete"          -> <<"deleteAfter", FALSE>>
       [] k \in {"Left", "Right"} -> Arrow(k, m)
       [] k = "c" /\ ctrl       -> <<"copy", FALSE>>
       [] k = "x" /\ ctrl       -> <<"cut", FALSE>>
       [] k = "v" /\ ctrl       -> <<"paste", FALSE>>
       [] k \in Typed /\ ~(ctrl /\ k \in {"c", "x", "v"}) -> <<"type", FALSE>>
       [] OTHER -> <<"none", FALSE>>

Ops == [window   |-> {WindowOp(k, m) : k \in Key, m \in SUBSET Modifier},
        terminal |-> {TerminalOp(k, m) : k \in Key, m \in SUBSET (Modifier \ {"cmd"})}]

\* An operation on the line.
Edit(op, extend) ==
  \/ op = "left" /\ MoveLeft(extend)
  \/ op = "right" /\ MoveRight(extend)
  \/ op = "wordLeft" /\ MoveTo(WordLeft(cursor), extend)
  \/ op = "wordRight" /\ MoveTo(WordRight(cursor), extend)
  \/ op = "start" /\ MoveTo(0, extend)
  \/ op = "end" /\ MoveTo(Bytes(buf), extend)
  \/ op = "deleteBefore" /\ DeleteBefore
  \/ op = "deleteWord" /\ DeleteWordBefore
  \/ op = "deleteToStart" /\ DeleteToStart
  \/ op = "deleteAfter" /\ DeleteAfter
  \/ op = "type" /\ \E c \in Char : Type(<<c>>)
  \/ op = "paste" /\ \E s \in Input : Paste(s)
  \/ op = "cut" /\ Cut
  \/ op = "copy" /\ Copy
  \/ op = "enter" /\ Enter

Running == phase = "running" /\ ~panicked

\* Only the panic of a bad slice ends the client here, and without its teardown.
KeyPressed ==
  /\ Running
  /\ \E op \in Ops[front] : Edit(op[1], op[2])
  /\ UNCHANGED frontVars

-----------------------------------------------------------------------------
(* Start and end                                                              *)

\* Three steps with a ? after each: what the earlier ones did stays when a later
\* one fails.
EnableRawMode ==
  /\ front = "terminal" /\ phase = "starting" /\ tty = "cooked"
  /\ \/ tty' = "raw" /\ UNCHANGED phase
     \/ phase' = "failed" /\ UNCHANGED tty
  /\ UNCHANGED front

EnterAlternateScreen ==
  /\ phase = "starting" /\ tty = "raw"
  /\ \/ tty' = "alternate" /\ UNCHANGED phase
     \/ phase' = "failed" /\ UNCHANGED tty
  /\ UNCHANGED front

NewTerminal ==
  /\ phase = "starting" /\ tty = "alternate"
  /\ phase' \in {"running", "failed"}
  /\ UNCHANGED <<front, tty>>

\* resumed: the event loop is left when there is no window or no painter.
OpenWindow ==
  /\ front = "window" /\ phase = "starting"
  /\ phase' \in {"running", "over"}
  /\ UNCHANGED <<front, tty>>

TearDown == phase' = "over" /\ tty' = "cooked" /\ UNCHANGED front

\* Escape while no agent runs, or an error of the terminal out of draw, poll or read.
LeaveLoop == front = "terminal" /\ Running /\ TearDown

\* Cmd+Q, or the window's close button.
ExitWindow == front = "window" /\ Running /\ phase' = "over" /\ UNCHANGED <<front, tty>>

FrontSteps ==
  \/ EnableRawMode \/ EnterAlternateScreen \/ NewTerminal \/ OpenWindow
  \/ LeaveLoop \/ ExitWindow

-----------------------------------------------------------------------------
(* Properties                                                                 *)

\* A client that got as far as its loop leaves the terminal as it found it: no key
\* can make the terminal build die of a bad slice, which would skip the teardown.
TtyGivenBack == phase = "over" \/ panicked => tty = "cooked"

=============================================================================
