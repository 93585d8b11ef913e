------------------------------- MODULE Editor -------------------------------
(* The input line of the client: InputEditor (crates/pi-oven-ui/src/editor.rs) *)
(* as the front ends (crates/pi-oven/src/main.rs) and render_input            *)
(* (crates/pi-oven-ui/src/input.rs) use it. Positions are byte offsets into a *)
(* UTF-8 string, and to slice the string anywhere but between two characters  *)
(* is a panic, which ends the client. Which key asks for what is in Keys, and *)
(* what the line looks like on the screen in InputLine.                       *)
EXTENDS Naturals, Sequences, FiniteSets, FiniteSetsExt

CONSTANTS Narrow,    \* characters of one byte
          Wide,      \* characters of two
          Double,    \* characters of three, which take two columns on the screen
          Blank,     \* white space, of one byte
          None,      \* no anchor
          MaxBytes   \* bound: length of the line in bytes

ASSUME EditorAssumption ==
  MaxBytes \in Nat /\ None \notin Nat /\ Blank \cap (Narrow \cup Wide \cup Double) = {}
  /\ Double \cap (Narrow \cup Wide) = {} /\ Narrow \cap Wide = {}

VARIABLES
  buf,        \* the string, as the sequence of its characters
  cursor,     \* byte offset
  anchor,     \* byte offset of the selection's other end, or None
  submitted,  \* the text that the last key sent, if it sent any
  panicked,   \* the client has died of a bad slice
  forward     \* history: delete_after shortened the text under this selection

vars == <<buf, cursor, anchor, submitted, panicked, forward>>

Char == Narrow \cup Wide \cup Double \cup Blank
\* What a key types or the clipboard holds.
Input == {<<c>> : c \in Char} \cup {<<c, d>> : c \in Wide \cup Double, d \in Blank}

LenUtf8(c) == IF c \in Double THEN 3 ELSE IF c \in Wide THEN 2 ELSE 1
Count(s, S) == Cardinality({k \in DOMAIN s : s[k] \in S})
Bytes(s) == Len(s) + Count(s, Wide \cup Double) + Count(s, Double)

\* is_char_boundary
Boundaries(s) == {Bytes(SubSeq(s, 1, k)) : k \in 0..Len(s)}
\* Characters before the boundary p.
Before(s, p) == CHOOSE k \in 0..Len(s) : Bytes(SubSeq(s, 1, k)) = p

TypeOK ==
  /\ buf \in Seq(Char) /\ Bytes(buf) <= MaxBytes
  /\ cursor \in 0..Bytes(buf) /\ anchor \in (0..MaxBytes) \cup {None}
  /\ submitted \in Seq(Char)
  /\ panicked \in BOOLEAN /\ forward \in BOOLEAN

Init ==
  /\ buf = <<>> /\ cursor = 0 /\ anchor = None
  /\ submitted = <<>> /\ panicked = FALSE /\ forward = FALSE

-----------------------------------------------------------------------------
Start == IF cursor <= anchor THEN cursor ELSE anchor
End == IF cursor <= anchor THEN anchor ELSE cursor

\* A slice from p to q does not panic.
Slices(p, q) == p <= q /\ {p, q} \subseteq Boundaries(buf)

Panic == panicked' = TRUE /\ submitted' = <<>> /\ UNCHANGED <<buf, cursor, anchor, forward>>

\* The string without the bytes from p to q.
Drained_Truncates(p, q) == SubSeq(buf, 1, Before(buf, p))
Drained(p, q) == SubSeq(buf, 1, Before(buf, p)) \o SubSeq(buf, Before(buf, q) + 1, Len(buf))

Clamp(p) ==
  IF p >= Bytes(buf) THEN Bytes(buf) ELSE Max({b \in Boundaries(buf) : b <= p})

Keeps == submitted' = <<>> /\ UNCHANGED panicked
Deselect == anchor' = None /\ forward' = FALSE

-----------------------------------------------------------------------------
(* Movement                                                                   *)

\* extend: the anchor stays, or is set where the cursor is.
Mark(extend) ==
  IF extend THEN anchor' = (IF anchor = None THEN cursor ELSE anchor) /\ UNCHANGED forward
            ELSE Deselect

Right_OneByte(p) == IF p < Bytes(buf) THEN p + 1 ELSE p
Right(p) == IF p < Bytes(buf) THEN p + LenUtf8(buf[Before(buf, p) + 1]) ELSE p
Left(p) == IF p = 0 THEN 0 ELSE Max({b \in Boundaries(buf) : b < p})

\* The end of the run of characters of S (of its complement) that starts at p, and
\* the start of the one that ends at p.
RunEnd(S, p) ==
  Max({b \in Boundaries(buf) : b >= p /\ \A k \in (Before(buf, p) + 1)..Before(buf, b) : buf[k] \in S})
RunStart(S, p) ==
  Min({b \in Boundaries(buf) : b <= p /\ \A k \in (Before(buf, b) + 1)..Before(buf, p) : buf[k] \in S})

WordRight_BlanksLast(p) == RunEnd(Blank, RunEnd(Char \ Blank, p))
WordRight(p) == RunEnd(Char \ Blank, RunEnd(Blank, p))
WordLeft(p) == RunStart(Char \ Blank, RunStart(Blank, p))

MoveTo(p, extend) ==
  /\ cursor' = p
  /\ Mark(extend)
  /\ UNCHANGED buf /\ Keeps

\* An arrow key without shift first collapses a selection to its end or start.
Collapse(p) == cursor' = Clamp(p) /\ Deselect /\ UNCHANGED buf /\ Keeps

MoveRight(extend) ==
  IF anchor # None /\ ~extend THEN Collapse(End) ELSE MoveTo(Right(cursor), extend)

MoveLeft(extend) ==
  IF anchor # None /\ ~extend THEN Collapse(Start) ELSE MoveTo(Left(cursor), extend)

-----------------------------------------------------------------------------
(* Editing                                                                    *)

\* Delete from p up to the cursor, or from the cursor up to q.
DeleteBack(p) == buf' = Drained(p, cursor) /\ cursor' = p /\ Deselect /\ Keeps

\* delete_selection, and delete_before with a selection: drain panics on a bad end.
DeleteSelection ==
  IF Slices(Start, End)
  THEN buf' = Drained(Start, End) /\ cursor' = Start /\ Deselect /\ Keeps
  ELSE Panic

DeleteBefore ==
  IF anchor # None THEN DeleteSelection
  ELSE cursor # 0 /\ DeleteBack(Left(cursor))

\* The word before the cursor goes, whatever is selected.
DeleteWordBefore == cursor # 0 /\ DeleteBack(WordLeft(cursor))

DeleteToStart_KeepsAnchor ==
  cursor # 0 /\ buf' = Drained(0, cursor) /\ cursor' = 0 /\ UNCHANGED <<anchor, forward>> /\ Keeps
DeleteToStart == cursor # 0 /\ DeleteBack(0)

\* The anchor stays where it is.
DeleteAfter ==
  /\ cursor < Bytes(buf)
  /\ buf' = Drained(cursor, Right(cursor))
  /\ forward' = (forward \/ anchor # None)
  /\ UNCHANGED <<cursor, anchor>> /\ Keeps

\* push_str: the string b with s inserted at p.
Inserted(b, p, s) == SubSeq(b, 1, Before(b, p)) \o s \o SubSeq(b, Before(b, p) + 1, Len(b))

Type(s) ==
  /\ Bytes(buf) + Bytes(s) <= MaxBytes
  /\ buf' = Inserted(buf, cursor, s) /\ cursor' = cursor + Bytes(s)
  /\ Deselect /\ Keeps

\* Cmd+V: what is typed does not replace the selection, what is pasted does.
Paste(s) ==
  IF anchor = None THEN Type(s)
  ELSE /\ Bytes(buf) + Bytes(s) <= MaxBytes
       /\ IF Slices(Start, End)
          THEN /\ buf' = Inserted(Drained(Start, End), Start, s)
               /\ cursor' = Start + Bytes(s)
               /\ Deselect /\ Keeps
          ELSE Panic

\* Cmd+X reads the selection and deletes it.
Cut == anchor # None /\ DeleteSelection

\* Cmd+C.
Copy == anchor # None /\ ~Slices(Start, End) /\ Panic

Enter ==
  /\ buf # <<>>
  /\ submitted' = buf
  /\ buf' = <<>> /\ cursor' = 0 /\ Deselect
  /\ UNCHANGED panicked

-----------------------------------------------------------------------------
(* Properties                                                                 *)

\* Through every sequence of keys the cursor stays between two characters, also
\* when a stale anchor is what it collapses to.
CursorOnBoundary == cursor \in Boundaries(buf)

\* Only a forward delete under a selection can leave the anchor inside a character
\* or past the end, and only that can end in a panic.
AnchorLostOnlyForward ==
  /\ anchor \notin Boundaries(buf) \cup {None} => forward
  /\ panicked => forward

\* Word movement lands where the specification of the editor says: right after a
\* word, or at its start, and with no other word in between.
WordEnds == {p \in Boundaries(buf) : p > 0 /\ buf[Before(buf, p)] \notin Blank
               /\ (p = Bytes(buf) \/ buf[Before(buf, p) + 1] \in Blank)}
WordStarts == {p \in Boundaries(buf) : p < Bytes(buf) /\ buf[Before(buf, p) + 1] \notin Blank
                 /\ (p = 0 \/ buf[Before(buf, p)] \in Blank)}

WordsMet ==
  /\ WordRight(cursor) = Min({p \in WordEnds : p > cursor} \cup {Bytes(buf)})
  /\ WordLeft(cursor) = Max({p \in WordStarts : p < cursor} \cup {0})

\* No key changes text that is not next to the cursor, and a line leaves the editor
\* whole: Editor implements EditorText.
Text == INSTANCE EditorText WITH
          left <- SubSeq(buf, 1, Before(buf, cursor)),
          right <- SubSeq(buf, Before(buf, cursor) + 1, Len(buf))
TextOnly == Text!Spec

\* "The cursor and anchor SHALL always sit on UTF-8 char boundaries."
AnchorOnBoundary == anchor = None \/ anchor \in Boundaries(buf)

=============================================================================
