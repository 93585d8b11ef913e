----------------------------- MODULE EditorText -----------------------------
(* What a line editor may do to the text around its cursor. Module Editor     *)
(* implements it: no operation touches text that is not next to the cursor,   *)
(* and text leaves the line only by being deleted there or submitted whole.   *)
EXTENDS Naturals, Sequences

CONSTANT Input       \* the strings that may be typed or pasted

VARIABLES left, right,   \* the text before and after the cursor
          submitted      \* the text that the last step handed over

vars == <<left, right, submitted>>

Init == left = <<>> /\ right = <<>> /\ submitted = <<>>

\* A run of text that ends or starts at the cursor goes, and s takes its place.
Replace(s) ==
  /\ \/ \E k \in 0..Len(left) : left' = SubSeq(left, 1, k) \o s /\ right' = right
     \/ \E k \in 0..Len(right) : left' = left \o s /\ right' = SubSeq(right, k + 1, Len(right))
  /\ submitted' = <<>>

Move ==
  /\ \E k \in 0..(Len(left) + Len(right)) :
       /\ left' = SubSeq(left \o right, 1, k)
       /\ right' = SubSeq(left \o right, k + 1, Len(left) + Len(right))
  /\ submitted' = <<>>

Submit ==
  /\ left \o right # <<>>
  /\ submitted' = left \o right
  /\ left' = <<>> /\ right' = <<>>

Next == Move \/ Submit \/ \E s \in Input \cup {<<>>} : Replace(s)

Spec == Init /\ [][Next]_vars
=============================================================================
