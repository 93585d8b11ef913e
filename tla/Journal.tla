------------------------------ MODULE Journal ------------------------------
(* What an event log promises to the session that appends to it and to the    *)
(* clients that read it later: an event gets the next number, is stored and   *)
(* is then announced; what is stored stays; a crash takes the events that are *)
(* not announced yet, of which some are stored, and none of them comes back.  *)
(* Module EventLog implements it.                                             *)
EXTENDS Naturals, Sequences

CONSTANT Call        \* the calls of append, one for each event

VARIABLES
  up,          \* the process is running
  next,        \* the number of the next event
  number,      \* the number each event got
  state,       \* new, pending (append has not returned), done, lost
  stored,      \* the events that the disk holds under their number
  announced    \* the events whose append returned, in that order

vars == <<up, next, number, state, stored, announced>>

Init ==
  /\ up = FALSE /\ next = 1 /\ number = [c \in Call |-> 0]
  /\ state = [c \in Call |-> "new"] /\ stored = {} /\ announced = <<>>

\* A start goes on behind an event that is stored, or at 1.
Start ==
  /\ ~up /\ up' = TRUE
  /\ next' \in {1} \cup {number[c] + 1 : c \in stored}
  /\ UNCHANGED <<number, state, stored, announced>>

Number(c) ==
  /\ state[c] = "new"
  /\ number' = [number EXCEPT ![c] = next] /\ next' = next + 1

Take(c) ==
  /\ up /\ Number(c)
  /\ state' = [state EXCEPT ![c] = "pending"]
  /\ UNCHANGED <<up, stored, announced>>

Store(c) ==
  /\ state[c] = "pending"
  /\ stored' = stored \cup {c}
  /\ UNCHANGED <<up, next, number, state, announced>>

Announce(c) ==
  /\ state[c] = "pending" /\ c \in stored
  /\ state' = [state EXCEPT ![c] = "done"]
  /\ announced' = Append(announced, c)
  /\ UNCHANGED <<up, next, number, stored>>

\* The pending events are lost, and those in refused.
Die(refused) ==
  /\ up /\ up' = FALSE
  /\ state' = [c \in Call |-> IF state[c] = "pending" \/ c \in refused THEN "lost" ELSE state[c]]
  /\ UNCHANGED <<stored, announced>>

Crash == Die({}) /\ UNCHANGED <<next, number>>

\* An event gets a number and brings the process down.
Refuse(c) == Number(c) /\ Die({c})

Next ==
  \/ Start \/ Crash
  \/ \E c \in Call : Take(c) \/ Refuse(c) \/ Store(c) \/ Announce(c)

Spec == Init /\ [][Next]_vars
=============================================================================
