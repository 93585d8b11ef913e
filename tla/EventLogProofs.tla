--------------------------- MODULE EventLogProofs ---------------------------
(* What EventLog guarantees for any number of calls, files, crashes and       *)
(* restarts: an event announced is on disk, and a seq is reused only after a  *)
(* start that misread the log. It implements Journal: each of its steps is    *)
(* one of Journal's or changes nothing there. And what holds of its files:    *)
(* which are written, and in which order; and that no append is forgotten.    *)
EXTENDS EventLog, TLAPS

-----------------------------------------------------------------------------
(* Sequences                                                                  *)

\* Appending an element keeps the others where they are.
LEMMA AppendFacts ==
  ASSUME NEW S, NEW s \in Seq(S), NEW x \in S
  PROVE  /\ Append(s, x) \in Seq(S)
         /\ DOMAIN s = 1..Len(s) /\ Len(s) \in Nat
         /\ DOMAIN Append(s, x) = 1..(Len(s) + 1)
         /\ \A i \in DOMAIN s : Append(s, x)[i] = s[i]
         /\ Append(s, x)[Len(s) + 1] = x
OBVIOUS

\* Taking the head moves the others one place down.
LEMMA TailFacts ==
  ASSUME NEW S, NEW s \in Seq(S), s # <<>>
  PROVE  /\ Head(s) \in S /\ Tail(s) \in Seq(S)
         /\ 1 \in DOMAIN s /\ Head(s) = s[1]
         /\ \A i \in DOMAIN Tail(s) : i \in Nat \ {0} /\ i + 1 \in DOMAIN s /\ Tail(s)[i] = s[i + 1]
OBVIOUS

\* Taking the head leaves every other element in the sequence.
LEMMA TailRest ==
  ASSUME NEW S, NEW s \in Seq(S), s # <<>>, NEW k \in DOMAIN s
  PROVE  s[k] = Head(s) \/ \E i \in DOMAIN Tail(s) : Tail(s)[i] = s[k]
<1>1. CASE k = 1
  BY <1>1
<1>2. CASE k # 1
  <2>1. k - 1 \in DOMAIN Tail(s) /\ Tail(s)[k - 1] = s[k]
    BY <1>2
  <2> QED BY <2>1
<1> QED BY <1>1, <1>2

-----------------------------------------------------------------------------
(* Types                                                                      *)

\* A call that awaits an open waits for a file.
OnFile == \A c \in Call : pc[c] \in {"ensuring", "reopening"} => on[c] \in File

\* Both hold at the start.
LEMMA TypeInit == Init => TypeOK /\ OnFile
<1>0. Init => OnFile
  BY DEF Init, OnFile
<1> SUFFICES ASSUME Init PROVE TypeOK
  BY <1>0
<1> USE EventLogAssumption DEF Init
<1>1. up \in BOOLEAN /\ stale \in BOOLEAN
  OBVIOUS
<1>2. /\ lives \in 0..MaxLives /\ nextSeq \in Nat \ {0} /\ seq \in [Call -> Nat]
      /\ cur \in 0..MaxFiles /\ size \in Nat /\ made \in 0..MaxFiles
      /\ on \in [Call -> 0..MaxFiles]
  OBVIOUS
<1>3. /\ st \in [File -> {"none", "opening", "open", "ending", "finished", "closed"}]
      /\ pc \in [Call -> InFlight \cup {"new", "done", "lost"}]
      /\ slow \subseteq Call
  OBVIOUS
<1>4. /\ lines \in [File -> Seq(Line)] /\ fanout \in Seq(Call)
      /\ buf \in [File -> Seq(Call)] /\ acks \in [File -> Seq(Call)]
  OBVIOUS
<1> QED
  BY <1>1, <1>2, <1>3, <1>4 DEF TypeOK

\* open computes a seq: the one after the last line's, or 1.
LEMMA NextAfterType ==
  ASSUME TypeOK, NEW f \in File
  PROVE  NextAfter(f) \in Nat \ {0}
<1>1. lines[f] \in Seq(Line)
  BY DEF TypeOK
<1>2. CASE lines[f] = <<>>
  BY <1>2 DEF NextAfter, ReadLastSeq
<1>3. CASE lines[f] # <<>>
  <2>1. lines[f][Len(lines[f])] \in Line
    BY <1>1, <1>3
  <2> QED BY <2>1 DEF NextAfter, ReadLastSeq, Line
<1> QED BY <1>2, <1>3

\* The death of the process, whichever calls it takes with it.
LEMMA HaltType ==
  ASSUME TypeOK, NEW gone, Halt(gone),
         nextSeq' \in Nat \ {0}, seq' \in [Call -> Nat]
  PROVE  TypeOK'
<1> USE EventLogAssumption
<1>1. up' \in BOOLEAN /\ stale' \in BOOLEAN
  BY DEF Halt, TypeOK
<1>2. /\ lives' \in 0..MaxLives /\ cur' \in 0..MaxFiles /\ size' \in Nat
      /\ made' \in 0..MaxFiles /\ on' \in [Call -> 0..MaxFiles]
  BY DEF Halt, TypeOK
<1>3. /\ st' \in [File -> {"none", "opening", "open", "ending", "finished", "closed"}]
      /\ pc' \in [Call -> InFlight \cup {"new", "done", "lost"}]
  BY DEF Halt, TypeOK
<1>4. /\ fanout' \in Seq(Call) /\ slow' \subseteq Call
      /\ buf' \in [File -> Seq(Call)] /\ acks' \in [File -> Seq(Call)]
  BY DEF Halt, TypeOK
<1>5. lines' \in [File -> Seq(Line)]
  <2>1. CASE UNCHANGED lines
    BY <2>1 DEF TypeOK
  <2>2. ASSUME NEW f \in Writable,
               lines' = [lines EXCEPT ![f] = Append(@, Torn(Head(buf[f])))]
        PROVE  lines' \in [File -> Seq(Line)]
    <3>1. f \in File /\ buf[f] # <<>> /\ buf[f] \in Seq(Call) /\ lines[f] \in Seq(Line)
      BY DEF Writable, TypeOK
    <3>2. Torn(Head(buf[f])) \in Line
      BY <3>1, TailFacts DEF Torn, Line, TypeOK
    <3> QED BY <2>2, <3>1, <3>2, AppendFacts DEF TypeOK
  <2> QED BY <2>1, <2>2 DEF Halt
<1> QED
  BY <1>1, <1>2, <1>3, <1>4, <1>5 DEF TypeOK

\* Each step keeps calls on files.
LEMMA OnFileStep == TypeOK /\ OnFile /\ [Next]_vars => OnFile'
<1> SUFFICES ASSUME TypeOK, OnFile, [Next]_vars PROVE OnFile'
  OBVIOUS
<1> USE EventLogAssumption
<1>1. ASSUME NEW c \in Call, CreateStream(c),
             \/ pc' = [pc EXCEPT ![c] = "ensuring"] \/ pc' = [pc EXCEPT ![c] = "reopening"]
      PROVE  OnFile'
  BY SMTT(60), <1>1 DEF OnFile, CreateStream, TypeOK, File
<1>2. ASSUME NEW gone, Halt(gone) PROVE OnFile'
  BY <1>2 DEF OnFile, Halt, TypeOK
<1>3. ASSUME NEW f \in File, Written(f) PROVE OnFile'
  BY <1>3 DEF OnFile, Written, StartRotate, Return, TypeOK
<1> QED
  BY <1>1, <1>2, <1>3
  DEF Next, vars, OnFile, Open, Crash, Close, AppendOpening, AppendWriting, AppendRefused,
      EnsureDone, SwitchFile, RotateDone, Return, FileOpened, Flush, Finish, TypeOK

\* Each step keeps the types.
LEMMA TypeStep == TypeOK /\ OnFile /\ [Next]_vars => TypeOK'
<1> SUFFICES ASSUME TypeOK, OnFile, [Next]_vars PROVE TypeOK'
  OBVIOUS
<1> USE EventLogAssumption
<1>f. /\ \A f \in File : /\ lines[f] \in Seq(Line)
                         /\ buf[f] \in Seq(Call) /\ acks[f] \in Seq(Call)
      /\ fanout \in Seq(Call)
  BY DEF TypeOK
<1>b. \A f \in File, c \in Call : Append(buf[f], c) \in Seq(Call)
  BY <1>f, AppendFacts
<1>1. CASE Open
  <2>1. nextSeq' \in Nat \ {0}
    BY <1>1, NextAfterType DEF Open, OnDisk
  <2>2. lives' \in 0..MaxLives /\ up' \in BOOLEAN
    BY <1>1 DEF Open, TypeOK
  <2>3. stale' \in BOOLEAN
    BY <1>1 DEF Open, TypeOK, Held
  <2> QED BY <1>1, <2>1, <2>2, <2>3 DEF Open, TypeOK
<1>2. CASE Crash
  BY <1>2, HaltType DEF Crash, stamp, TypeOK
<1>3. CASE Close
  <2>1. st' \in [File -> {"none", "opening", "open", "ending", "finished", "closed"}]
    BY <1>3 DEF Close, TypeOK
  <2> QED BY <1>3, <2>1 DEF Close, TypeOK, life, stamp
<1>4. ASSUME NEW c \in Call, AppendOpening(c) PROVE TypeOK'
  <2>1. TakeSeq(c) /\ CreateStream(c) /\ pc' = [pc EXCEPT ![c] = "ensuring"]
    BY <1>4 DEF AppendOpening
  <2>2. /\ nextSeq' \in Nat \ {0} /\ seq' \in [Call -> Nat]
        /\ made' \in 0..MaxFiles /\ cur' \in 0..MaxFiles /\ on' \in [Call -> 0..MaxFiles]
    BY <2>1 DEF TypeOK, TakeSeq, CreateStream
  <2>3. /\ st' \in [File -> {"none", "opening", "open", "ending", "finished", "closed"}]
        /\ pc' \in [Call -> InFlight \cup {"new", "done", "lost"}]
        /\ slow' \subseteq Call
    BY <2>1 DEF TypeOK, CreateStream, InFlight
  <2> QED BY <1>4, <2>2, <2>3 DEF AppendOpening, TypeOK, life
<1>5. ASSUME NEW c \in Call, AppendWriting(c) PROVE TypeOK'
  <2>1. TakeSeq(c) /\ Enqueue(c) /\ pc' = [pc EXCEPT ![c] = "writing"]
    BY <1>5 DEF AppendWriting
  <2>2. nextSeq' \in Nat \ {0} /\ seq' \in [Call -> Nat]
    BY <2>1 DEF TypeOK, TakeSeq
  <2>3. pc' \in [Call -> InFlight \cup {"new", "done", "lost"}]
    BY <2>1 DEF TypeOK, InFlight
  <2>4. buf' \in [File -> Seq(Call)]
    BY <2>1, <1>b DEF TypeOK, Enqueue
  <2> QED BY <1>5, <2>2, <2>3, <2>4 DEF AppendWriting, TypeOK, life
<1>6. ASSUME NEW c \in Call, AppendRefused(c) PROVE TypeOK'
  <2>1. nextSeq' \in Nat \ {0} /\ seq' \in [Call -> Nat]
    BY <1>6 DEF AppendRefused, TakeSeq, TypeOK
  <2> QED BY <1>6, <2>1, HaltType DEF AppendRefused
<1>7. ASSUME NEW c \in Call, EnsureDone(c) PROVE TypeOK'
  <2>1. Enqueue(c) /\ pc' = [pc EXCEPT ![c] = "writing"] /\ size' = Len(lines[on[c]])
        /\ on[c] \in File
    BY <1>7 DEF EnsureDone, OnFile
  <2>2. pc' \in [Call -> InFlight \cup {"new", "done", "lost"}]
    BY <2>1 DEF TypeOK, InFlight
  <2>3. buf' \in [File -> Seq(Call)]
    BY <2>1, <1>b DEF TypeOK, Enqueue
  <2>4. size' \in Nat
    BY <2>1, <1>f
  <2> QED BY <1>7, <2>2, <2>3, <2>4 DEF EnsureDone, TypeOK, life, stamp
<1>8. ASSUME NEW c \in Call, SwitchFile(c) PROVE TypeOK'
  <2>1. CreateStream(c) /\ pc' = [pc EXCEPT ![c] = "reopening"]
    BY <1>8 DEF SwitchFile
  <2>2. made' \in 0..MaxFiles /\ cur' \in 0..MaxFiles /\ on' \in [Call -> 0..MaxFiles]
    BY <2>1 DEF TypeOK, CreateStream
  <2>3. /\ st' \in [File -> {"none", "opening", "open", "ending", "finished", "closed"}]
        /\ pc' \in [Call -> InFlight \cup {"new", "done", "lost"}]
        /\ slow' \subseteq Call
    BY <2>1 DEF TypeOK, CreateStream, InFlight
  <2> QED BY <1>8, <2>2, <2>3 DEF SwitchFile, TypeOK, life, stamp
<1>9. ASSUME NEW c \in Call, RotateDone(c) PROVE TypeOK'
  <2>1. fanout' \in Seq(Call)
    BY <1>9, <1>f, AppendFacts DEF RotateDone, Return
  <2>2. pc' \in [Call -> InFlight \cup {"new", "done", "lost"}]
    BY <1>9 DEF RotateDone, Return, TypeOK
  <2> QED BY <1>9, <2>1, <2>2 DEF RotateDone, TypeOK, life, stamp
<1>10. ASSUME NEW f \in File, FileOpened(f) PROVE TypeOK'
  <2>1. st' \in [File -> {"none", "opening", "open", "ending", "finished", "closed"}]
    BY <1>10 DEF FileOpened, TypeOK
  <2> QED BY <1>10, <2>1 DEF FileOpened, TypeOK, life, stamp
<1>11. ASSUME NEW f \in File, Flush(f) PROVE TypeOK'
  <2>1. /\ buf[f] # <<>> /\ WriteLine(f, Head(buf[f]))
        /\ buf' = [buf EXCEPT ![f] = Tail(@)]
        /\ acks' = [acks EXCEPT ![f] = Append(@, Head(buf[f]))]
    BY <1>11 DEF Flush, Writable
  <2>2. Head(buf[f]) \in Call /\ Tail(buf[f]) \in Seq(Call)
    BY <2>1, <1>f, TailFacts
  <2>3. buf' \in [File -> Seq(Call)] /\ acks' \in [File -> Seq(Call)]
    BY <2>1, <2>2, <1>f, AppendFacts DEF TypeOK
  <2>4. [seq |-> seq[Head(buf[f])], call |-> Head(buf[f]), whole |-> TRUE] \in Line
    BY <2>2 DEF Line, TypeOK
  <2>5. lines' \in [File -> Seq(Line)]
    BY <2>1, <2>4, <1>f, AppendFacts DEF WriteLine, TypeOK
  <2> QED BY <1>11, <2>3, <2>5 DEF Flush, TypeOK, life, stamp
<1>12. ASSUME NEW f \in File, Written(f) PROVE TypeOK'
  <2>1. Head(acks[f]) \in Call /\ Tail(acks[f]) \in Seq(Call)
    BY <1>12, <1>f, TailFacts DEF Written
  <2>2. acks' \in [File -> Seq(Call)] /\ size' \in Nat
    BY <1>12, <2>1 DEF Written, TypeOK
  <2>3. CASE StartRotate(Head(acks[f])) /\ UNCHANGED fanout
    <3>1. /\ st' \in [File -> {"none", "opening", "open", "ending", "finished", "closed"}]
          /\ pc' \in [Call -> InFlight \cup {"new", "done", "lost"}]
          /\ on' \in [Call -> 0..MaxFiles]
      BY <2>3, <2>1 DEF StartRotate, TypeOK, InFlight
    <3> QED BY <1>12, <2>2, <2>3, <3>1 DEF Written, TypeOK, life, stamp
  <2>4. CASE Return(Head(acks[f])) /\ UNCHANGED <<st, on>>
    <3>1. /\ pc' \in [Call -> InFlight \cup {"new", "done", "lost"}]
          /\ fanout' \in Seq(Call)
      BY <2>4, <2>1, <1>f, AppendFacts DEF Return, TypeOK
    <3> QED BY <1>12, <2>2, <2>4, <3>1 DEF Written, TypeOK, life, stamp
  <2> QED BY <1>12, <2>3, <2>4 DEF Written
<1>13. ASSUME NEW f \in File, Finish(f) PROVE TypeOK'
  <2>1. st' \in [File -> {"none", "opening", "open", "ending", "finished", "closed"}]
    BY <1>13 DEF Finish, TypeOK
  <2> QED BY <1>13, <2>1 DEF Finish, TypeOK, life, stamp
<1>14. CASE UNCHANGED vars
  BY <1>14 DEF vars, life, stamp, TypeOK
<1> QED
  BY <1>1, <1>2, <1>3, <1>4, <1>5, <1>6, <1>7, <1>8, <1>9, <1>10, <1>11, <1>12,
     <1>13, <1>14 DEF Next

\* Type correctness of the event log.
THEOREM TypeCorrect == Spec => []TypeOK
BY TypeInit, OnFileStep, TypeStep, PTL DEF Spec

-----------------------------------------------------------------------------
(* An event announced is on disk                                              *)

\* The calls whose write callback is queued, that rotate, or that have returned
\* wrote their line, and took their seq long before.
Acked == \A f \in File : \A k \in DOMAIN acks[f] :
           Durable(acks[f][k]) /\ pc[acks[f][k]] # "new"
Rotating == \A c \in Call : pc[c] \in {"ending", "reopening"} => Durable(c)
Announced == \A k \in DOMAIN fanout : Durable(fanout[k]) /\ pc[fanout[k]] # "new"

\* A line is in one buffer, once, and its call is past the open.
BufStarted == \A f \in File : \A k \in DOMAIN buf[f] : pc[buf[f][k]] \notin {"new", "ensuring"}
BufOnce == \A f, g \in File : \A i \in DOMAIN buf[f], j \in DOMAIN buf[g] :
             buf[f][i] = buf[g][j] => f = g /\ i = j

QueueInv == TypeOK /\ OnFile /\ BufStarted /\ BufOnce
DurInv == QueueInv /\ Acked /\ Rotating /\ Announced

\* The log only grows, and a call that has started keeps its seq.
Grows == \A f \in File : \A i \in DOMAIN lines[f] :
           i \in DOMAIN lines'[f] /\ lines'[f][i] = lines[f][i]
Keeps == \A c \in Call : pc[c] # "new" =>
           /\ seq'[c] = seq[c] /\ pc'[c] # "new"
           /\ pc[c] # "ensuring" => pc'[c] # "ensuring"

\* The end of the process takes no line away.
LEMMA HaltGrows == ASSUME TypeOK, NEW gone, Halt(gone) PROVE Grows
<1>1. CASE UNCHANGED lines
  BY <1>1 DEF Grows
<1>2. ASSUME NEW f \in Writable,
             lines' = [lines EXCEPT ![f] = Append(@, Torn(Head(buf[f])))]
      PROVE  Grows
  <2>1. f \in File /\ buf[f] # <<>> /\ buf[f] \in Seq(Call) /\ lines[f] \in Seq(Line)
    BY DEF Writable, TypeOK
  <2>2. Torn(Head(buf[f])) \in Line
    BY <2>1, TailFacts DEF Torn, Line, TypeOK
  <2> QED BY <1>2, <2>1, <2>2, AppendFacts DEF Grows, TypeOK
<1> QED BY <1>1, <1>2 DEF Halt

\* A write adds a line.
LEMMA FlushGrows == ASSUME TypeOK, NEW f \in File, Flush(f) PROVE Grows
<1>1. /\ buf[f] # <<>> /\ buf[f] \in Seq(Call) /\ lines[f] \in Seq(Line)
      /\ WriteLine(f, Head(buf[f]))
  BY DEF Flush, Writable, TypeOK
<1>2. [seq |-> seq[Head(buf[f])], call |-> Head(buf[f]), whole |-> TRUE] \in Line
  BY <1>1, TailFacts DEF Line, TypeOK
<1> QED
  BY <1>1, <1>2, AppendFacts DEF Grows, WriteLine, TypeOK

\* No step takes a line away from the disk.
LEMMA StepGrows == TypeOK /\ [Next]_vars => Grows
<1> SUFFICES ASSUME TypeOK, [Next]_vars PROVE Grows
  OBVIOUS
<1>1. CASE UNCHANGED lines
  BY <1>1 DEF Grows
<1>2. ASSUME NEW gone, Halt(gone) PROVE Grows
  BY <1>2, HaltGrows
<1>3. ASSUME NEW f \in File, Flush(f) PROVE Grows
  BY <1>3, FlushGrows
<1> QED
  BY <1>1, <1>2, <1>3
  DEF Next, vars, Open, Crash, Close, AppendOpening, AppendWriting, AppendRefused,
      EnsureDone, SwitchFile, RotateDone, FileOpened, Written, Finish

\* No step gives a call another seq.
LEMMA StepKeeps == TypeOK /\ [Next]_vars => Keeps
<1> SUFFICES ASSUME TypeOK, [Next]_vars PROVE Keeps
  OBVIOUS
<1>1. CASE UNCHANGED <<seq, pc>>
  BY <1>1 DEF Keeps
<1>2. ASSUME NEW c \in Call, pc[c] = "new", TakeSeq(c), NEW q \in {"ensuring", "writing"},
             pc' = [pc EXCEPT ![c] = q]
      PROVE  Keeps
  BY <1>2 DEF Keeps, TakeSeq, TypeOK
<1>3. ASSUME NEW c \in Call, pc[c] = "new", TakeSeq(c), NEW gone, Halt(gone) PROVE Keeps
  BY <1>3 DEF Keeps, TakeSeq, Halt, TypeOK
<1>4. ASSUME NEW c \in Call, UNCHANGED seq, NEW q \in {"writing", "ending", "reopening", "done"},
             pc' = [pc EXCEPT ![c] = q]
      PROVE  Keeps
  BY <1>4 DEF Keeps, TypeOK
<1>5. CASE Crash
  BY <1>5 DEF Crash, Halt, stamp, Keeps, TypeOK
<1>6. ASSUME NEW f \in File, Written(f) PROVE Keeps
  <2>1. UNCHANGED seq /\ acks[f] \in Seq(Call) /\ acks[f] # <<>>
    BY <1>6 DEF Written, stamp, TypeOK
  <2>2. Head(acks[f]) \in Call BY <2>1, TailFacts
  <2> QED BY <1>6, <1>4, <2>1, <2>2 DEF Written, StartRotate, Return
<1>7. ASSUME NEW c \in Call, RotateDone(c) PROVE Keeps
  BY <1>7, <1>4 DEF RotateDone, Return, stamp
<1>8. ASSUME NEW c \in Call, EnsureDone(c) \/ SwitchFile(c) PROVE Keeps
  BY <1>8, <1>4 DEF EnsureDone, SwitchFile, stamp
<1>9. ASSUME NEW c \in Call, AppendOpening(c) \/ AppendWriting(c) \/ AppendRefused(c) PROVE Keeps
  BY <1>9, <1>2, <1>3 DEF AppendOpening, AppendWriting, AppendRefused, CanStart
<1>10. ASSUME NEW f \in File, FileOpened(f) \/ Flush(f) \/ Finish(f) PROVE Keeps
  BY <1>10, <1>1 DEF FileOpened, Flush, Finish, stamp
<1>11. CASE Open \/ Close \/ UNCHANGED vars
  BY <1>11, <1>1 DEF Open, Close, vars, stamp
<1> QED
  BY <1>5, <1>6, <1>7, <1>8, <1>9, <1>10, <1>11 DEF Next

\* What is durable stays durable.
LEMMA DurableKept ==
  ASSUME Grows, Keeps, NEW c \in Call, Durable(c), pc[c] # "new"
  PROVE  Durable(c)' /\ pc'[c] # "new"
<1>1. PICK f \in File : \E i \in DOMAIN lines[f] :
               lines[f][i] = [seq |-> seq[c], call |-> c, whole |-> TRUE]
  BY DEF Durable
<1>2. PICK i \in DOMAIN lines[f] :
               lines[f][i] = [seq |-> seq[c], call |-> c, whole |-> TRUE]
  BY <1>1
<1>3. i \in DOMAIN lines'[f] /\ lines'[f][i] = lines[f][i]
  BY <1>2 DEF Grows
<1>4. seq'[c] = seq[c] /\ pc'[c] # "new"
  BY DEF Keeps
<1> QED BY <1>2, <1>3, <1>4 DEF Durable

-----------------------------------------------------------------------------
\* Handing c's line to the current stream adds it to one buffer at most.
LEMMA EnqueueFacts ==
  ASSUME TypeOK, NEW c \in Call, Enqueue(c)
  PROVE  \A f \in File : \A k \in DOMAIN buf'[f] :
           \/ k \in DOMAIN buf[f] /\ buf'[f][k] = buf[f][k]
           \/ f = cur /\ k = Len(buf[f]) + 1 /\ buf'[f][k] = c
<1> TAKE f \in File
<1>1. buf \in [File -> Seq(Call)] /\ buf[f] \in Seq(Call)
  BY DEF TypeOK
<1>2. CASE f = cur
  <2>1. buf'[f] = Append(buf[f], c)
    BY <1>1, <1>2 DEF Enqueue
  <2> QED BY <1>1, <1>2, <2>1, AppendFacts
<1>3. CASE f # cur
  BY <1>1, <1>3 DEF Enqueue
<1> QED BY <1>2, <1>3

\* A flush takes the head of one buffer.
LEMMA FlushFacts ==
  ASSUME TypeOK, NEW f \in File, Flush(f)
  PROVE  /\ 1 \in DOMAIN buf[f] /\ Head(buf[f]) = buf[f][1] /\ buf[f][1] \in Call
         /\ \A g \in File : \A k \in DOMAIN buf'[g] :
              \/ g # f /\ k \in DOMAIN buf[g] /\ buf'[g][k] = buf[g][k]
              \/ /\ g = f /\ k \in Nat \ {0} /\ k + 1 \in DOMAIN buf[g]
                 /\ buf'[g][k] = buf[g][k + 1]
<1>1. buf \in [File -> Seq(Call)] /\ buf[f] \in Seq(Call) /\ buf[f] # <<>>
      /\ buf' = [buf EXCEPT ![f] = Tail(@)]
  BY DEF TypeOK, Flush, Writable
<1>2. /\ 1 \in DOMAIN buf[f] /\ Head(buf[f]) = buf[f][1] /\ Head(buf[f]) \in Call
      /\ \A i \in DOMAIN Tail(buf[f]) : i \in Nat \ {0} /\ i + 1 \in DOMAIN buf[f]
                                        /\ Tail(buf[f])[i] = buf[f][i + 1]
  BY <1>1, TailFacts
<1>3. ASSUME NEW g \in File, NEW k \in DOMAIN buf'[g]
      PROVE  \/ g # f /\ k \in DOMAIN buf[g] /\ buf'[g][k] = buf[g][k]
             \/ /\ g = f /\ k \in Nat \ {0} /\ k + 1 \in DOMAIN buf[g]
                /\ buf'[g][k] = buf[g][k + 1]
  BY <1>1, <1>2, <1>3
<1> QED BY <1>2, <1>3

\* At the start no line waits.
LEMMA QueueInit == Init => QueueInv
<1> SUFFICES ASSUME Init PROVE BufStarted /\ BufOnce
  BY TypeInit DEF QueueInv
<1>1. \A f \in File : buf[f] = <<>>
  BY DEF Init
<1> QED BY <1>1 DEF BufStarted, BufOnce

\* Each step keeps lines waiting once.
LEMMA QueueStep == QueueInv /\ [Next]_vars => QueueInv'
<1> SUFFICES ASSUME QueueInv, [Next]_vars PROVE BufStarted' /\ BufOnce'
  BY TypeStep, OnFileStep DEF QueueInv
<1>0. TypeOK /\ BufStarted /\ BufOnce /\ Keeps
  BY StepKeeps DEF QueueInv
<1>t. \A f \in File : buf[f] \in Seq(Call) /\ \A k \in DOMAIN buf[f] : buf[f][k] \in Call
  BY <1>0 DEF TypeOK
<1>1. CASE UNCHANGED buf
  BY <1>0, <1>1, <1>t DEF BufStarted, BufOnce, Keeps
<1>2. ASSUME NEW gone, Halt(gone) PROVE BufStarted' /\ BufOnce'
  BY <1>2 DEF Halt, BufStarted, BufOnce
<1>3. ASSUME NEW c \in Call, Enqueue(c), pc[c] \in {"new", "ensuring"}, pc'[c] = "writing"
      PROVE  BufStarted' /\ BufOnce'
  <2>1. \A f \in File : \A k \in DOMAIN buf'[f] :
           \/ k \in DOMAIN buf[f] /\ buf'[f][k] = buf[f][k]
           \/ f = cur /\ k = Len(buf[f]) + 1 /\ buf'[f][k] = c
    BY <1>0, <1>3, EnqueueFacts
  <2>2. \A f \in File : \A k \in DOMAIN buf[f] : buf[f][k] # c
    BY <1>0, <1>3 DEF BufStarted
  <2>3. BufStarted'
    BY <2>1, <1>0, <1>3, <1>t DEF BufStarted, Keeps
  <2>4. BufOnce'
    BY <2>1, <2>2, <1>0 DEF BufOnce
  <2> QED BY <2>3, <2>4
<1>4. ASSUME NEW f \in File, Flush(f) PROVE BufStarted' /\ BufOnce'
  <2>1. \A g \in File : \A k \in DOMAIN buf'[g] :
              \/ g # f /\ k \in DOMAIN buf[g] /\ buf'[g][k] = buf[g][k]
              \/ /\ g = f /\ k \in Nat \ {0} /\ k + 1 \in DOMAIN buf[g]
                 /\ buf'[g][k] = buf[g][k + 1]
    BY <1>0, <1>4, FlushFacts
  <2>2. UNCHANGED pc
    BY <1>4 DEF Flush
  <2>3. BufStarted'
    BY <2>1, <2>2, <1>0 DEF BufStarted
  <2>4. ASSUME NEW g \in File, NEW h \in File, NEW i \in DOMAIN buf'[g],
               NEW j \in DOMAIN buf'[h], buf'[g][i] = buf'[h][j]
        PROVE  g = h /\ i = j
    <3>1. CASE g = f /\ h = f
      <4>1. buf[f][i + 1] = buf[f][j + 1] /\ i \in Nat /\ j \in Nat
            /\ i + 1 \in DOMAIN buf[f] /\ j + 1 \in DOMAIN buf[f]
        BY <2>1, <2>4, <3>1
      <4>2. i + 1 = j + 1
        BY <4>1, <1>0 DEF BufOnce
      <4> QED BY <4>1, <4>2, <3>1
    <3>2. CASE g # f /\ h # f
      BY <2>1, <2>4, <3>2, <1>0 DEF BufOnce
    <3>3. CASE g = f /\ h # f
      BY <2>1, <2>4, <3>3, <1>0 DEF BufOnce
    <3>4. CASE g # f /\ h = f
      BY <2>1, <2>4, <3>4, <1>0 DEF BufOnce
    <3> QED BY <3>1, <3>2, <3>3, <3>4
  <2> QED BY <2>3, <2>4 DEF BufOnce
<1>5. ASSUME NEW c \in Call, AppendWriting(c) PROVE BufStarted' /\ BufOnce'
  BY <1>0, <1>5, <1>3 DEF AppendWriting, CanStart, TypeOK
<1>6. ASSUME NEW c \in Call, EnsureDone(c) PROVE BufStarted' /\ BufOnce'
  BY <1>0, <1>6, <1>3 DEF EnsureDone, TypeOK
<1> QED
  BY <1>1, <1>2, <1>4, <1>5, <1>6
  DEF Next, vars, Open, Crash, Close, AppendOpening, AppendRefused, SwitchFile, RotateDone,
      FileOpened, Written, Finish

-----------------------------------------------------------------------------
\* At the start no call waits for an answer.
LEMMA DurInit == Init => DurInv
<1> SUFFICES ASSUME Init PROVE Acked /\ Rotating /\ Announced
  BY QueueInit DEF DurInv
<1>1. /\ \A f \in File : acks[f] = <<>>
      /\ fanout = <<>> /\ \A c \in Call : pc[c] = "new"
  BY DEF Init
<1> QED BY <1>1 DEF Acked, Rotating, Announced

\* Each step leaves the line of a call that returns on disk.
LEMMA DurStep == DurInv /\ [Next]_vars => DurInv'
<1> SUFFICES ASSUME DurInv, [Next]_vars PROVE Acked' /\ Rotating' /\ Announced'
  BY QueueStep DEF DurInv
<1>0. /\ TypeOK /\ BufStarted /\ Acked /\ Rotating /\ Announced
      /\ Grows /\ Keeps
  BY StepGrows, StepKeeps DEF DurInv, QueueInv
<1>t. /\ \A f \in File : acks[f] \in Seq(Call) /\ \A k \in DOMAIN acks[f] : acks[f][k] \in Call
      /\ fanout \in Seq(Call) /\ \A k \in DOMAIN fanout : fanout[k] \in Call
  BY <1>0 DEF TypeOK
\* What was durable is, and what was acknowledged or announced still counts.
<1>k. \A c \in Call : Durable(c) /\ pc[c] # "new" => Durable(c)' /\ pc'[c] # "new"
  BY <1>0, DurableKept
<1>a. ASSUME UNCHANGED acks PROVE Acked'
  BY <1>a, <1>0, <1>k, <1>t DEF Acked
<1>r. ASSUME \A c \in Call : pc'[c] \in {"ending", "reopening"} =>
                               pc[c] # "new" /\ Durable(c)
      PROVE  Rotating'
  BY <1>r, <1>k DEF Rotating
<1>n. ASSUME UNCHANGED fanout PROVE Announced'
  BY <1>n, <1>0, <1>k, <1>t DEF Announced
<1>p. ASSUME NEW c \in Call, NEW q \in {"ensuring", "writing", "done"},
             pc' = [pc EXCEPT ![c] = q]
      PROVE  Rotating'
  BY <1>p, <1>0, <1>r DEF Rotating, TypeOK
<1>u. ASSUME UNCHANGED pc PROVE Rotating'
  BY <1>u, <1>0, <1>r DEF Rotating
<1>1. ASSUME NEW gone, Halt(gone) PROVE Acked' /\ Rotating' /\ Announced'
  <2>1. Acked' BY <1>1 DEF Halt, Acked
  <2>2. Rotating' BY <1>0, <1>1, <1>r DEF Halt, Rotating, TypeOK
  <2> QED BY <2>1, <2>2, <1>1, <1>n DEF Halt
<1>2. ASSUME NEW c \in Call, AppendOpening(c) \/ AppendWriting(c) \/ EnsureDone(c)
      PROVE  Acked' /\ Rotating' /\ Announced'
  BY <1>2, <1>a, <1>n, <1>p DEF AppendOpening, AppendWriting, EnsureDone
<1>3. ASSUME NEW c \in Call, SwitchFile(c) PROVE Acked' /\ Rotating' /\ Announced'
  <2>1. Rotating'
    BY <1>3, <1>0, <1>r DEF SwitchFile, Rotating, TypeOK
  <2> QED BY <2>1, <1>3, <1>a, <1>n DEF SwitchFile
<1>4. ASSUME NEW c \in Call, Durable(c), pc[c] # "new", Return(c) PROVE Announced'
  <2>1. fanout' = Append(fanout, c) BY <1>4 DEF Return
  <2>2. \A k \in DOMAIN fanout' :
          \/ k \in DOMAIN fanout /\ fanout'[k] = fanout[k]
          \/ fanout'[k] = c
    BY <2>1, <1>t, AppendFacts
  <2> QED BY <2>2, <1>0, <1>k, <1>t, <1>4 DEF Announced
<1>5. ASSUME NEW c \in Call, RotateDone(c) PROVE Acked' /\ Rotating' /\ Announced'
  <2>1. Return(c) /\ UNCHANGED acks /\ pc[c] = "reopening"
    BY <1>5 DEF RotateDone
  <2>2. Durable(c) BY <2>1, <1>0 DEF Rotating
  <2>3. Announced' BY <2>1, <2>2, <1>4
  <2>4. Rotating' BY <2>1, <1>p DEF Return
  <2> QED BY <2>1, <2>3, <2>4, <1>a
<1>6. ASSUME NEW f \in File, Flush(f) PROVE Acked' /\ Rotating' /\ Announced'
  <2>1. PICK c \in Call : c = Head(buf[f]) /\ pc[c] # "new"
    BY <1>0, <1>6, FlushFacts DEF BufStarted
  <2>2. /\ lines' = [lines EXCEPT ![f] = Append(@, [seq |-> seq[c], call |-> c, whole |-> TRUE])]
        /\ acks' = [acks EXCEPT ![f] = Append(@, c)]
        /\ UNCHANGED <<pc, fanout, seq>>
    BY <1>6, <2>1 DEF Flush, WriteLine, stamp
  <2>3. [seq |-> seq[c], call |-> c, whole |-> TRUE] \in Line /\ lines[f] \in Seq(Line)
    BY <2>1, <1>0 DEF Line, TypeOK
  <2>4. Durable(c)'
    <3>1. lines'[f] = Append(lines[f], [seq |-> seq[c], call |-> c, whole |-> TRUE])
      BY <2>2, <1>0 DEF TypeOK
    <3>2. /\ Len(lines[f]) + 1 \in DOMAIN lines'[f]
          /\ lines'[f][Len(lines[f]) + 1] = [seq |-> seq[c], call |-> c, whole |-> TRUE]
      BY <3>1, <2>3, AppendFacts
    <3> QED BY <3>2, <2>2 DEF Durable
  <2>5. \A g \in File : \A k \in DOMAIN acks'[g] :
          \/ k \in DOMAIN acks[g] /\ acks'[g][k] = acks[g][k]
          \/ acks'[g][k] = c
    <3> TAKE g \in File
    <3>1. acks'[g] = IF g = f THEN Append(acks[f], c) ELSE acks[g]
      BY <2>2, <1>0 DEF TypeOK
    <3> QED BY <3>1, <2>1, <1>t, AppendFacts
  <2>6. Acked'
    BY <2>1, <2>2, <2>4, <2>5, <1>0, <1>k, <1>t DEF Acked
  <2> QED BY <2>2, <2>6, <1>u, <1>n
<1>7. ASSUME NEW f \in File, Written(f) PROVE Acked' /\ Rotating' /\ Announced'
  <2>1. /\ acks[f] # <<>> /\ acks' = [acks EXCEPT ![f] = Tail(@)]
        /\ \/ StartRotate(Head(acks[f])) /\ UNCHANGED fanout
           \/ Return(Head(acks[f]))
    BY <1>7 DEF Written
  <2>2. /\ Head(acks[f]) \in Call /\ Durable(Head(acks[f])) /\ pc[Head(acks[f])] # "new"
    BY <2>1, <1>t, <1>0, TailFacts DEF Acked
  <2>3. Acked'
    <3>1. \A g \in File : \A k \in DOMAIN acks'[g] : \E j \in DOMAIN acks[g] : acks'[g][k] = acks[g][j]
      BY SMTT(60), <2>1, <1>t, <1>0, TailFacts DEF TypeOK
    <3> QED BY <3>1, <1>0, <1>k, <1>t DEF Acked
  <2>4. CASE StartRotate(Head(acks[f])) /\ UNCHANGED fanout
    <3>1. Rotating' BY <2>2, <2>4, <1>0, <1>r DEF StartRotate, Rotating, TypeOK
    <3> QED BY <2>3, <2>4, <3>1, <1>n
  <2>5. CASE Return(Head(acks[f]))
    <3>1. Rotating' BY <2>2, <2>5, <1>p DEF Return
    <3> QED BY <2>2, <2>3, <2>5, <3>1, <1>4
  <2> QED BY <2>1, <2>4, <2>5
<1>8. ASSUME UNCHANGED <<pc, acks, fanout>> PROVE Acked' /\ Rotating' /\ Announced'
  BY <1>8, <1>a, <1>n, <1>u
<1> QED
  BY <1>1, <1>2, <1>3, <1>5, <1>6, <1>7, <1>8
  DEF Next, vars, Open, Crash, Close, AppendRefused, FileOpened, Finish

\* An event is handed to the session's callbacks only once its whole line is in a
\* log file, for any interleaving of appends, rotations and crashes.
THEOREM AnnouncedIsDurable == Spec => []FanoutDurable
<1>1. DurInv => FanoutDurable
  BY DEF DurInv, Announced, FanoutDurable
<1> QED BY DurInit, DurStep, <1>1, PTL DEF Spec

-----------------------------------------------------------------------------
(* A seq is reused only after a stale start                                   *)

\* The calls that hold a seq and whose line may yet be written.
Pending(c) == \/ pc[c] = "ensuring"
              \/ \E f \in File : \E k \in DOMAIN buf[f] : buf[f][k] = c

\* A process that is down holds nothing.
DownIdle == up \/ \A c \in Call : ~Pending(c)

\* Every seq on disk, or held by a pending call, lies below the counter, and none
\* of them is held twice.
LogBelow == \A f \in File : \A i \in DOMAIN lines[f] :
              lines[f][i].whole => lines[f][i].seq < nextSeq
HeldBelow == \A c \in Call : Pending(c) => seq[c] < nextSeq
HeldFresh == \A c \in Call : Pending(c) =>
               \A f \in File : \A i \in DOMAIN lines[f] :
                 lines[f][i].whole => lines[f][i].seq # seq[c]
HeldOnce == \A c, d \in Call : Pending(c) /\ Pending(d) /\ seq[c] = seq[d] => c = d
LogOnce == \A f, g \in File : \A i \in DOMAIN lines[f], j \in DOMAIN lines[g] :
             /\ lines[f][i].whole /\ lines[g][j].whole
             /\ lines[f][i].seq = lines[g][j].seq
             => f = g /\ i = j

Fresh == LogBelow /\ HeldBelow /\ HeldFresh /\ HeldOnce /\ LogOnce
SeqInv == QueueInv /\ DownIdle /\ (stale \/ Fresh)

\* The death of the process leaves nothing pending and no whole line more.
LEMMA HaltFacts ==
  ASSUME TypeOK, NEW gone, Outstanding \subseteq gone, Halt(gone)
  PROVE  /\ \A c \in Call : ~Pending(c)'
         /\ \A f \in File : \A i \in DOMAIN lines'[f] :
              lines'[f][i].whole => i \in DOMAIN lines[f] /\ lines'[f][i] = lines[f][i]
<1>1. ASSUME NEW c \in Call PROVE ~Pending(c)'
  <2>1. pc'[c] # "ensuring"
    BY DEF Halt, Outstanding, InFlight, TypeOK
  <2>2. \A f \in File : buf'[f] = <<>>
    BY DEF Halt
  <2> QED BY <2>1, <2>2 DEF Pending
<1>2. CASE UNCHANGED lines
  BY <1>1, <1>2
<1>3. ASSUME NEW f \in Writable,
             lines' = [lines EXCEPT ![f] = Append(@, Torn(Head(buf[f])))]
      PROVE  \A g \in File : \A i \in DOMAIN lines'[g] :
               lines'[g][i].whole => i \in DOMAIN lines[g] /\ lines'[g][i] = lines[g][i]
  <2>1. f \in File /\ buf[f] # <<>> /\ buf[f] \in Seq(Call) /\ lines[f] \in Seq(Line)
    BY DEF Writable, TypeOK
  <2>2. Torn(Head(buf[f])) \in Line /\ ~Torn(Head(buf[f])).whole
    BY <2>1, TailFacts DEF Torn, Line, TypeOK
  <2> TAKE g \in File
  <2>3. lines'[g] = IF g = f THEN Append(lines[f], Torn(Head(buf[f]))) ELSE lines[g]
    BY <1>3, <2>1 DEF TypeOK
  <2> QED BY <2>1, <2>2, <2>3, AppendFacts
<1> QED BY <1>1, <1>2, <1>3 DEF Halt

\* At the start no seq is taken.
LEMMA SeqInit == Init => SeqInv
<1> SUFFICES ASSUME Init PROVE DownIdle /\ Fresh
  BY QueueInit DEF SeqInv
<1>1. /\ \A f \in File : buf[f] = <<>> /\ lines[f] = <<>>
      /\ \A c \in Call : pc[c] = "new"
  BY DEF Init
<1>2. \A c \in Call : ~Pending(c)
  BY <1>1 DEF Pending
<1> QED
  BY <1>1, <1>2 DEF DownIdle, Fresh, LogBelow, HeldBelow, HeldFresh, HeldOnce, LogOnce

\* Each step keeps seqs apart, unless a start was stale.
LEMMA SeqStep == SeqInv /\ [Next]_vars => SeqInv'
<1> SUFFICES ASSUME SeqInv, [Next]_vars PROVE DownIdle' /\ (stale' \/ Fresh')
  BY QueueStep DEF SeqInv
<1>0. TypeOK /\ BufStarted /\ BufOnce /\ DownIdle /\ (stale \/ Fresh)
  BY DEF SeqInv, QueueInv
<1>t. /\ nextSeq \in Nat \ {0} /\ seq \in [Call -> Nat]
      /\ \A f \in File : \A i \in DOMAIN lines[f] : lines[f][i].seq \in Nat
  <2>1. \A f \in File : \A i \in DOMAIN lines[f] : lines[f][i] \in Line
    BY <1>0 DEF TypeOK
  <2> QED BY <2>1, <1>0 DEF TypeOK, Line
\* Steps that touch neither the log nor the seqs and start no pending call.
<1>q. ASSUME UNCHANGED <<stale, nextSeq, seq, lines>>, up' = up,
             \A c \in Call : Pending(c)' => Pending(c)
      PROVE  DownIdle' /\ (stale' \/ Fresh')
  <2>1. DownIdle' BY <1>q, <1>0 DEF DownIdle
  <2>2. Fresh => Fresh'
    BY <1>q DEF Fresh, LogBelow, HeldBelow, HeldFresh, HeldOnce, LogOnce
  <2> QED BY <2>1, <2>2, <1>q, <1>0
\* Steps that take a seq for a call that holds none.
<1>s. ASSUME NEW c \in Call, TakeSeq(c), UNCHANGED <<stale, lines>>, up, up' = up,
             ~Pending(c), \A d \in Call : Pending(d)' => d = c \/ Pending(d)
      PROVE  DownIdle' /\ (stale' \/ Fresh')
  <2>1. DownIdle' BY <1>s DEF DownIdle
  <2>2. /\ nextSeq' = nextSeq + 1 /\ seq'[c] = nextSeq
        /\ \A d \in Call : d # c => seq'[d] = seq[d]
    BY <1>s, <1>t DEF TakeSeq
  <2>3. ASSUME Fresh PROVE Fresh'
    <3>1. LogBelow' BY <2>2, <2>3, <1>s, <1>t DEF Fresh, LogBelow
    <3>2. HeldBelow' BY <2>2, <2>3, <1>s, <1>t DEF Fresh, HeldBelow
    <3>3. HeldFresh'
      BY <2>2, <2>3, <1>s, <1>t DEF Fresh, LogBelow, HeldFresh
    <3>4. HeldOnce' BY <2>2, <2>3, <1>s, <1>t DEF Fresh, HeldBelow, HeldOnce
    <3>5. LogOnce' BY <2>3, <1>s DEF Fresh, LogOnce
    <3> QED BY <3>1, <3>2, <3>3, <3>4, <3>5 DEF Fresh
  <2> QED BY <2>1, <2>3, <1>s, <1>0
\* The death of the process, with or without a seq taken in the same step.
<1>h. ASSUME NEW gone, Outstanding \subseteq gone, Halt(gone),
             nextSeq' = nextSeq \/ nextSeq' = nextSeq + 1
      PROVE  DownIdle' /\ (stale' \/ Fresh')
  <2>1. /\ \A c \in Call : ~Pending(c)'
        /\ \A f \in File : \A i \in DOMAIN lines'[f] :
              lines'[f][i].whole => i \in DOMAIN lines[f] /\ lines'[f][i] = lines[f][i]
    BY <1>h, <1>0, HaltFacts
  <2>2. DownIdle' BY <2>1 DEF DownIdle
  <2>3. ASSUME Fresh PROVE Fresh'
    <3>1. LogBelow' BY <2>1, <2>3, <1>h, <1>t DEF Fresh, LogBelow
    <3>2. HeldBelow' /\ HeldFresh' /\ HeldOnce'
      BY <2>1 DEF HeldBelow, HeldFresh, HeldOnce
    <3>3. LogOnce' BY <2>1, <2>3 DEF Fresh, LogOnce
    <3> QED BY <3>1, <3>2, <3>3 DEF Fresh
  <2>4. stale' = stale BY <1>h DEF Halt
  <2> QED BY <2>2, <2>3, <2>4, <1>0
<1>1. CASE Open
  <2>1. /\ ~up /\ up' = TRUE /\ stale' = (stale \/ Held(nextSeq'))
        /\ UNCHANGED <<seq, lines, buf, pc>>
    BY <1>1 DEF Open
  <2>2. \A c \in Call : ~Pending(c)'
    BY <2>1, <1>0 DEF DownIdle, Pending
  <2>3. ASSUME Fresh, ~Held(nextSeq') PROVE Fresh'
    <3>0. nextSeq' \in Nat
      BY <1>1, <1>0, NextAfterType DEF Open, OnDisk
    <3>1. LogBelow' BY <2>1, <2>3, <1>t, <3>0 DEF Held, LogBelow
    <3>2. HeldBelow' /\ HeldFresh' /\ HeldOnce'
      BY <2>2 DEF HeldBelow, HeldFresh, HeldOnce
    <3>3. LogOnce' BY <2>1, <2>3 DEF Fresh, LogOnce
    <3> QED BY <3>1, <3>2, <3>3 DEF Fresh
  <2> QED BY <2>1, <2>3, <1>0 DEF DownIdle
<1>2. CASE Crash
  BY <1>2, <1>h DEF Crash, stamp
<1>3. ASSUME NEW c \in Call, AppendOpening(c) PROVE DownIdle' /\ (stale' \/ Fresh')
  <2>1. /\ pc[c] = "new" /\ up /\ TakeSeq(c) /\ pc' = [pc EXCEPT ![c] = "ensuring"]
        /\ UNCHANGED <<life, lines, buf>>
    BY <1>3 DEF AppendOpening, CanStart, JsIdle
  <2>2. ~Pending(c) BY <2>1, <1>0 DEF Pending, BufStarted
  <2>3. \A d \in Call : Pending(d)' => d = c \/ Pending(d)
    BY <2>1, <1>0 DEF Pending, TypeOK
  <2> QED BY <2>1, <2>2, <2>3, <1>s DEF life
<1>e. ASSUME NEW c \in Call, Enqueue(c), pc' = [pc EXCEPT ![c] = "writing"]
      PROVE  \A d \in Call : Pending(d)' => d = c \/ Pending(d)
  <2>1. \A f \in File : \A k \in DOMAIN buf'[f] :
           \/ k \in DOMAIN buf[f] /\ buf'[f][k] = buf[f][k]
           \/ f = cur /\ k = Len(buf[f]) + 1 /\ buf'[f][k] = c
    BY <1>0, <1>e, EnqueueFacts
  <2> QED BY <2>1, <1>e, <1>0 DEF Pending, TypeOK
<1>4. ASSUME NEW c \in Call, AppendWriting(c) PROVE DownIdle' /\ (stale' \/ Fresh')
  <2>1. /\ pc[c] = "new" /\ up /\ TakeSeq(c) /\ Enqueue(c)
        /\ pc' = [pc EXCEPT ![c] = "writing"] /\ UNCHANGED <<life, lines>>
    BY <1>4 DEF AppendWriting, CanStart, JsIdle
  <2>2. ~Pending(c) BY <2>1, <1>0 DEF Pending, BufStarted
  <2> QED BY <2>1, <2>2, <1>e, <1>s DEF life
<1>5. ASSUME NEW c \in Call, AppendRefused(c) PROVE DownIdle' /\ (stale' \/ Fresh')
  BY <1>5, <1>h DEF AppendRefused, TakeSeq
<1>6. ASSUME NEW c \in Call, EnsureDone(c) PROVE DownIdle' /\ (stale' \/ Fresh')
  <2>1. /\ pc[c] = "ensuring" /\ Enqueue(c) /\ pc' = [pc EXCEPT ![c] = "writing"]
        /\ UNCHANGED <<life, stamp, lines>>
    BY <1>6 DEF EnsureDone
  <2>2. Pending(c) BY <2>1 DEF Pending
  <2> QED BY <2>1, <2>2, <1>e, <1>q DEF life, stamp
<1>7. ASSUME NEW f \in File, Flush(f) PROVE DownIdle' /\ (stale' \/ Fresh')
  <2>1. PICK c \in Call : c = Head(buf[f]) /\ c = buf[f][1] /\ 1 \in DOMAIN buf[f]
    BY <1>0, <1>7, FlushFacts
  <2>2. \A g \in File : \A k \in DOMAIN buf'[g] :
              \/ g # f /\ k \in DOMAIN buf[g] /\ buf'[g][k] = buf[g][k]
              \/ /\ g = f /\ k \in Nat \ {0} /\ k + 1 \in DOMAIN buf[g]
                 /\ buf'[g][k] = buf[g][k + 1]
    BY <1>0, <1>7, FlushFacts
  <2>3. /\ lines' = [lines EXCEPT ![f] = Append(@, [seq |-> seq[c], call |-> c, whole |-> TRUE])]
        /\ UNCHANGED <<life, stamp, pc>>
    BY <1>7, <2>1 DEF Flush, WriteLine
  <2>4. Pending(c) BY <2>1 DEF Pending
  <2>5. pc[c] # "ensuring" BY <2>1, <1>0 DEF BufStarted
  <2>6. \A d \in Call : Pending(d)' => Pending(d) /\ d # c
    <3> SUFFICES ASSUME NEW d \in Call, Pending(d)' PROVE Pending(d) /\ d # c
      OBVIOUS
    <3>1. CASE pc'[d] = "ensuring"
      BY <3>1, <2>3, <2>5 DEF Pending
    <3>2. ASSUME NEW g \in File, NEW k \in DOMAIN buf'[g], buf'[g][k] = d
          PROVE  Pending(d) /\ d # c
      <4>1. CASE g # f
        <5>1. k \in DOMAIN buf[g] /\ buf[g][k] = d BY <2>2, <3>2, <4>1
        <5> QED BY <5>1, <2>1, <4>1, <1>0 DEF BufOnce, Pending
      <4>2. CASE g = f
        <5>1. k \in Nat \ {0} /\ k + 1 \in DOMAIN buf[f] /\ buf[f][k + 1] = d
          BY <2>2, <3>2, <4>2
        <5>2. k + 1 # 1 BY <5>1
        <5> QED BY <5>1, <5>2, <2>1, <1>0 DEF BufOnce, Pending
      <4> QED BY <4>1, <4>2
    <3> QED BY <3>1, <3>2 DEF Pending
  <2>7. \A g \in File : \A i \in DOMAIN lines'[g] :
          \/ i \in DOMAIN lines[g] /\ lines'[g][i] = lines[g][i]
          \/ g = f /\ i = Len(lines[f]) + 1 /\ lines'[g][i].seq = seq[c]
    <3>1. [seq |-> seq[c], call |-> c, whole |-> TRUE] \in Line /\ lines[f] \in Seq(Line)
      BY <1>0 DEF Line, TypeOK
    <3> TAKE g \in File
    <3>2. lines'[g] = IF g = f THEN Append(lines[f], [seq |-> seq[c], call |-> c, whole |-> TRUE])
                               ELSE lines[g]
      BY <2>3, <1>0 DEF TypeOK
    <3> QED BY <3>1, <3>2, AppendFacts
  <2>8. DownIdle'
    BY <2>3, <2>6, <1>0 DEF DownIdle, life
  <2>9. ASSUME Fresh PROVE Fresh'
    <3>0. UNCHANGED <<nextSeq, seq>> BY <2>3 DEF stamp
    <3>1. LogBelow' BY <3>0, <2>4, <2>7, <2>9 DEF Fresh, LogBelow, HeldBelow
    <3>2. HeldBelow' BY <3>0, <2>6, <2>9 DEF Fresh, HeldBelow
    <3>3. HeldFresh' BY <3>0, <2>4, <2>6, <2>7, <2>9 DEF Fresh, HeldFresh, HeldOnce
    <3>4. HeldOnce' BY <3>0, <2>6, <2>9 DEF Fresh, HeldOnce
    <3>5. LogOnce' BY <2>4, <2>7, <2>9 DEF Fresh, LogOnce, HeldFresh
    <3> QED BY <3>1, <3>2, <3>3, <3>4, <3>5 DEF Fresh
  <2> QED BY <2>3, <2>8, <2>9, <1>0 DEF life
<1>8. ASSUME UNCHANGED <<life, stamp, lines, buf>>,
             \A c \in Call : pc'[c] = "ensuring" => pc[c] = "ensuring"
      PROVE  DownIdle' /\ (stale' \/ Fresh')
  BY <1>8, <1>q DEF life, stamp, Pending
<1>9. ASSUME NEW c \in Call, SwitchFile(c) \/ RotateDone(c) PROVE DownIdle' /\ (stale' \/ Fresh')
  BY <1>8, <1>9, <1>0 DEF SwitchFile, RotateDone, Return, TypeOK
<1>10. ASSUME NEW f \in File, Written(f) PROVE DownIdle' /\ (stale' \/ Fresh')
  BY <1>8, <1>10, <1>0 DEF Written, StartRotate, Return, TypeOK
<1>11. ASSUME NEW f \in File, FileOpened(f) \/ Finish(f) PROVE DownIdle' /\ (stale' \/ Fresh')
  BY <1>8, <1>11 DEF FileOpened, Finish
<1>12. CASE Close \/ UNCHANGED vars
  BY <1>8, <1>12 DEF Close, vars
<1> QED
  BY <1>1, <1>2, <1>3, <1>4, <1>5, <1>6, <1>7, <1>9, <1>10, <1>11, <1>12 DEF Next

\* Two events on disk share a seq only if some start computed a nextSeq that the
\* log already held, whatever crashes, rotates or races.
THEOREM SeqReusedOnlyAfterStaleStart == Spec => []SeqUniqueUnlessStale
<1>1. SeqInv => SeqUniqueUnlessStale
  BY DEF SeqInv, Fresh, LogOnce, SeqUniqueUnlessStale
<1> QED BY SeqInit, SeqStep, <1>1, PTL DEF Spec

-----------------------------------------------------------------------------
(* Lines and queues                                                           *)

\* A line on disk is that of a call that started, under the seq that it took.
LineOfCall == \A f \in File : \A i \in DOMAIN lines[f] :
                /\ pc[lines[f][i].call] # "new"
                /\ lines[f][i].seq = seq[lines[f][i].call]

\* A call whose line waits for the disk, or whose write callback waits, is writing,
\* and waits for one of the two, once.
BufWriting == \A f \in File : \A k \in DOMAIN buf[f] : pc[buf[f][k]] = "writing"
AckWriting == \A f \in File : \A k \in DOMAIN acks[f] : pc[acks[f][k]] = "writing"
AckOnce == \A f, g \in File : \A i \in DOMAIN acks[f], j \in DOMAIN acks[g] :
             acks[f][i] = acks[g][j] => f = g /\ i = j
Apart == \A f, g \in File : \A i \in DOMAIN acks[f], j \in DOMAIN buf[g] :
           acks[f][i] # buf[g][j]

WriteInv == BufWriting /\ AckWriting /\ AckOnce /\ Apart
JInv == DurInv /\ LineOfCall /\ WriteInv

\* At the start there are no lines and no writes.
LEMMA JInit == Init => JInv
<1> SUFFICES ASSUME Init PROVE LineOfCall /\ WriteInv
  BY DurInit DEF JInv
<1>1. \A f \in File : lines[f] = <<>> /\ buf[f] = <<>> /\ acks[f] = <<>>
  BY DEF Init
<1> QED
  BY <1>1 DEF LineOfCall, WriteInv, BufWriting, AckWriting, AckOnce, Apart

\* A step adds one line at most: whole when it is flushed, torn when the process dies.
LEMMA LinesStep ==
  ASSUME DurInv, [Next]_vars
  PROVE  \A f \in File : \A i \in DOMAIN lines'[f] :
           \/ i \in DOMAIN lines[f] /\ lines'[f][i] = lines[f][i]
           \/ \E k \in DOMAIN buf[f] :
                lines'[f][i].call = buf[f][k] /\ lines'[f][i].seq = seq[buf[f][k]]
<1>0. TypeOK BY DEF DurInv, QueueInv
<1>1. CASE UNCHANGED lines
  BY <1>1
<1>2. ASSUME NEW f \in File, buf[f] # <<>>, NEW w \in BOOLEAN,
             lines' = [lines EXCEPT ![f] =
               Append(@, [seq |-> seq[Head(buf[f])], call |-> Head(buf[f]), whole |-> w])]
      PROVE  \A g \in File : \A i \in DOMAIN lines'[g] :
               \/ i \in DOMAIN lines[g] /\ lines'[g][i] = lines[g][i]
               \/ \E k \in DOMAIN buf[g] :
                    lines'[g][i].call = buf[g][k] /\ lines'[g][i].seq = seq[buf[g][k]]
  <2>1. buf[f] \in Seq(Call) /\ lines[f] \in Seq(Line)
    BY <1>0 DEF TypeOK
  <2>2. 1 \in DOMAIN buf[f] /\ Head(buf[f]) = buf[f][1] /\ Head(buf[f]) \in Call
    BY <2>1, <1>2, TailFacts
  <2> DEFINE l == [seq |-> seq[Head(buf[f])], call |-> Head(buf[f]), whole |-> w]
  <2>3. l \in Line
    BY <2>2, <1>0 DEF Line, TypeOK
  <2>4. l.call = buf[f][1] /\ l.seq = seq[buf[f][1]]
    BY <2>2
  <2> TAKE g \in File
  <2>5. lines'[g] = IF g = f THEN Append(lines[f], l) ELSE lines[g]
    BY <1>2, <1>0 DEF TypeOK
  <2> HIDE DEF l
  <2> QED BY <2>1, <2>2, <2>3, <2>4, <2>5, AppendFacts
<1>3. ASSUME NEW gone, Halt(gone), ~UNCHANGED lines
      PROVE  \E f \in File : /\ buf[f] # <<>>
                             /\ lines' = [lines EXCEPT ![f] = Append(@, Torn(Head(buf[f])))]
  BY <1>3 DEF Halt, Writable
<1>4. ASSUME NEW gone, Halt(gone)
      PROVE  \A f \in File : \A i \in DOMAIN lines'[f] :
               \/ i \in DOMAIN lines[f] /\ lines'[f][i] = lines[f][i]
               \/ \E k \in DOMAIN buf[f] :
                    lines'[f][i].call = buf[f][k] /\ lines'[f][i].seq = seq[buf[f][k]]
  BY <1>1, <1>2, <1>3, <1>4 DEF Torn
<1>5. ASSUME NEW f \in File, Flush(f)
      PROVE  \A g \in File : \A i \in DOMAIN lines'[g] :
               \/ i \in DOMAIN lines[g] /\ lines'[g][i] = lines[g][i]
               \/ \E k \in DOMAIN buf[g] :
                    lines'[g][i].call = buf[g][k] /\ lines'[g][i].seq = seq[buf[g][k]]
  BY <1>2, <1>5 DEF Flush, Writable, WriteLine
<1> QED
  BY <1>1, <1>4, <1>5
  DEF Next, vars, Open, Crash, Close, AppendOpening, AppendWriting, AppendRefused,
      EnsureDone, SwitchFile, RotateDone, FileOpened, Written, Finish

\* Each step writes lines of calls that started.
LEMMA LineStep == DurInv /\ LineOfCall /\ [Next]_vars => LineOfCall'
<1> SUFFICES ASSUME DurInv, LineOfCall, [Next]_vars PROVE LineOfCall'
  OBVIOUS
<1>1. TypeOK /\ BufStarted /\ Keeps
  BY StepKeeps DEF DurInv, QueueInv
<1>2. /\ \A f \in File : \A i \in DOMAIN lines[f] : lines[f][i].call \in Call
      /\ \A f \in File : \A k \in DOMAIN buf[f] : buf[f][k] \in Call
  <2>1. \A f \in File : \A i \in DOMAIN lines[f] : lines[f][i] \in Line
    BY <1>1 DEF TypeOK
  <2> QED BY SMTT(60), <1>1, <2>1 DEF TypeOK, Line
<1> QED
  BY <1>1, <1>2, LinesStep DEF LineOfCall, BufStarted, Keeps

\* Each step keeps waiting writes those of writing calls.
LEMMA WriteStep == DurInv /\ WriteInv /\ [Next]_vars => WriteInv'
<1> SUFFICES ASSUME DurInv, WriteInv, [Next]_vars PROVE WriteInv'
  OBVIOUS
<1>0. /\ TypeOK /\ BufStarted /\ BufOnce
      /\ BufWriting /\ AckWriting /\ AckOnce /\ Apart
  BY DEF DurInv, QueueInv, WriteInv
<1>t. /\ \A f \in File : buf[f] \in Seq(Call) /\ \A k \in DOMAIN buf[f] : buf[f][k] \in Call
      /\ \A f \in File : acks[f] \in Seq(Call) /\ \A k \in DOMAIN acks[f] : acks[f][k] \in Call
  BY <1>0 DEF TypeOK
\* Steps that leave the queues alone and whoever is writing too.
<1>1. ASSUME UNCHANGED <<buf, acks>>, \A c \in Call : pc[c] = "writing" => pc'[c] = "writing"
      PROVE  WriteInv'
  BY <1>1, <1>0, <1>t DEF WriteInv, BufWriting, AckWriting, AckOnce, Apart
<1>2. ASSUME NEW c \in Call, UNCHANGED <<buf, acks>>, pc[c] # "writing",
             NEW q, pc' = [pc EXCEPT ![c] = q]
      PROVE  WriteInv'
  BY <1>1, <1>2, <1>0 DEF TypeOK
<1>3. ASSUME NEW gone, Halt(gone) PROVE WriteInv'
  BY <1>3 DEF Halt, WriteInv, BufWriting, AckWriting, AckOnce, Apart
\* Steps that hand a line to the stream.
<1>4. ASSUME NEW c \in Call, Enqueue(c), pc[c] \in {"new", "ensuring"}, UNCHANGED acks,
             pc' = [pc EXCEPT ![c] = "writing"]
      PROVE  WriteInv'
  <2>1. \A f \in File : \A k \in DOMAIN buf'[f] :
           \/ k \in DOMAIN buf[f] /\ buf'[f][k] = buf[f][k]
           \/ f = cur /\ k = Len(buf[f]) + 1 /\ buf'[f][k] = c
    BY <1>0, <1>4, EnqueueFacts
  <2>2. /\ pc'[c] = "writing"
        /\ \A d \in Call : pc[d] = "writing" => pc'[d] = "writing" /\ d # c
    BY <1>4, <1>0 DEF TypeOK
  <2>3. BufWriting' BY <2>1, <2>2, <1>0, <1>t DEF BufWriting
  <2>4. AckWriting' /\ AckOnce' BY <2>2, <1>4, <1>0, <1>t DEF AckWriting, AckOnce
  <2>5. Apart' BY <2>1, <2>2, <1>4, <1>0, <1>t DEF AckWriting, Apart
  <2> QED BY <2>3, <2>4, <2>5 DEF WriteInv
<1>5. ASSUME NEW f \in File, Flush(f) PROVE WriteInv'
  <2>1. /\ 1 \in DOMAIN buf[f] /\ Head(buf[f]) = buf[f][1]
        /\ \A g \in File : \A k \in DOMAIN buf'[g] :
              \/ g # f /\ k \in DOMAIN buf[g] /\ buf'[g][k] = buf[g][k]
              \/ /\ g = f /\ k \in Nat \ {0} /\ k + 1 \in DOMAIN buf[g]
                 /\ buf'[g][k] = buf[g][k + 1]
    BY <1>0, <1>5, FlushFacts
  <2>2. UNCHANGED pc /\ acks' = [acks EXCEPT ![f] = Append(@, buf[f][1])]
    BY <1>5, <2>1 DEF Flush
  <2>3. \A g \in File : \A k \in DOMAIN acks'[g] :
          \/ k \in DOMAIN acks[g] /\ acks'[g][k] = acks[g][k]
          \/ g = f /\ k = Len(acks[f]) + 1 /\ acks'[g][k] = buf[f][1]
    <3> TAKE g \in File
    <3>1. acks'[g] = IF g = f THEN Append(acks[f], buf[f][1]) ELSE acks[g]
      BY <2>2, <1>0 DEF TypeOK
    <3> QED BY <3>1, <2>1, <1>t, AppendFacts
  \* The head was queued once, so that it is in no buffer any more.
  <2>4. \A g \in File : \A k \in DOMAIN buf'[g] :
          /\ buf'[g][k] # buf[f][1]
          /\ \E j \in DOMAIN buf[g] : buf'[g][k] = buf[g][j]
    <3> SUFFICES ASSUME NEW g \in File, NEW k \in DOMAIN buf'[g]
                 PROVE  /\ buf'[g][k] # buf[f][1]
                        /\ \E j \in DOMAIN buf[g] : buf'[g][k] = buf[g][j]
      OBVIOUS
    <3>1. CASE g # f
      BY <2>1, <3>1, <1>0 DEF BufOnce
    <3>2. CASE g = f
      <4>1. k \in Nat \ {0} /\ k + 1 \in DOMAIN buf[f] /\ buf'[g][k] = buf[f][k + 1]
        BY <2>1, <3>2
      <4>2. k + 1 # 1 BY <4>1
      <4> QED BY <4>1, <4>2, <3>2, <2>1, <1>0 DEF BufOnce
    <3> QED BY <3>1, <3>2
  <2>5. BufWriting' BY <2>2, <2>4, <1>0 DEF BufWriting
  <2>6. AckWriting' BY <2>1, <2>2, <2>3, <1>0 DEF BufWriting, AckWriting
  <2>7. AckOnce' BY <2>1, <2>3, <1>0 DEF AckOnce, Apart
  <2>8. Apart' BY <2>1, <2>3, <2>4, <1>0 DEF Apart
  <2> QED BY <2>5, <2>6, <2>7, <2>8 DEF WriteInv
<1>6. ASSUME NEW f \in File, Written(f) PROVE WriteInv'
  <2>1. /\ acks[f] # <<>> /\ acks' = [acks EXCEPT ![f] = Tail(@)] /\ UNCHANGED buf
        /\ \E q \in {"ending", "done"} : pc' = [pc EXCEPT ![Head(acks[f])] = q]
    BY <1>6 DEF Written, StartRotate, Return
  <2>2. /\ 1 \in DOMAIN acks[f] /\ Head(acks[f]) = acks[f][1] /\ acks[f][1] \in Call
        /\ \A i \in DOMAIN Tail(acks[f]) : i \in Nat \ {0} /\ i + 1 \in DOMAIN acks[f]
                                           /\ Tail(acks[f])[i] = acks[f][i + 1]
    BY <2>1, <1>t, TailFacts
  <2>3. \A g \in File : \A k \in DOMAIN acks'[g] :
              \/ g # f /\ k \in DOMAIN acks[g] /\ acks'[g][k] = acks[g][k]
              \/ /\ g = f /\ k \in Nat \ {0} /\ k + 1 \in DOMAIN acks[g]
                 /\ acks'[g][k] = acks[g][k + 1]
    BY <2>1, <2>2, <1>0 DEF TypeOK
  <2>4. \A d \in Call : pc[d] = "writing" /\ d # acks[f][1] => pc'[d] = "writing"
    BY <2>1, <2>2, <1>0 DEF TypeOK
  <2>5. \A g \in File : \A k \in DOMAIN acks'[g] :
          acks'[g][k] # acks[f][1] /\ \E j \in DOMAIN acks[g] : acks'[g][k] = acks[g][j]
    <3> SUFFICES ASSUME NEW g \in File, NEW k \in DOMAIN acks'[g]
                 PROVE  /\ acks'[g][k] # acks[f][1]
                        /\ \E j \in DOMAIN acks[g] : acks'[g][k] = acks[g][j]
      OBVIOUS
    <3>1. CASE g # f
      BY <2>2, <2>3, <3>1, <1>0 DEF AckOnce
    <3>2. CASE g = f
      <4>1. k \in Nat \ {0} /\ k + 1 \in DOMAIN acks[f] /\ acks'[g][k] = acks[f][k + 1]
        BY <2>3, <3>2
      <4>2. k + 1 # 1 BY <4>1
      <4> QED BY <4>1, <4>2, <3>2, <2>2, <1>0 DEF AckOnce
    <3> QED BY <3>1, <3>2
  <2>6. AckWriting' BY <2>4, <2>5, <1>0, <1>t DEF AckWriting
  <2>7. BufWriting' BY <2>1, <2>2, <2>4, <1>0, <1>t DEF BufWriting, Apart
  <2>8. Apart' BY <2>1, <2>5, <1>0 DEF Apart
  <2>9. ASSUME NEW g \in File, NEW h \in File, NEW i \in DOMAIN acks'[g],
               NEW j \in DOMAIN acks'[h], acks'[g][i] = acks'[h][j]
        PROVE  g = h /\ i = j
    <3>1. CASE g = f /\ h = f
      <4>1. acks[f][i + 1] = acks[f][j + 1] /\ i \in Nat /\ j \in Nat
            /\ i + 1 \in DOMAIN acks[f] /\ j + 1 \in DOMAIN acks[f]
        BY <2>3, <2>9, <3>1
      <4>2. i + 1 = j + 1
        BY <4>1, <1>0 DEF AckOnce
      <4> QED BY <4>1, <4>2, <3>1
    <3>2. CASE g # f /\ h # f
      BY <2>3, <2>9, <3>2, <1>0 DEF AckOnce
    <3>3. CASE g = f /\ h # f
      BY <2>3, <2>9, <3>3, <1>0 DEF AckOnce
    <3>4. CASE g # f /\ h = f
      BY <2>3, <2>9, <3>4, <1>0 DEF AckOnce
    <3> QED BY <3>1, <3>2, <3>3, <3>4
  <2> QED BY <2>6, <2>7, <2>8, <2>9 DEF WriteInv, AckOnce
<1>7. ASSUME NEW c \in Call, AppendOpening(c) \/ SwitchFile(c) \/ RotateDone(c) PROVE WriteInv'
  BY <1>7, <1>2 DEF AppendOpening, SwitchFile, RotateDone, Return, CanStart
<1>8. ASSUME NEW c \in Call, AppendWriting(c) \/ EnsureDone(c) PROVE WriteInv'
  BY <1>8, <1>4 DEF AppendWriting, EnsureDone, CanStart
<1>9. ASSUME UNCHANGED <<buf, acks, pc>> PROVE WriteInv'
  BY <1>1, <1>9
<1> QED
  BY <1>3, <1>5, <1>6, <1>7, <1>8, <1>9
  DEF Next, vars, Open, Crash, Close, AppendRefused, FileOpened, Finish

\* Each step keeps them all.
LEMMA JStep == JInv /\ [Next]_vars => JInv'
BY DurStep, LineStep, WriteStep DEF JInv

-----------------------------------------------------------------------------
(* The current file                                                           *)

\* The stream that append writes to is that of the newest file; without one, or
\* without a process, no call of append is outstanding.
CurrentIsNewest == cur # 0 => cur = made
Untouched == \A f \in File : f > made => lines[f] = <<>>
NothingWithout == /\ ~up => cur = 0
                  /\ cur = 0 => \A c \in Call : pc[c] \notin InFlight

\* Only there do lines wait for the disk, or write callbacks for the event loop, and
\* only once it is open do they run.
WaitsAtCurrent == \A f \in File :
                    /\ buf[f] # <<>> \/ acks[f] # <<>> => f = cur
                    /\ acks[f] # <<>> => st[f] \in {"open", "ending"}

\* The call that opens the first file waits for the current one, and none rotates
\* meanwhile. All that rotate wait for the end of one file: the current one, or one
\* that is finished and has been left with nothing to write in the next.
OpenerFirst == \A c \in Call : pc[c] = "ensuring" =>
                 /\ on[c] = cur /\ st[cur] \in {"opening", "open"}
                 /\ \A d \in Call : pc[d] # "ending"
RotatorsTogether ==
  \A c \in Call : pc[c] = "ending" =>
    /\ on[c] \in 1..made
    /\ (on[c] = cur /\ st[cur] = "ending") \/ st[on[c]] = "finished"
    /\ st[on[c]] = "finished" => buf[cur] = <<>> /\ acks[cur] = <<>>
    /\ \A d \in Call : pc[d] = "ending" => on[d] = on[c]

FilesInv == CurrentIsNewest /\ Untouched /\ NothingWithout
            /\ WaitsAtCurrent /\ OpenerFirst /\ RotatorsTogether

\* Steps that leave the streams, the queues and the calls alone.
LEMMA FilesSame ==
  ASSUME FilesInv, UNCHANGED <<cur, made, lines, buf, acks, st, on, pc>>, ~up' => ~up
  PROVE  FilesInv'
<1>1. CurrentIsNewest' /\ Untouched' BY DEF FilesInv, CurrentIsNewest, Untouched
<1>2. NothingWithout' BY DEF FilesInv, NothingWithout
<1>3. WaitsAtCurrent' BY DEF FilesInv, WaitsAtCurrent
<1>4. OpenerFirst' BY DEF FilesInv, OpenerFirst
<1>5. RotatorsTogether' BY DEF FilesInv, RotatorsTogether
<1> QED BY <1>1, <1>2, <1>3, <1>4, <1>5 DEF FilesInv

\* The death of the process, or the close of its log, leaves nothing behind.
LEMMA FilesEnd ==
  ASSUME TypeOK, cur' = 0, \A c \in Call : pc'[c] \notin InFlight, Untouched',
         \A f \in File : buf'[f] = <<>> /\ acks'[f] = <<>>
  PROVE  FilesInv'
BY DEF FilesInv, CurrentIsNewest, NothingWithout, WaitsAtCurrent, OpenerFirst,
       RotatorsTogether, InFlight

\* The end of the process writes to the newest file at most.
LEMMA FilesHalt ==
  ASSUME TypeOK, FilesInv, NEW gone, Outstanding \subseteq gone, Halt(gone)
  PROVE  FilesInv'
<1> USE EventLogAssumption
<1>1. cur' = 0 /\ made' = made /\ \A f \in File : buf'[f] = <<>> /\ acks'[f] = <<>>
  BY DEF Halt
<1>2. \A c \in Call : pc'[c] \notin InFlight
  BY DEF Halt, Outstanding, InFlight
<1>3. Untouched'
  <2>1. CASE UNCHANGED lines
    BY <1>1, <2>1 DEF FilesInv, Untouched
  <2>2. ASSUME NEW f \in Writable, lines' = [lines EXCEPT ![f] = Append(@, Torn(Head(buf[f])))]
        PROVE  Untouched'
    <3>1. f \in File /\ f = made
      BY DEF FilesInv, WaitsAtCurrent, CurrentIsNewest, Writable, File
    <3>2. \A g \in File : g # f => lines'[g] = lines[g]
      BY <2>2 DEF TypeOK
    <3>3. \A g \in File : g > made' => g # f
      BY <1>1, <3>1 DEF File
    <3> QED BY <1>1, <3>2, <3>3 DEF FilesInv, Untouched
  <2> QED BY <2>1, <2>2 DEF Halt
<1> QED BY <1>1, <1>2, <1>3, FilesEnd

\* Each step writes to the newest file only, or opens one behind all others.
LEMMA FilesStep == JInv /\ FilesInv /\ [Next]_vars => FilesInv'
<1> SUFFICES ASSUME JInv, FilesInv, [Next]_vars PROVE FilesInv'
  OBVIOUS
<1> USE EventLogAssumption
<1>0. TypeOK /\ OnFile /\ BufWriting /\ AckWriting
  BY DEF JInv, DurInv, QueueInv, WriteInv
<1>i. /\ CurrentIsNewest /\ Untouched /\ NothingWithout
      /\ WaitsAtCurrent /\ OpenerFirst /\ RotatorsTogether
  BY DEF FilesInv
<1>t. /\ \A f \in File : buf[f] \in Seq(Call) /\ acks[f] \in Seq(Call)
      /\ cur \in 0..MaxFiles /\ made \in 0..MaxFiles /\ 0 \notin File
      /\ pc \in [Call -> InFlight \cup {"new", "done", "lost"}] /\ DOMAIN on = Call
      /\ DOMAIN st = File /\ DOMAIN buf = File /\ DOMAIN acks = File /\ DOMAIN lines = File
  BY <1>0 DEF TypeOK, File
<1>j. JsIdle => \A c \in Call : /\ pc[c] \in {"ensuring", "reopening"} => st[on[c]] = "opening"
                                /\ pc[c] = "ending" => st[on[c]] # "finished"
  BY DEF JsIdle, Runnable
<1>k. /\ ~up => cur = 0
      /\ cur = 0 => \A c \in Call : pc[c] \notin InFlight
  BY <1>i DEF NothingWithout
<1>1. CASE Open \/ UNCHANGED vars
  <2>1. UNCHANGED <<cur, made, lines, buf, acks, st, on, pc>>
    BY <1>1 DEF Open, vars
  <2>2. ~up' => ~up
    BY <1>1 DEF Open, vars, life
  <2> QED BY <2>1, <2>2, FilesSame
<1>2. CASE Crash
  BY <1>0, <1>2, FilesHalt DEF Crash
<1>3. ASSUME NEW c \in Call, AppendRefused(c) PROVE FilesInv'
  BY <1>0, <1>3, FilesHalt DEF AppendRefused
<1>4. CASE Close
  <2>1. /\ cur' = 0 /\ UNCHANGED <<made, lines, buf, acks, pc>>
        /\ \A c \in Call : pc[c] \notin InFlight
    BY <1>4 DEF Close, Outstanding
  <2>2. \A f \in File : buf[f] = <<>>
    <3> SUFFICES ASSUME NEW f \in File, buf[f] # <<>> PROVE FALSE
      OBVIOUS
    <3>1. 1 \in DOMAIN buf[f] /\ buf[f][1] \in Call
      BY <1>t, TailFacts
    <3> QED BY <1>0, <2>1, <3>1 DEF BufWriting, InFlight
  <2>3. \A f \in File : acks[f] = <<>>
    <3> SUFFICES ASSUME NEW f \in File, acks[f] # <<>> PROVE FALSE
      OBVIOUS
    <3>1. 1 \in DOMAIN acks[f] /\ acks[f][1] \in Call
      BY <1>t, TailFacts
    <3> QED BY <1>0, <2>1, <3>1 DEF AckWriting, InFlight
  <2>4. Untouched'
    BY <1>i, <2>1 DEF Untouched
  <2> QED BY <1>0, <2>1, <2>2, <2>3, <2>4, FilesEnd
<1>5. ASSUME NEW c \in Call, AppendOpening(c) PROVE FilesInv'
  <2>1. /\ cur = 0 /\ made < MaxFiles /\ made' = made + 1 /\ cur' = made + 1
        /\ UNCHANGED <<lines, buf, acks>>
    BY <1>5 DEF AppendOpening, CreateStream
  <2>2. /\ st' = [st EXCEPT ![made + 1] = "opening"] /\ on' = [on EXCEPT ![c] = made + 1]
        /\ pc' = [pc EXCEPT ![c] = "ensuring"]
    BY <1>5 DEF AppendOpening, CreateStream
  <2>3. cur' \in File /\ cur' # 0
    BY <1>t, <2>1 DEF File
  <2>4. /\ pc'[c] = "ensuring" /\ on'[c] = cur' /\ st'[cur'] = "opening"
        /\ \A d \in Call : d # c => pc'[d] \notin InFlight
    BY <1>k, <1>t, <2>1, <2>2, <2>3
  <2>5. CurrentIsNewest' /\ Untouched'
    BY <1>i, <1>t, <2>1 DEF CurrentIsNewest, Untouched, File
  <2>6. NothingWithout'
    <3>1. up' = up /\ up
      BY <1>5 DEF AppendOpening, life, CanStart, JsIdle
    <3> QED BY <2>3, <3>1 DEF NothingWithout
  <2>7. WaitsAtCurrent'
    <3>1. \A f \in File : buf[f] = <<>> /\ acks[f] = <<>>
      BY <1>i, <1>t, <2>1 DEF WaitsAtCurrent
    <3> QED BY <2>1, <3>1 DEF WaitsAtCurrent
  <2>8. OpenerFirst' /\ RotatorsTogether'
    BY <2>4 DEF OpenerFirst, RotatorsTogether, InFlight
  <2> QED BY <2>5, <2>6, <2>7, <2>8 DEF FilesInv
\* A line that is handed to the current stream, while no rotator finds its file ended.
<1>6. ASSUME NEW c \in Call, Enqueue(c), UNCHANGED <<up, cur, made, st, lines, acks, on>>,
             pc' = [pc EXCEPT ![c] = "writing"], cur # 0,
             \A d \in Call : pc[d] = "ending" => st[on[d]] # "finished"
      PROVE  FilesInv'
  <2>1. pc'[c] = "writing" /\ \A d \in Call : d # c => pc'[d] = pc[d]
    BY <1>6, <1>t
  <2>2. \A f \in File : f # cur => buf'[f] = buf[f]
    BY <1>6, <1>t DEF Enqueue
  <2>3. CurrentIsNewest' /\ Untouched' /\ NothingWithout'
    BY <1>6, <1>i, <1>k DEF CurrentIsNewest, Untouched, NothingWithout
  <2>4. WaitsAtCurrent'
    BY <1>6, <1>i, <2>2 DEF WaitsAtCurrent
  <2>5. OpenerFirst'
    BY <1>6, <1>i, <2>1 DEF OpenerFirst
  <2>6. RotatorsTogether'
    BY <1>6, <1>i, <2>1 DEF RotatorsTogether
  <2> QED BY <2>3, <2>4, <2>5, <2>6 DEF FilesInv
<1>7. ASSUME NEW c \in Call, AppendWriting(c) PROVE FilesInv'
  <2>1. JsIdle /\ cur # 0
    BY <1>7 DEF AppendWriting, CanStart
  <2>2. /\ Enqueue(c) /\ UNCHANGED <<up, cur, made, st, lines, acks, on>>
        /\ pc' = [pc EXCEPT ![c] = "writing"]
    BY <1>7 DEF AppendWriting, life
  <2> QED BY <1>6, <1>j, <2>1, <2>2
<1>8. ASSUME NEW c \in Call, EnsureDone(c) PROVE FilesInv'
  <2>1. /\ Enqueue(c) /\ UNCHANGED <<up, cur, made, st, lines, acks, on>>
        /\ pc' = [pc EXCEPT ![c] = "writing"] /\ pc[c] = "ensuring"
    BY <1>8 DEF EnsureDone, life
  <2>2. cur # 0
    BY <1>k, <2>1 DEF InFlight
  <2>3. \A d \in Call : pc[d] # "ending"
    BY <1>i, <2>1 DEF OpenerFirst
  <2> QED BY <1>6, <2>1, <2>2, <2>3
<1>9. ASSUME NEW f \in File, FileOpened(f) \/ Finish(f) PROVE FilesInv'
  <2>1. UNCHANGED <<up, cur, made, lines, buf, acks, on, pc>> /\ JsIdle
    BY <1>9 DEF FileOpened, Finish, life
  <2>2. \/ st[f] = "opening" /\ st' = [st EXCEPT ![f] = "open"]
        \/ st[f] = "ending" /\ st' = [st EXCEPT ![f] = "finished"] /\ Drained(f)
    BY <1>9 DEF FileOpened, Finish
  <2>3. \A g \in File : st'[g] = IF g # f THEN st[g]
                                 ELSE IF st[f] = "opening" THEN "open" ELSE "finished"
    BY <1>t, <2>2
  <2>4. CurrentIsNewest' /\ Untouched' /\ NothingWithout'
    BY <1>i, <2>1 DEF CurrentIsNewest, Untouched, NothingWithout
  <2>5. WaitsAtCurrent'
    BY <1>i, <2>1, <2>2, <2>3 DEF WaitsAtCurrent, Drained
  <2>6. OpenerFirst'
    <3> SUFFICES ASSUME NEW c \in Call, pc[c] = "ensuring" PROVE st'[cur] \in {"opening", "open"}
      BY <1>i, <2>1 DEF OpenerFirst
    <3>1. cur \in File
      BY <1>k, <1>t DEF InFlight, File
    <3>2. st[cur] = "opening"
      BY <1>i, <1>j, <2>1 DEF OpenerFirst
    <3> QED BY <2>2, <2>3, <3>1, <3>2
  <2>7. RotatorsTogether'
    <3> SUFFICES ASSUME NEW c \in Call, pc[c] = "ending"
                 PROVE  /\ (on[c] = cur /\ st'[cur] = "ending") \/ st'[on[c]] = "finished"
                        /\ st'[on[c]] = "finished" => buf[cur] = <<>> /\ acks[cur] = <<>>
      BY <1>i, <2>1 DEF RotatorsTogether
    <3>0. on[c] \in 1..made /\ on[c] = cur /\ st[cur] = "ending"
      BY <1>i, <1>j, <2>1 DEF RotatorsTogether
    <3>1. on[c] \in File /\ on[c] = cur /\ st[cur] = "ending"
      BY <1>t, <3>0 DEF File
    <3>2. CASE f # cur
      BY <2>3, <3>1, <3>2
    <3>3. CASE f = cur
      BY <2>2, <2>3, <3>1, <3>3 DEF Drained
    <3> QED BY <3>2, <3>3
  <2> QED BY <2>4, <2>5, <2>6, <2>7 DEF FilesInv
<1>10. ASSUME NEW f \in File, Flush(f) PROVE FilesInv'
  <2>1. /\ buf[f] # <<>> /\ st[f] \in {"open", "ending"}
        /\ UNCHANGED <<up, cur, made, st, on, pc>>
    BY <1>10 DEF Flush, Writable, life
  <2>2. f = cur /\ f = made
    BY <1>i, <1>t, <2>1 DEF WaitsAtCurrent, CurrentIsNewest
  <2>3. \A g \in File : g # f => lines'[g] = lines[g] /\ buf'[g] = buf[g] /\ acks'[g] = acks[g]
    BY <1>10, <1>t DEF Flush, WriteLine
  <2>4. CurrentIsNewest' /\ NothingWithout'
    BY <1>i, <2>1 DEF CurrentIsNewest, NothingWithout
  <2>5. Untouched'
    <3>1. \A g \in File : g > made => g # f
      BY <1>t, <2>2 DEF File
    <3> QED BY <1>i, <2>1, <2>3, <3>1 DEF Untouched
  <2>6. WaitsAtCurrent'
    BY <1>i, <2>1, <2>2, <2>3 DEF WaitsAtCurrent
  <2>7. OpenerFirst'
    BY <1>i, <2>1 DEF OpenerFirst
  <2>8. RotatorsTogether'
    BY <1>i, <2>1, <2>2 DEF RotatorsTogether
  <2> QED BY <2>4, <2>5, <2>6, <2>7, <2>8 DEF FilesInv
<1>11. ASSUME NEW f \in File, Written(f) PROVE FilesInv'
  <2> DEFINE h == Head(acks[f])
  <2>1. /\ JsIdle /\ acks[f] # <<>> /\ acks' = [acks EXCEPT ![f] = Tail(@)]
        /\ UNCHANGED <<up, cur, made, lines, buf>>
    BY <1>11 DEF Written, life
  <2>2. h \in Call /\ pc[h] = "writing"
    <3>1. h \in Call /\ 1 \in DOMAIN acks[f] /\ h = acks[f][1]
      BY <1>t, <2>1, TailFacts
    <3> QED BY <1>0, <3>1 DEF AckWriting
  <2>3. f = cur /\ st[f] \in {"open", "ending"} /\ cur # 0
    BY <1>i, <1>t, <2>1 DEF WaitsAtCurrent
  <2>4. \/ /\ st' = [st EXCEPT ![cur] = "ending"] /\ pc' = [pc EXCEPT ![h] = "ending"]
           /\ on' = [on EXCEPT ![h] = cur]
        \/ UNCHANGED <<st, on>> /\ pc' = [pc EXCEPT ![h] = "done"]
    BY <1>11 DEF Written, StartRotate, Return
  <2> HIDE DEF h
  <2>5. \A c \in Call : pc[c] # "ensuring"
    BY <1>i, <1>j, <2>1, <2>3 DEF OpenerFirst
  <2>6. \A c \in Call : pc[c] = "ending" => on[c] = cur /\ st[cur] = "ending"
    BY <1>i, <1>j, <2>1 DEF RotatorsTogether
  <2>7. \A c \in Call : c # h => pc'[c] = pc[c] /\ on'[c] = on[c]
    BY <1>t, <2>4
  <2>8. \/ pc'[h] = "ending" /\ on'[h] = cur /\ st'[cur] = "ending"
        \/ pc'[h] = "done" /\ st'[cur] = st[cur]
    BY <1>t, <2>2, <2>3, <2>4
  <2>9. CurrentIsNewest' /\ Untouched' /\ NothingWithout'
    BY <1>i, <1>k, <2>1, <2>3 DEF CurrentIsNewest, Untouched, NothingWithout
  <2>10. WaitsAtCurrent'
    <3>1. \A g \in File : g # f => acks'[g] = acks[g]
      BY <1>t, <2>1
    <3>2. st'[f] \in {"open", "ending"}
      BY <2>3, <2>8
    <3> QED BY <1>i, <2>1, <2>3, <3>1, <3>2 DEF WaitsAtCurrent
  <2>11. OpenerFirst'
    BY <2>5, <2>7, <2>8 DEF OpenerFirst
  <2>12. RotatorsTogether'
    <3>1. \A c \in Call : pc'[c] = "ending" => on'[c] = cur /\ st'[cur] = "ending"
      BY <2>6, <2>7, <2>8
    <3>2. cur \in 1..made /\ cur' = cur /\ made' = made
      BY <1>i, <1>t, <2>1, <2>3 DEF CurrentIsNewest
    <3> QED BY <3>1, <3>2 DEF RotatorsTogether
  <2> QED BY <2>9, <2>10, <2>11, <2>12 DEF FilesInv
<1>12. ASSUME NEW c \in Call, SwitchFile(c) PROVE FilesInv'
  <2>1. /\ pc[c] = "ending" /\ st[on[c]] = "finished"
        /\ made < MaxFiles /\ made' = made + 1 /\ cur' = made + 1
        /\ UNCHANGED <<up, lines, buf, acks>>
    BY <1>12 DEF SwitchFile, CreateStream, Runnable, life
  <2>2. /\ st' = [st EXCEPT ![made + 1] = "opening"] /\ on' = [on EXCEPT ![c] = made + 1]
        /\ pc' = [pc EXCEPT ![c] = "reopening"]
    BY <1>12 DEF SwitchFile, CreateStream
  <2>3. /\ cur # 0 /\ cur = made /\ cur' \in File /\ cur' # 0
        /\ \A f \in File : buf[f] = <<>> /\ acks[f] = <<>>
    <3>1. cur # 0
      BY <1>k, <2>1 DEF InFlight
    <3>2. buf[cur] = <<>> /\ acks[cur] = <<>>
      BY <1>i, <2>1 DEF RotatorsTogether
    <3>3. \A f \in File : buf[f] = <<>> /\ acks[f] = <<>>
      BY <1>i, <3>2 DEF WaitsAtCurrent
    <3> QED BY <1>i, <1>t, <2>1, <3>1, <3>3 DEF CurrentIsNewest, File
  <2>4. /\ pc'[c] = "reopening" /\ \A d \in Call : d # c => pc'[d] = pc[d] /\ on'[d] = on[d]
    BY <1>t, <2>2
  <2>5. CurrentIsNewest' /\ Untouched'
    BY <1>i, <1>t, <2>1 DEF CurrentIsNewest, Untouched, File
  <2>6. NothingWithout'
    BY <1>k, <2>1, <2>3 DEF NothingWithout
  <2>7. WaitsAtCurrent'
    BY <2>1, <2>3 DEF WaitsAtCurrent
  <2>8. OpenerFirst'
    BY <1>i, <2>1, <2>4 DEF OpenerFirst
  <2>9. RotatorsTogether'
    <3> SUFFICES ASSUME NEW d \in Call, d # c, pc[d] = "ending"
                 PROVE  /\ on[d] \in 1..made' /\ st'[on[d]] = "finished"
                        /\ buf'[cur'] = <<>> /\ acks'[cur'] = <<>>
                        /\ \A e \in Call : e # c /\ pc[e] = "ending" => on[e] = on[d]
      BY <2>4 DEF RotatorsTogether
    <3>1. /\ on[d] = on[c] /\ on[d] \in 1..made
          /\ \A e \in Call : pc[e] = "ending" => on[e] = on[d]
      BY <1>i, <2>1 DEF RotatorsTogether
    <3>2. on[d] \in File /\ on[d] # made + 1 /\ on[d] \in 1..made'
      BY <1>t, <2>1, <3>1 DEF File
    <3> QED BY <1>t, <2>1, <2>2, <2>3, <3>1, <3>2
  <2> QED BY <2>5, <2>6, <2>7, <2>8, <2>9 DEF FilesInv
<1>13. ASSUME NEW c \in Call, RotateDone(c) PROVE FilesInv'
  <2>1. /\ UNCHANGED <<up, cur, made, st, lines, buf, acks, on>>
        /\ pc[c] = "reopening" /\ pc' = [pc EXCEPT ![c] = "done"]
    BY <1>13 DEF RotateDone, Return, life
  <2>2. pc'[c] = "done" /\ \A d \in Call : d # c => pc'[d] = pc[d]
    BY <1>t, <2>1
  <2>3. CurrentIsNewest' /\ Untouched' /\ WaitsAtCurrent'
    BY <1>i, <2>1 DEF CurrentIsNewest, Untouched, WaitsAtCurrent
  <2>4. NothingWithout'
    BY <1>k, <2>1, <2>2 DEF NothingWithout, InFlight
  <2>5. OpenerFirst'
    BY <1>i, <2>1, <2>2 DEF OpenerFirst
  <2>6. RotatorsTogether'
    BY <1>i, <2>1, <2>2 DEF RotatorsTogether
  <2> QED BY <2>3, <2>4, <2>5, <2>6 DEF FilesInv
<1> QED
  BY <1>1, <1>2, <1>3, <1>4, <1>5, <1>7, <1>8, <1>9, <1>10, <1>11, <1>12, <1>13 DEF Next

\* At the start there is no file.
LEMMA FilesInit == Init => FilesInv
<1> SUFFICES ASSUME Init PROVE FilesInv
  OBVIOUS
<1>1. /\ cur = 0 /\ \A c \in Call : pc[c] = "new"
      /\ \A f \in File : lines[f] = <<>> /\ buf[f] = <<>> /\ acks[f] = <<>>
  BY DEF Init
<1> QED
  BY <1>1 DEF FilesInv, CurrentIsNewest, Untouched, NothingWithout, WaitsAtCurrent, OpenerFirst,
              RotatorsTogether, InFlight

-----------------------------------------------------------------------------
(* What each file holds, and in which order                                   *)

\* A step writes to the newest file only.
LEMMA FrozenStep ==
  ASSUME JInv, FilesInv, [Next]_vars
  PROVE  \A f, g \in File : f < g /\ lines[g] # <<>> => lines'[f] = lines[f]
<1>0. TypeOK /\ WaitsAtCurrent /\ CurrentIsNewest /\ Untouched
  BY DEF JInv, DurInv, QueueInv, FilesInv
<1>1. UNCHANGED lines \/ \E h \in Writable : \A f \in File : f # h => lines'[f] = lines[f]
  <2>1. ASSUME NEW h \in Writable, NEW l, lines' = [lines EXCEPT ![h] = Append(@, l)]
        PROVE  \A f \in File : f # h => lines'[f] = lines[f]
    BY <1>0, <2>1 DEF TypeOK
  <2>2. ASSUME NEW gone, Halt(gone)
        PROVE  UNCHANGED lines \/ \E h \in Writable : \A f \in File : f # h => lines'[f] = lines[f]
    BY <2>1, <2>2 DEF Halt
  <2>3. ASSUME NEW h \in File, Flush(h)
        PROVE  \E g \in Writable : \A f \in File : f # g => lines'[f] = lines[f]
    BY <2>1, <2>3 DEF Flush, WriteLine
  <2> QED
    BY <2>2, <2>3
    DEF Next, vars, Open, Crash, Close, AppendOpening, AppendWriting, AppendRefused,
        EnsureDone, SwitchFile, RotateDone, FileOpened, Written, Finish
<1>2. ASSUME NEW h \in Writable PROVE h \in File /\ h = made
  BY <1>0 DEF Writable, WaitsAtCurrent, CurrentIsNewest, File
<1>3. ASSUME NEW f \in File, NEW g \in File, f < g, lines[g] # <<>> PROVE f # made
  BY <1>0, <1>3 DEF Untouched
<1> QED BY <1>1, <1>2, <1>3

\* Once a newer file holds a line an older one is never written again, whatever rotates
\* at once, crashes or starts again: open need read the newest only.
THEOREM OldFilesAreFrozen == Spec => OlderFilesFrozen
<1>1. JInv /\ FilesInv /\ [Next]_vars
        => [\A f, g \in File : f < g /\ lines[g] # <<>> => lines'[f] = lines[f]]_vars
  BY FrozenStep
<1>2. Spec => [][\A f, g \in File : f < g /\ lines[g] # <<>> => lines'[f] = lines[f]]_vars
  BY <1>1, JInit, JStep, FilesInit, FilesStep, PTL DEF Spec
<1> QED BY <1>2 DEF OlderFilesFrozen

\* What a call took and what the current file holds is below the counter; a line
\* behind one of a larger seq, on disk or on its way there, is that of an opener.
OpenerIsSlow == \A c \in Call : pc[c] = "ensuring" => c \in slow
TakenBelow == \A c \in Call : pc[c] \in InFlight => seq[c] < nextSeq
FileBelow == \A f \in File : f = cur => \A i \in DOMAIN lines[f] : lines[f][i].seq < nextSeq
LateOnItsWay ==
  \A f \in File : \A k \in DOMAIN buf[f] :
    /\ \A i \in DOMAIN lines[f] : lines[f][i].seq > seq[buf[f][k]] => buf[f][k] \in slow
    /\ \A j \in DOMAIN buf[f] : j < k /\ seq[buf[f][j]] > seq[buf[f][k]] => buf[f][k] \in slow

LateInv == OpenerIsSlow /\ TakenBelow /\ FileBelow /\ LateOnItsWay /\ OnlyOpenerLate

\* The line at the head of a buffer comes to stand behind those of its file.
LEMMA LateLine ==
  ASSUME TypeOK, LateInv, NEW f \in File, buf[f] # <<>>, NEW w \in BOOLEAN, slow' = slow,
         lines' = [lines EXCEPT ![f] =
           Append(@, [seq |-> seq[Head(buf[f])], call |-> Head(buf[f]), whole |-> w])]
  PROVE  OnlyOpenerLate'
<1>1. buf[f] \in Seq(Call) /\ lines[f] \in Seq(Line)
  BY DEF TypeOK
<1>2. 1 \in DOMAIN buf[f] /\ Head(buf[f]) = buf[f][1] /\ Head(buf[f]) \in Call
  BY <1>1, TailFacts
<1> DEFINE l == [seq |-> seq[Head(buf[f])], call |-> Head(buf[f]), whole |-> w]
<1>3. l \in Line /\ l.call = buf[f][1] /\ l.seq = seq[buf[f][1]]
  BY <1>2 DEF Line, TypeOK
<1>4. \A g \in File : lines'[g] = IF g = f THEN Append(lines[f], l) ELSE lines[g]
  BY DEF TypeOK
<1> HIDE DEF l
<1>5. /\ \A i \in DOMAIN lines[f] : i \in Nat /\ i <= Len(lines[f]) /\ lines'[f][i] = lines[f][i]
      /\ \A i \in DOMAIN lines'[f] : i \in Nat /\ (i \in DOMAIN lines[f] \/ i = Len(lines[f]) + 1)
      /\ lines'[f][Len(lines[f]) + 1] = l /\ Len(lines[f]) \in Nat
  <2>1. l \in Line
    BY <1>3
  <2>2. /\ DOMAIN lines[f] = 1..Len(lines[f]) /\ Len(lines[f]) \in Nat
        /\ DOMAIN Append(lines[f], l) = 1..(Len(lines[f]) + 1)
        /\ \A i \in DOMAIN lines[f] : Append(lines[f], l)[i] = lines[f][i]
        /\ Append(lines[f], l)[Len(lines[f]) + 1] = l
    BY <1>1, <2>1, AppendFacts
  <2>3. lines'[f] = Append(lines[f], l)
    BY <1>4
  <2> QED BY <2>2, <2>3
<1> SUFFICES ASSUME NEW g \in File, NEW i \in DOMAIN lines'[g], NEW j \in DOMAIN lines'[g],
                    i < j, lines'[g][i].seq > lines'[g][j].seq
             PROVE  lines'[g][j].call \in slow
  BY DEF OnlyOpenerLate
<1>6. CASE g # f
  BY <1>4, <1>6 DEF LateInv, OnlyOpenerLate
<1>7. CASE g = f /\ j \in DOMAIN lines[f]
  <2>1. i \in DOMAIN lines[f]
    BY <1>5, <1>7
  <2> QED BY <1>5, <1>7, <2>1 DEF LateInv, OnlyOpenerLate
<1>8. CASE g = f /\ j = Len(lines[f]) + 1
  <2>1. i \in DOMAIN lines[f]
    BY <1>5, <1>8
  <2> QED BY <1>2, <1>3, <1>5, <1>8, <2>1 DEF LateInv, LateOnItsWay
<1> QED BY <1>5, <1>6, <1>7, <1>8

\* Once the process has ended no call is on its way.
LEMMA LateHalt ==
  ASSUME TypeOK, LateInv, NEW gone, Outstanding \subseteq gone, Halt(gone)
  PROVE  LateInv'
<1>1. cur' = 0 /\ slow' = slow /\ \A f \in File : buf'[f] = <<>>
  BY DEF Halt
<1>2. \A c \in Call : pc'[c] \notin InFlight
  BY DEF Halt, Outstanding, InFlight
<1>3. OnlyOpenerLate'
  <2>1. CASE UNCHANGED lines
    BY <1>1, <2>1 DEF LateInv, OnlyOpenerLate
  <2>2. ASSUME NEW f \in Writable, lines' = [lines EXCEPT ![f] = Append(@, Torn(Head(buf[f])))]
        PROVE  OnlyOpenerLate'
    BY <1>1, <2>2, LateLine DEF Torn, Writable
  <2> QED BY <2>1, <2>2 DEF Halt
<1>4. OpenerIsSlow' /\ TakenBelow'
  BY <1>2 DEF OpenerIsSlow, TakenBelow, InFlight
<1>5. FileBelow'
  BY <1>1 DEF FileBelow, File
<1>6. LateOnItsWay'
  BY <1>1 DEF LateOnItsWay
<1> QED BY <1>3, <1>4, <1>5, <1>6 DEF LateInv

\* Each step keeps everyone but openers in the order of their seqs.
LEMMA LateStep == JInv /\ FilesInv /\ LateInv /\ [Next]_vars => LateInv'
<1> SUFFICES ASSUME JInv, FilesInv, LateInv, [Next]_vars PROVE LateInv'
  OBVIOUS
<1>0. TypeOK /\ BufWriting /\ BufOnce
  BY DEF JInv, DurInv, QueueInv, WriteInv
<1>i. OpenerIsSlow /\ TakenBelow /\ FileBelow /\ LateOnItsWay /\ OnlyOpenerLate
  BY DEF LateInv
<1>k. /\ ~up => cur = 0
      /\ cur = 0 => \A c \in Call : pc[c] \notin InFlight
  BY DEF FilesInv, NothingWithout
<1>t. /\ nextSeq \in Nat \ {0} /\ seq \in [Call -> Nat]
      /\ \A f \in File : \A i \in DOMAIN lines[f] : lines[f][i].seq \in Nat
      /\ \A f \in File : buf[f] \in Seq(Call) /\ \A k \in DOMAIN buf[f] : buf[f][k] \in Call
      /\ cur \in 0..MaxFiles /\ made \in 0..MaxFiles /\ 0 \notin File
      /\ DOMAIN buf = File /\ DOMAIN lines = File /\ DOMAIN pc = Call
  <2>1. \A f \in File : \A i \in DOMAIN lines[f] : lines[f][i] \in Line
    BY <1>0 DEF TypeOK
  <2>2. \A f \in File : buf[f] \in Seq(Call)
    BY <1>0 DEF TypeOK
  <2>3. \A f \in File : \A i \in DOMAIN lines[f] : lines[f][i].seq \in Nat
    BY <2>1 DEF Line
  <2>4. \A f \in File : \A k \in DOMAIN buf[f] : buf[f][k] \in Call
    BY <2>2
  <2> QED BY <1>0, <2>2, <2>3, <2>4, EventLogAssumption DEF TypeOK, File
\* Steps that write nothing, number nothing and leave the current file.
<1>1. ASSUME UNCHANGED <<cur, nextSeq, seq, lines, buf>>, slow \subseteq slow',
             \A c \in Call : /\ pc'[c] = "ensuring" => pc[c] = "ensuring"
                             /\ pc'[c] \in InFlight => pc[c] \in InFlight
      PROVE  LateInv'
  <2>1. OpenerIsSlow' /\ TakenBelow' /\ FileBelow'
    BY <1>1, <1>i DEF OpenerIsSlow, TakenBelow, FileBelow
  <2>2. LateOnItsWay' /\ OnlyOpenerLate'
    BY <1>1, <1>i DEF LateOnItsWay, OnlyOpenerLate
  <2> QED BY <2>1, <2>2 DEF LateInv
<1>2. CASE Open
  <2>1. /\ cur = 0 /\ UNCHANGED <<cur, seq, lines, buf, slow, pc>>
        /\ \A c \in Call : pc[c] \notin InFlight
    BY <1>2, <1>k DEF Open
  <2>2. OpenerIsSlow' /\ TakenBelow' /\ FileBelow'
    BY <1>i, <1>t, <2>1 DEF OpenerIsSlow, TakenBelow, FileBelow
  <2>3. LateOnItsWay' /\ OnlyOpenerLate'
    BY <1>i, <2>1 DEF LateOnItsWay, OnlyOpenerLate
  <2> QED BY <2>2, <2>3 DEF LateInv
<1>3. CASE Crash
  BY <1>0, <1>3, LateHalt DEF Crash
<1>4. ASSUME NEW c \in Call, AppendRefused(c) PROVE LateInv'
  <2>1. \A f \in File : \A k \in DOMAIN buf[f] : buf[f][k] # c
    BY <1>0, <1>4 DEF AppendRefused, CanStart, BufWriting
  <2> QED BY <1>0, <1>4, LateHalt DEF AppendRefused
<1>5. ASSUME NEW c \in Call, AppendOpening(c) PROVE LateInv'
  <2>1. /\ cur' = made + 1 /\ UNCHANGED <<lines, buf>> /\ slow' = slow \cup {c}
        /\ pc' = [pc EXCEPT ![c] = "ensuring"] /\ pc[c] = "new"
        /\ seq' = [seq EXCEPT ![c] = nextSeq] /\ nextSeq' = nextSeq + 1
        /\ made < MaxFiles
    BY <1>5 DEF AppendOpening, CreateStream, TakeSeq, CanStart
  <2>2. /\ seq'[c] = nextSeq /\ \A d \in Call : d # c => seq'[d] = seq[d] /\ pc'[d] = pc[d]
    BY <1>t, <2>1
  <2>3. \A f \in File : \A k \in DOMAIN buf[f] : buf[f][k] # c
    BY <1>0, <2>1 DEF BufWriting
  <2>4. OpenerIsSlow' /\ TakenBelow'
    BY <1>i, <1>t, <2>1, <2>2 DEF OpenerIsSlow, TakenBelow
  <2>5. FileBelow'
    <3>1. lines[made + 1] = <<>>
      BY <1>t, <2>1, EventLogAssumption DEF FilesInv, Untouched, File
    <3> QED BY <2>1, <3>1 DEF FileBelow
  <2>6. LateOnItsWay' /\ OnlyOpenerLate'
    BY <1>i, <1>t, <2>1, <2>2, <2>3 DEF LateOnItsWay, OnlyOpenerLate
  <2> QED BY <2>4, <2>5, <2>6 DEF LateInv
\* A line that goes into the buffer behind the others, of the call that took the newest
\* seq or of an opener.
<1>6. ASSUME NEW c \in Call, Enqueue(c), UNCHANGED lines, slow' = slow, cur # 0,
             \A d \in Call : d # c => seq'[d] = seq[d],
             \A f \in File : \A k \in DOMAIN buf[f] : buf[f][k] # c,
             \/ c \in slow
             \/ /\ \A i \in DOMAIN lines[cur] : lines[cur][i].seq < seq'[c]
                /\ \A j \in DOMAIN buf[cur] : seq[buf[cur][j]] < seq'[c]
                /\ seq'[c] \in Nat
      PROVE  LateOnItsWay' /\ OnlyOpenerLate'
  <2>1. \A f \in File : \A k \in DOMAIN buf'[f] :
           \/ k \in DOMAIN buf[f] /\ buf'[f][k] = buf[f][k]
           \/ f = cur /\ k = Len(buf[f]) + 1 /\ buf'[f][k] = c
    BY <1>0, <1>6, EnqueueFacts
  <2>2. OnlyOpenerLate'
    BY <1>6, <1>i DEF OnlyOpenerLate
  <2>3. LateOnItsWay'
    <3> SUFFICES ASSUME NEW f \in File, NEW k \in DOMAIN buf'[f]
                 PROVE  /\ \A i \in DOMAIN lines[f] :
                             lines[f][i].seq > seq'[buf'[f][k]] => buf'[f][k] \in slow
                        /\ \A j \in DOMAIN buf'[f] :
                             j < k /\ seq'[buf'[f][j]] > seq'[buf'[f][k]] => buf'[f][k] \in slow
      BY <1>6 DEF LateOnItsWay
    <3>1. CASE k \in DOMAIN buf[f] /\ buf'[f][k] = buf[f][k]
      <4>1. buf[f][k] \in Call /\ seq'[buf'[f][k]] = seq[buf[f][k]]
        BY <1>6, <1>t, <3>1
      <4>2. ASSUME NEW j \in DOMAIN buf'[f], j < k
            PROVE  j \in DOMAIN buf[f] /\ seq'[buf'[f][j]] = seq[buf[f][j]]
        <5>1. k <= Len(buf[f]) /\ k \in Nat /\ Len(buf[f]) \in Nat
          BY <1>t, <3>1
        <5>2. j \in DOMAIN buf[f] /\ buf'[f][j] = buf[f][j]
          BY <2>1, <4>2, <5>1
        <5> QED BY <1>6, <1>t, <5>2
      <4> QED BY <1>i, <3>1, <4>1, <4>2 DEF LateOnItsWay
    <3>2. CASE f = cur /\ k = Len(buf[f]) + 1 /\ buf'[f][k] = c
      <4>1. CASE c \in slow
        BY <3>2, <4>1
      <4>2. CASE c \notin slow
        <5>1. \A i \in DOMAIN lines[f] : ~(lines[f][i].seq > seq'[c])
          BY <1>6, <1>t, <3>2, <4>2
        <5>2. ASSUME NEW j \in DOMAIN buf'[f], j < k PROVE ~(seq'[buf'[f][j]] > seq'[c])
          <6>1. j \in DOMAIN buf[f] /\ buf'[f][j] = buf[f][j]
            BY <1>t, <2>1, <3>2, <5>2
          <6>2. seq'[buf'[f][j]] = seq[buf[f][j]] /\ seq[buf[f][j]] \in Nat
            BY <1>6, <1>t, <6>1
          <6> QED BY <1>6, <3>2, <4>2, <6>1, <6>2
        <5> QED BY <3>2, <5>1, <5>2
      <4> QED BY <4>1, <4>2
    <3> QED BY <2>1, <3>1, <3>2
  <2> QED BY <2>2, <2>3
<1>7. ASSUME NEW c \in Call, AppendWriting(c) PROVE LateInv'
  <2>1. /\ cur # 0 /\ UNCHANGED <<cur, lines, slow>> /\ Enqueue(c)
        /\ pc' = [pc EXCEPT ![c] = "writing"] /\ pc[c] = "new"
        /\ seq' = [seq EXCEPT ![c] = nextSeq] /\ nextSeq' = nextSeq + 1
    BY <1>7 DEF AppendWriting, TakeSeq, CanStart
  <2>2. /\ seq'[c] = nextSeq /\ pc'[c] = "writing"
        /\ \A d \in Call : d # c => seq'[d] = seq[d] /\ pc'[d] = pc[d]
    BY <1>t, <2>1
  <2>3. \A f \in File : \A k \in DOMAIN buf[f] : buf[f][k] # c
    BY <1>0, <2>1 DEF BufWriting
  <2>4. OpenerIsSlow' /\ TakenBelow'
    BY <1>i, <1>t, <2>1, <2>2 DEF OpenerIsSlow, TakenBelow
  <2>5. FileBelow'
    BY <1>i, <1>t, <2>1 DEF FileBelow
  <2>6. LateOnItsWay' /\ OnlyOpenerLate'
    <3>1. cur \in File
      BY <1>t, <2>1 DEF File
    <3>2. \A i \in DOMAIN lines[cur] : lines[cur][i].seq < seq'[c]
      BY <1>i, <2>2, <3>1 DEF FileBelow
    <3>3. \A j \in DOMAIN buf[cur] : seq[buf[cur][j]] < seq'[c]
      BY <1>0, <1>i, <1>t, <2>2, <3>1 DEF BufWriting, TakenBelow, InFlight
    <3> QED BY <1>6, <1>t, <2>1, <2>2, <2>3, <3>2, <3>3
  <2> QED BY <2>4, <2>5, <2>6 DEF LateInv
<1>8. ASSUME NEW c \in Call, EnsureDone(c) PROVE LateInv'
  <2>1. /\ UNCHANGED <<cur, lines, slow, seq, nextSeq>> /\ Enqueue(c)
        /\ pc' = [pc EXCEPT ![c] = "writing"] /\ pc[c] = "ensuring"
    BY <1>8 DEF EnsureDone, stamp
  <2>2. pc'[c] = "writing" /\ \A d \in Call : d # c => pc'[d] = pc[d]
    BY <1>t, <2>1
  <2>3. cur # 0 /\ c \in slow
    BY <1>i, <1>k, <2>1 DEF OpenerIsSlow, InFlight
  <2>4. \A f \in File : \A k \in DOMAIN buf[f] : buf[f][k] # c
    BY <1>0, <2>1 DEF BufWriting
  <2>5. OpenerIsSlow' /\ TakenBelow' /\ FileBelow'
    BY <1>i, <2>1, <2>2 DEF OpenerIsSlow, TakenBelow, FileBelow, InFlight
  <2>6. LateOnItsWay' /\ OnlyOpenerLate'
    BY <1>6, <2>1, <2>3, <2>4
  <2> QED BY <2>5, <2>6 DEF LateInv
<1>9. ASSUME NEW f \in File, Flush(f) PROVE LateInv'
  <2>1. /\ buf[f] # <<>> /\ f \in File /\ WriteLine(f, Head(buf[f]))
        /\ UNCHANGED <<cur, nextSeq, seq, slow, pc>>
    BY <1>9 DEF Flush, Writable, stamp
  <2>2. OnlyOpenerLate'
    BY <1>0, <2>1, LateLine DEF WriteLine
  <2>3. /\ 1 \in DOMAIN buf[f] /\ Head(buf[f]) = buf[f][1] /\ buf[f][1] \in Call
        /\ \A g \in File : \A k \in DOMAIN buf'[g] :
              \/ g # f /\ k \in DOMAIN buf[g] /\ buf'[g][k] = buf[g][k]
              \/ /\ g = f /\ k \in Nat \ {0} /\ k + 1 \in DOMAIN buf[g]
                 /\ buf'[g][k] = buf[g][k + 1]
    BY <1>0, <1>9, FlushFacts
  <2>4. \A g \in File : \A i \in DOMAIN lines'[g] :
           \/ i \in DOMAIN lines[g] /\ lines'[g][i] = lines[g][i]
           \/ g = f /\ lines'[g][i].seq = seq[buf[f][1]]
    <3>1. lines[f] \in Seq(Line) /\ seq[buf[f][1]] \in Nat
      BY <1>0, <1>t, <2>3 DEF TypeOK
    <3> DEFINE l == [seq |-> seq[buf[f][1]], call |-> buf[f][1], whole |-> TRUE]
    <3>2. l \in Line /\ l.seq = seq[buf[f][1]]
      BY <2>3, <3>1 DEF Line
    <3>3. \A g \in File : lines'[g] = IF g = f THEN Append(lines[f], l) ELSE lines[g]
      BY <1>t, <2>1, <2>3 DEF WriteLine
    <3> HIDE DEF l
    <3>4. l \in Line
      BY <3>2
    <3>5. /\ DOMAIN lines[f] = 1..Len(lines[f]) /\ Len(lines[f]) \in Nat
          /\ DOMAIN Append(lines[f], l) = 1..(Len(lines[f]) + 1)
          /\ \A i \in DOMAIN lines[f] : Append(lines[f], l)[i] = lines[f][i]
          /\ Append(lines[f], l)[Len(lines[f]) + 1] = l
      BY <3>1, <3>4, AppendFacts
    <3>6. \A i \in DOMAIN lines'[f] : \/ i \in DOMAIN lines[f] /\ lines'[f][i] = lines[f][i]
                                     \/ lines'[f][i] = l
      <4>1. lines'[f] = Append(lines[f], l)
        BY <3>3
      <4> QED BY <3>5, <4>1
    <3> QED BY <3>2, <3>3, <3>6
  <2>5. OpenerIsSlow' /\ TakenBelow'
    BY <1>i, <2>1 DEF OpenerIsSlow, TakenBelow
  <2>6. FileBelow'
    <3>1. seq[buf[f][1]] < nextSeq
      BY <1>0, <1>i, <2>3 DEF BufWriting, TakenBelow, InFlight
    <3> QED BY <1>i, <2>1, <2>4, <3>1 DEF FileBelow
  <2>7. LateOnItsWay'
    <3> SUFFICES ASSUME NEW g \in File, NEW k \in DOMAIN buf'[g]
                 PROVE  /\ \A i \in DOMAIN lines'[g] :
                             lines'[g][i].seq > seq[buf'[g][k]] => buf'[g][k] \in slow
                        /\ \A j \in DOMAIN buf'[g] :
                             j < k /\ seq[buf'[g][j]] > seq[buf'[g][k]] => buf'[g][k] \in slow
      BY <2>1 DEF LateOnItsWay
    <3>1. CASE g # f
      BY <1>i, <2>3, <2>4, <3>1 DEF LateOnItsWay
    <3>2. CASE g = f
      <4>1. k \in Nat \ {0} /\ k + 1 \in DOMAIN buf[f] /\ buf'[f][k] = buf[f][k + 1]
        BY <2>3, <3>2
      <4>2. 1 < k + 1
        BY <4>1
      <4>3. ASSUME NEW i \in DOMAIN lines'[f], lines'[f][i].seq > seq[buf[f][k + 1]]
            PROVE  buf[f][k + 1] \in slow
        BY <1>i, <2>3, <2>4, <4>1, <4>2, <4>3 DEF LateOnItsWay
      <4>4. ASSUME NEW j \in DOMAIN buf'[f], j < k, seq[buf'[f][j]] > seq[buf[f][k + 1]]
            PROVE  buf[f][k + 1] \in slow
        <5>1. j \in Nat \ {0} /\ j + 1 \in DOMAIN buf[f] /\ buf'[f][j] = buf[f][j + 1]
          BY <2>3, <4>4
        <5>2. j + 1 < k + 1
          BY <4>1, <4>4, <5>1
        <5> QED BY <1>i, <4>1, <4>4, <5>1, <5>2 DEF LateOnItsWay
      <4> QED BY <3>2, <4>1, <4>3, <4>4
    <3> QED BY <3>1, <3>2
  <2> QED BY <2>2, <2>5, <2>6, <2>7 DEF LateInv
<1>10. ASSUME NEW f \in File, Written(f) PROVE LateInv'
  <2>1. /\ acks[f] # <<>> /\ UNCHANGED <<cur, nextSeq, seq, lines, buf, slow>>
        /\ \E q \in {"ending", "done"} : pc' = [pc EXCEPT ![Head(acks[f])] = q]
    BY <1>10 DEF Written, StartRotate, Return, stamp
  <2>2. Head(acks[f]) \in Call /\ pc[Head(acks[f])] = "writing"
    <3>1. acks[f] \in Seq(Call)
      BY <1>0 DEF TypeOK
    <3>2. Head(acks[f]) \in Call /\ 1 \in DOMAIN acks[f] /\ Head(acks[f]) = acks[f][1]
      BY <2>1, <3>1, TailFacts
    <3> QED BY <3>2 DEF JInv, WriteInv, AckWriting
  <2> QED BY <1>1, <1>t, <2>1, <2>2 DEF InFlight
<1>11. ASSUME NEW c \in Call, SwitchFile(c) PROVE LateInv'
  <2>1. /\ cur' = made + 1 /\ made < MaxFiles /\ UNCHANGED <<lines, buf, seq, nextSeq>>
        /\ slow' = slow \cup {c} /\ pc' = [pc EXCEPT ![c] = "reopening"] /\ pc[c] = "ending"
    BY <1>11 DEF SwitchFile, CreateStream, stamp
  <2>2. OpenerIsSlow' /\ TakenBelow'
    BY <1>i, <1>t, <2>1 DEF OpenerIsSlow, TakenBelow, InFlight
  <2>3. FileBelow'
    <3>1. lines[made + 1] = <<>>
      BY <1>t, <2>1, EventLogAssumption DEF FilesInv, Untouched, File
    <3> QED BY <2>1, <3>1 DEF FileBelow
  <2>4. LateOnItsWay' /\ OnlyOpenerLate'
    BY <1>i, <2>1 DEF LateOnItsWay, OnlyOpenerLate
  <2> QED BY <2>2, <2>3, <2>4 DEF LateInv
<1>12. ASSUME NEW c \in Call, RotateDone(c) PROVE LateInv'
  <2>1. /\ UNCHANGED <<cur, nextSeq, seq, lines, buf, slow>>
        /\ pc' = [pc EXCEPT ![c] = "done"]
    BY <1>12 DEF RotateDone, Return, stamp
  <2> QED BY <1>1, <1>t, <2>1 DEF InFlight
<1>13. CASE Close
  <2>1. cur' = 0 /\ UNCHANGED <<nextSeq, seq, lines, buf, slow, pc>>
    BY <1>13 DEF Close, stamp
  <2>2. OpenerIsSlow' /\ TakenBelow' /\ FileBelow'
    BY <1>i, <1>t, <2>1 DEF OpenerIsSlow, TakenBelow, FileBelow
  <2>3. LateOnItsWay' /\ OnlyOpenerLate'
    BY <1>i, <2>1 DEF LateOnItsWay, OnlyOpenerLate
  <2> QED BY <2>2, <2>3 DEF LateInv
<1>14. CASE UNCHANGED vars \/ \E f \in File : FileOpened(f) \/ Finish(f)
  <2>1. UNCHANGED <<cur, nextSeq, seq, lines, buf, slow, pc>>
    BY <1>14 DEF vars, FileOpened, Finish, stamp
  <2> QED BY <1>1, <2>1
<1> QED
  BY <1>2, <1>3, <1>4, <1>5, <1>7, <1>8, <1>9, <1>10, <1>11, <1>12, <1>13, <1>14 DEF Next

\* At the start nobody is late.
LEMMA LateInit == Init => LateInv
<1> SUFFICES ASSUME Init PROVE LateInv
  OBVIOUS
<1>1. /\ \A c \in Call : pc[c] = "new"
      /\ \A f \in File : lines[f] = <<>> /\ buf[f] = <<>>
  BY DEF Init
<1> QED
  BY <1>1 DEF LateInv, OpenerIsSlow, TakenBelow, FileBelow, LateOnItsWay, OnlyOpenerLate, InFlight

\* A line stands behind one of a larger seq only if its call opened a file: ensureStream
\* lets the others write ahead of the opener, and nothing else reorders the log.
THEOREM OnlyOpenersAreLate == Spec => []OnlyOpenerLate
<1>1. LateInv => OnlyOpenerLate
  BY DEF LateInv
<1> QED BY <1>1, JInit, JStep, FilesInit, FilesStep, LateInit, LateStep, PTL DEF Spec

-----------------------------------------------------------------------------
(* The refinement                                                             *)

Stored == {c \in Call : Durable(c)}
State == [c \in Call |-> IF pc[c] \in InFlight THEN "pending" ELSE pc[c]]

\* The disk holds the same events before and after, but for one.
LEMMA StoredSame ==
  ASSUME JInv, UNCHANGED lines,
         \A c \in Call : pc[c] # "new" => seq'[c] = seq[c]
  PROVE  Stored' = Stored
<1>1. TypeOK /\ LineOfCall BY DEF JInv, DurInv, QueueInv
<1>2. ASSUME NEW c \in Call PROVE Durable(c)' <=> Durable(c)
  <2>1. CASE pc[c] = "new"
    <3>1. ASSUME NEW f \in File, NEW i \in DOMAIN lines[f] PROVE lines[f][i].call # c
      BY <1>1, <2>1, <3>1 DEF LineOfCall
    <3> QED BY <3>1 DEF Durable
  <2>2. CASE pc[c] # "new"
    <3>1. seq'[c] = seq[c] BY <2>2
    <3> QED BY <3>1 DEF Durable
  <2> QED BY <2>1, <2>2
<1> QED BY <1>2 DEF Stored

\* The end of the process stores nothing: a torn line is no event.
LEMMA StoredHalt ==
  ASSUME JInv, NEW gone, Outstanding \subseteq gone, Halt(gone),
         \A c \in Call : pc[c] # "new" => seq'[c] = seq[c]
  PROVE  Stored' = Stored
<1>1. TypeOK /\ LineOfCall BY DEF JInv, DurInv, QueueInv
<1>2. \A f \in File : \A i \in DOMAIN lines'[f] :
        lines'[f][i].whole => i \in DOMAIN lines[f] /\ lines'[f][i] = lines[f][i]
  BY <1>1, HaltFacts
<1>3. Grows BY <1>1, HaltGrows
<1>4. ASSUME NEW c \in Call PROVE Durable(c)' <=> Durable(c)
  <2>1. CASE pc[c] = "new"
    <3>1. ASSUME NEW f \in File, NEW i \in DOMAIN lines[f] PROVE lines[f][i].call # c
      BY <1>1, <2>1, <3>1 DEF LineOfCall
    <3>2. ~Durable(c) BY <3>1 DEF Durable
    <3>3. ~Durable(c)' BY <3>1, <1>2 DEF Durable
    <3> QED BY <3>2, <3>3
  <2>2. CASE pc[c] # "new"
    <3>1. seq'[c] = seq[c] BY <2>2
    <3>2. Durable(c) => Durable(c)' BY <3>1, <1>3 DEF Durable, Grows
    <3>3. Durable(c)' => Durable(c) BY <3>1, <1>2 DEF Durable
    <3> QED BY <3>2, <3>3
  <2> QED BY <2>1, <2>2
<1> QED BY <1>4 DEF Stored

\* A start goes on behind a stored event.
LEMMA StartsBehind ==
  ASSUME JInv, NEW f \in File
  PROVE  NextAfter(f) \in {1} \cup {seq[c] + 1 : c \in Stored}
<1>1. TypeOK /\ LineOfCall BY DEF JInv, DurInv, QueueInv
<1>2. CASE ReadLastSeq(f) = 0
  BY <1>2 DEF NextAfter
<1>3. CASE ReadLastSeq(f) # 0
  <2> DEFINE last == lines[f][Len(lines[f])]
  <2>1. lines[f] \in Seq(Line) /\ lines[f] # <<>>
    BY <1>1, <1>3 DEF TypeOK, ReadLastSeq
  <2>2. Len(lines[f]) \in DOMAIN lines[f] /\ last \in Line
    BY <2>1
  <2>3. last.whole = TRUE /\ NextAfter(f) = last.seq + 1
    BY <2>1, <2>2, <1>3 DEF NextAfter, ReadLastSeq, Line
  <2>4. last.call \in Call /\ last.seq = seq[last.call]
        /\ last = [seq |-> last.seq, call |-> last.call, whole |-> last.whole]
    BY <2>2, <1>1 DEF LineOfCall, Line
  <2>5. Durable(last.call)
    BY <2>2, <2>3, <2>4 DEF Durable
  <2> QED BY <2>3, <2>4, <2>5 DEF Stored
<1> QED BY <1>2, <1>3

\* One call goes on.
LEMMA StateFacts ==
  ASSUME TypeOK
  PROVE  /\ \A c \in Call, q \in InFlight \cup {"done"} :
              pc' = [pc EXCEPT ![c] = q] =>
                State' = [State EXCEPT ![c] = IF q = "done" THEN "done" ELSE "pending"]
         /\ \A c \in Call : State[c] = "pending" <=> pc[c] \in InFlight
         /\ \A c \in Call : State[c] = "new" <=> pc[c] = "new"
<1>1. pc \in [Call -> InFlight \cup {"new", "done", "lost"}]
  BY DEF TypeOK
<1>2. ASSUME NEW c \in Call, NEW q \in InFlight \cup {"done"}, pc' = [pc EXCEPT ![c] = q]
      PROVE  State' = [State EXCEPT ![c] = IF q = "done" THEN "done" ELSE "pending"]
  BY <1>1, <1>2 DEF State, InFlight
<1> QED BY <1>1, <1>2 DEF State, InFlight

\* All that were under way are lost, and the refused with them.
LEMMA StateHalt ==
  ASSUME TypeOK, NEW refused, Halt(Outstanding \cup refused)
  PROVE  State' = [c \in Call |-> IF State[c] = "pending" \/ c \in refused THEN "lost" ELSE State[c]]
BY DEF TypeOK, Halt, Outstanding, State, InFlight

\* The start of the log is a start of the journal.
LEMMA JournalInit == Init => Log!Init
<1> SUFFICES ASSUME Init PROVE Log!Init
  OBVIOUS
<1>1. /\ up = FALSE /\ nextSeq = 1 /\ seq = [c \in Call |-> 0] /\ fanout = <<>>
      /\ \A c \in Call : pc[c] = "new" /\ \A f \in File : lines[f] = <<>>
  BY DEF Init
<1>2. State = [c \in Call |-> "new"]
  BY <1>1 DEF State, InFlight
<1>3. Stored = {}
  BY <1>1 DEF Stored, Durable
<1> QED BY <1>1, <1>2, <1>3 DEF Log!Init, State, Stored

\* Each step of the log is one of the journal, or none.
LEMMA JournalStep == JInv /\ [Next]_vars => [Log!Next]_Log!vars
<1> SUFFICES ASSUME JInv, [Next]_vars PROVE [Log!Next]_Log!vars
  OBVIOUS
<1>0. TypeOK /\ BufWriting /\ AckWriting /\ Acked /\ Rotating /\ Keeps
  BY StepKeeps DEF JInv, DurInv, QueueInv, WriteInv
<1>s. \A c \in Call : pc[c] # "new" => seq'[c] = seq[c]
  BY <1>0 DEF Keeps
\* Steps that Journal does not see.
<1>z. ASSUME UNCHANGED <<up, nextSeq, seq, lines, fanout>>, State' = State PROVE UNCHANGED Log!vars
  BY <1>z, <1>s, StoredSame DEF Log!vars, State, Stored
<1>1. CASE Open
  <2>1. nextSeq' \in {1} \cup {seq[c] + 1 : c \in Stored}
    BY <1>1, StartsBehind DEF Open, OnDisk
  <2>2. Stored' = Stored /\ State' = State
    BY <1>1, <1>s, StoredSame DEF Open, State
  <2>3. ~up /\ up' = TRUE /\ UNCHANGED <<seq, fanout>>
    BY <1>1 DEF Open
  <2> QED BY <2>1, <2>2, <2>3 DEF Log!Next, Log!Start, State, Stored
<1>2. CASE Crash
  <2>1. Halt(Outstanding) /\ up /\ up' = FALSE /\ UNCHANGED <<nextSeq, seq, fanout>>
    BY <1>2 DEF Crash, Halt, stamp
  <2>2. Stored' = Stored
    BY <2>1, <1>s, StoredHalt
  <2>3. State' = [c \in Call |-> IF State[c] = "pending" \/ c \in {} THEN "lost" ELSE State[c]]
    BY <2>1, <1>0 DEF TypeOK, Halt, Outstanding, State, InFlight
  <2> QED BY <2>1, <2>2, <2>3 DEF Log!Next, Log!Crash, Log!Die, State, Stored
<1>3. ASSUME NEW c \in Call, AppendRefused(c) PROVE Log!Next
  <2>1. /\ Halt(Outstanding \cup {c}) /\ up /\ up' = FALSE /\ UNCHANGED fanout
        /\ pc[c] = "new" /\ TakeSeq(c)
    BY <1>3 DEF AppendRefused, CanStart, JsIdle, Halt
  <2>2. Stored' = Stored
    BY <2>1, <1>s, StoredHalt
  <2>3. State' = [d \in Call |-> IF State[d] = "pending" \/ d \in {c} THEN "lost" ELSE State[d]]
    BY <2>1, <1>0, StateHalt
  <2>4. State[c] = "new"
    BY <2>1, <1>0, StateFacts
  <2>5. Log!Refuse(c)
    BY <2>1, <2>2, <2>3, <2>4 DEF Log!Refuse, Log!Number, Log!Die, TakeSeq, State, Stored
  <2> QED BY <2>5 DEF Log!Next
<1>4. ASSUME NEW c \in Call, AppendOpening(c) \/ AppendWriting(c) PROVE Log!Next
  <2>1. /\ up /\ TakeSeq(c) /\ pc[c] = "new" /\ UNCHANGED <<up, lines, fanout>>
        /\ \E q \in InFlight : pc' = [pc EXCEPT ![c] = q]
    BY <1>4 DEF AppendOpening, AppendWriting, CanStart, JsIdle, life, InFlight
  <2>2. Stored' = Stored
    BY <2>1, <1>s, StoredSame
  <2>3. State' = [State EXCEPT ![c] = "pending"] /\ State[c] = "new"
    BY <2>1, <1>0, StateFacts DEF InFlight
  <2>4. Log!Take(c)
    BY <2>1, <2>2, <2>3 DEF Log!Take, Log!Number, TakeSeq, State, Stored
  <2> QED BY <2>4 DEF Log!Next
<1>5. ASSUME NEW c \in Call, Durable(c), pc[c] \in InFlight, Return(c),
             UNCHANGED <<up, nextSeq, seq, lines>>
      PROVE  Log!Next
  <2>1. Stored' = Stored /\ c \in Stored
    BY <1>5, <1>s, StoredSame DEF Stored
  <2>2. State' = [State EXCEPT ![c] = "done"] /\ State[c] = "pending"
    BY <1>5, <1>0, StateFacts DEF Return
  <2>3. Log!Announce(c)
    BY <1>5, <2>1, <2>2 DEF Log!Announce, Return, State, Stored
  <2> QED BY <2>3 DEF Log!Next
\* Steps of a call from one of its awaits to the next.
<1>6. ASSUME NEW c \in Call, pc[c] \in InFlight, NEW q \in InFlight, pc' = [pc EXCEPT ![c] = q]
      PROVE  State' = State
  BY <1>6, <1>0 DEF State, TypeOK
<1>7. ASSUME NEW c \in Call, EnsureDone(c) \/ SwitchFile(c) PROVE UNCHANGED Log!vars
  BY <1>7, <1>6, <1>z DEF EnsureDone, SwitchFile, life, stamp, InFlight
<1>8. ASSUME NEW c \in Call, RotateDone(c) PROVE Log!Next
  BY <1>8, <1>5, <1>0 DEF RotateDone, Rotating, life, stamp, InFlight
<1>9. ASSUME NEW f \in File, Flush(f) PROVE Log!Next
  <2>1. PICK c \in Call : c = Head(buf[f]) /\ pc[c] = "writing"
    BY <1>9, <1>0, FlushFacts DEF BufWriting
  <2>2. /\ lines' = [lines EXCEPT ![f] = Append(@, [seq |-> seq[c], call |-> c, whole |-> TRUE])]
        /\ UNCHANGED <<up, nextSeq, seq, pc, fanout>>
    BY <1>9, <2>1 DEF Flush, WriteLine, life, stamp
  <2>3. \A g \in File : \A i \in DOMAIN lines'[g] :
          \/ i \in DOMAIN lines[g] /\ lines'[g][i] = lines[g][i]
          \/ lines'[g][i] = [seq |-> seq[c], call |-> c, whole |-> TRUE]
    <3> DEFINE l == [seq |-> seq[c], call |-> c, whole |-> TRUE]
    <3>1. l \in Line /\ lines[f] \in Seq(Line)
      BY <1>0 DEF Line, TypeOK
    <3> TAKE g \in File
    <3>2. lines'[g] = IF g = f THEN Append(lines[f], l) ELSE lines[g]
      BY <2>2, <1>0 DEF TypeOK
    <3> HIDE DEF l
    <3>3. \A i \in DOMAIN lines'[g] :
            \/ i \in DOMAIN lines[g] /\ lines'[g][i] = lines[g][i]
            \/ lines'[g][i] = l
      BY <3>1, <3>2, AppendFacts
    <3> QED BY <3>3 DEF l
  <2>4. Durable(c)'
    <3>1. lines[f] \in Seq(Line) /\ [seq |-> seq[c], call |-> c, whole |-> TRUE] \in Line
      BY <1>0 DEF Line, TypeOK
    <3>2. lines'[f] = Append(lines[f], [seq |-> seq[c], call |-> c, whole |-> TRUE])
      BY <2>2, <1>0 DEF TypeOK
    <3>3. /\ Len(lines[f]) + 1 \in DOMAIN lines'[f]
          /\ lines'[f][Len(lines[f]) + 1] = [seq |-> seq[c], call |-> c, whole |-> TRUE]
      BY <3>1, <3>2, AppendFacts
    <3> QED BY <3>3, <2>2 DEF Durable
  <2>5. ASSUME NEW d \in Call, d # c PROVE Durable(d)' <=> Durable(d)
    <3>1. Durable(d)' => Durable(d)
      BY <2>2, <2>3, <2>5 DEF Durable
    <3>2. Grows BY <1>0, <1>9, FlushGrows
    <3>3. Durable(d) => Durable(d)' BY <2>2, <3>2 DEF Durable, Grows
    <3> QED BY <3>1, <3>3
  <2>6. Stored' = Stored \cup {c}
    BY <2>4, <2>5 DEF Stored
  <2>7. State' = State /\ State[c] = "pending"
    BY <2>1, <2>2 DEF State, InFlight
  <2>8. Log!Store(c)
    BY <2>2, <2>6, <2>7 DEF Log!Store, State, Stored
  <2> QED BY <2>8 DEF Log!Next
<1>10. ASSUME NEW f \in File, Written(f) PROVE [Log!Next]_Log!vars
  <2>1. /\ Head(acks[f]) \in Call /\ Durable(Head(acks[f])) /\ pc[Head(acks[f])] = "writing"
        /\ UNCHANGED <<up, nextSeq, seq, lines>>
    <3>1. acks[f] \in Seq(Call) /\ acks[f] # <<>> /\ UNCHANGED <<up, nextSeq, seq, lines>>
      BY <1>10, <1>0 DEF Written, TypeOK, life, stamp
    <3>2. 1 \in DOMAIN acks[f] /\ Head(acks[f]) = acks[f][1] /\ Head(acks[f]) \in Call
      BY <3>1, TailFacts
    <3> QED BY <3>1, <3>2, <1>0 DEF Acked, AckWriting
  <2>2. CASE StartRotate(Head(acks[f])) /\ UNCHANGED fanout
    BY <2>1, <2>2, <1>6, <1>z DEF StartRotate, InFlight
  <2>3. CASE Return(Head(acks[f]))
    BY <2>1, <2>3, <1>5 DEF InFlight
  <2> QED BY <1>10, <2>2, <2>3 DEF Written
<1>11. CASE Close \/ UNCHANGED vars \/ \E f \in File : FileOpened(f) \/ Finish(f)
  <2>1. UNCHANGED <<up, nextSeq, seq, lines, fanout, pc>>
    BY <1>11 DEF Close, vars, FileOpened, Finish, life, stamp
  <2> QED BY <2>1, <1>z DEF State
<1> QED
  BY <1>1, <1>2, <1>3, <1>4, <1>7, <1>8, <1>9, <1>10, <1>11 DEF Next

\* What EventLog does is what Journal allows, whatever crashes, rotates or races.
THEOREM ImplementsJournal == Spec => LogKept
<1>1. JInv /\ [Next]_vars => [Log!Next]_Log!vars
  BY JournalStep
<1> QED BY JInit, JStep, JournalInit, <1>1, PTL DEF Spec, LogKept, Log!Spec
-----------------------------------------------------------------------------
(* No append is forgotten                                                     *)

\* A call that writes waits for the disk, or for its write callback; and the stream that
\* has to write its line is to be opened, or open, or being ended.
Queued == \A c \in Call : pc[c] = "writing" =>
            \E f \in File : \/ \E k \in DOMAIN buf[f] : buf[f][k] = c
                            \/ \E k \in DOMAIN acks[f] : acks[f][k] = c
BufLive == \A f \in File : buf[f] # <<>> => st[f] \in {"opening", "open", "ending"}

\* Call c waits for the stream of f; that stream has something due: its open, a write,
\* a write callback or its end.
Waits(c, f) == \/ pc[c] \in {"ensuring", "ending", "reopening"} /\ on[c] = f
               \/ \E k \in DOMAIN buf[f] : buf[f][k] = c
               \/ \E k \in DOMAIN acks[f] : acks[f][k] = c
GoesOn(f) == \/ st[f] = "opening" \/ f \in Writable \/ acks[f] # <<>>
             \/ (st[f] = "ending" /\ Drained(f))

NoneForgotten ==
  \A c \in Outstanding : Runnable(c) \/ \E f \in File : Waits(c, f) /\ GoesOn(f)

\* Only a flush, a write callback and the end of the process take a call off a queue.
LEMMA QueuedStep == JInv /\ FilesInv /\ Queued /\ [Next]_vars => Queued'
<1> SUFFICES ASSUME JInv, FilesInv, Queued, [Next]_vars PROVE Queued'
  OBVIOUS
<1>0. /\ TypeOK /\ NothingWithout
      /\ \A f \in File : buf[f] \in Seq(Call) /\ acks[f] \in Seq(Call)
  BY DEF JInv, DurInv, QueueInv, FilesInv, TypeOK
\* Steps that leave the queues alone and let no other call write.
<1>1. ASSUME UNCHANGED <<buf, acks>>, \A c \in Call : pc'[c] = "writing" => pc[c] = "writing"
      PROVE  Queued'
  BY <1>1 DEF Queued
<1>2. ASSUME NEW c \in Call, NEW q, q # "writing", UNCHANGED <<buf, acks>>,
             pc' = [pc EXCEPT ![c] = q]
      PROVE  Queued'
  BY <1>0, <1>1, <1>2 DEF TypeOK
<1>3. ASSUME NEW gone, Outstanding \subseteq gone, Halt(gone) PROVE Queued'
  BY <1>3 DEF Halt, Outstanding, InFlight, Queued
<1>4. ASSUME NEW c \in Call, Enqueue(c), cur \in File, UNCHANGED acks,
             pc' = [pc EXCEPT ![c] = "writing"]
      PROVE  Queued'
  <2>1. buf'[cur] = Append(buf[cur], c) /\ \A f \in File : f # cur => buf'[f] = buf[f]
    BY <1>0, <1>4 DEF TypeOK, Enqueue
  <2>2. /\ \A k \in DOMAIN buf[cur] : k \in DOMAIN buf'[cur] /\ buf'[cur][k] = buf[cur][k]
        /\ \E k \in DOMAIN buf'[cur] : buf'[cur][k] = c
    <3>1. /\ DOMAIN buf[cur] = 1..Len(buf[cur]) /\ Len(buf[cur]) \in Nat
          /\ DOMAIN buf'[cur] = 1..(Len(buf[cur]) + 1)
          /\ \A i \in DOMAIN buf[cur] : buf'[cur][i] = buf[cur][i]
          /\ buf'[cur][Len(buf[cur]) + 1] = c
      BY <1>0, <1>4, <2>1, AppendFacts
    <3>2. Len(buf[cur]) + 1 \in DOMAIN buf'[cur] /\ DOMAIN buf[cur] \subseteq DOMAIN buf'[cur]
      BY <3>1
    <3> QED BY <3>1, <3>2
  <2>3. \A d \in Call : pc'[d] = "writing" => d = c \/ pc[d] = "writing"
    BY <1>0, <1>4 DEF TypeOK
  <2> QED BY <1>4, <2>1, <2>2, <2>3 DEF Queued
<1>5. ASSUME NEW f \in File, Flush(f) PROVE Queued'
  <2>1. /\ buf[f] # <<>> /\ pc' = pc
        /\ buf' = [buf EXCEPT ![f] = Tail(@)] /\ acks' = [acks EXCEPT ![f] = Append(@, Head(buf[f]))]
    BY <1>5 DEF Flush, Writable
  <2>2. /\ buf'[f] = Tail(buf[f]) /\ acks'[f] = Append(acks[f], Head(buf[f]))
        /\ \A g \in File : g # f => buf'[g] = buf[g] /\ acks'[g] = acks[g]
    BY <1>0, <2>1 DEF TypeOK
  <2>3. \A k \in DOMAIN buf[f] : \/ buf[f][k] = Head(buf[f])
                                 \/ \E i \in DOMAIN buf'[f] : buf'[f][i] = buf[f][k]
    BY <1>0, <2>1, <2>2, TailRest
  <2>4. /\ \A k \in DOMAIN acks[f] : k \in DOMAIN acks'[f] /\ acks'[f][k] = acks[f][k]
        /\ \E k \in DOMAIN acks'[f] : acks'[f][k] = Head(buf[f])
    <3>1. Head(buf[f]) \in Call
      BY <1>0, <2>1, TailFacts
    <3>2. /\ DOMAIN acks[f] = 1..Len(acks[f]) /\ Len(acks[f]) \in Nat
          /\ DOMAIN acks'[f] = 1..(Len(acks[f]) + 1)
          /\ \A i \in DOMAIN acks[f] : acks'[f][i] = acks[f][i]
          /\ acks'[f][Len(acks[f]) + 1] = Head(buf[f])
      BY <1>0, <2>2, <3>1, AppendFacts
    <3>3. Len(acks[f]) + 1 \in DOMAIN acks'[f] /\ DOMAIN acks[f] \subseteq DOMAIN acks'[f]
      BY <3>2
    <3> QED BY <3>2, <3>3
  <2> SUFFICES ASSUME NEW c \in Call, pc[c] = "writing"
               PROVE  \E g \in File : \/ \E k \in DOMAIN buf'[g] : buf'[g][k] = c
                                      \/ \E k \in DOMAIN acks'[g] : acks'[g][k] = c
    BY <2>1 DEF Queued
  <2>5. PICK g \in File : \/ \E k \in DOMAIN buf[g] : buf[g][k] = c
                          \/ \E k \in DOMAIN acks[g] : acks[g][k] = c
    BY DEF Queued
  <2>6. CASE g # f
    BY <2>2, <2>5, <2>6
  <2>7. CASE g = f
    BY <2>3, <2>4, <2>5, <2>7
  <2> QED BY <2>6, <2>7
<1>6. ASSUME NEW f \in File, Written(f) PROVE Queued'
  <2>1. /\ acks[f] # <<>> /\ acks' = [acks EXCEPT ![f] = Tail(@)] /\ UNCHANGED buf
        /\ \E q \in {"ending", "done"} : pc' = [pc EXCEPT ![Head(acks[f])] = q]
    BY <1>6 DEF Written, StartRotate, Return
  <2>2. acks'[f] = Tail(acks[f]) /\ \A g \in File : g # f => acks'[g] = acks[g]
    BY <1>0, <2>1 DEF TypeOK
  <2>3. Head(acks[f]) \in Call
    BY <1>0, <2>1, TailFacts
  <2>4. \A c \in Call : pc'[c] = "writing" => pc[c] = "writing" /\ c # Head(acks[f])
    BY <1>0, <2>1, <2>3 DEF TypeOK
  <2>5. \A k \in DOMAIN acks[f] : \/ acks[f][k] = Head(acks[f])
                                  \/ \E i \in DOMAIN acks'[f] : acks'[f][i] = acks[f][k]
    BY <1>0, <2>1, <2>2, TailRest
  <2> SUFFICES ASSUME NEW c \in Call, pc[c] = "writing", c # Head(acks[f])
               PROVE  \E g \in File : \/ \E k \in DOMAIN buf[g] : buf[g][k] = c
                                      \/ \E k \in DOMAIN acks'[g] : acks'[g][k] = c
    BY <2>1, <2>4 DEF Queued
  <2>6. PICK g \in File : \/ \E k \in DOMAIN buf[g] : buf[g][k] = c
                          \/ \E k \in DOMAIN acks[g] : acks[g][k] = c
    BY DEF Queued
  <2>7. CASE g # f
    BY <2>2, <2>6, <2>7
  <2>8. CASE g = f
    BY <2>5, <2>6, <2>8
  <2> QED BY <2>7, <2>8
<1>7. ASSUME NEW c \in Call, AppendOpening(c) \/ SwitchFile(c) \/ RotateDone(c) PROVE Queued'
  BY <1>2, <1>7 DEF AppendOpening, SwitchFile, RotateDone, Return
<1>8. ASSUME NEW c \in Call, AppendWriting(c) \/ EnsureDone(c) PROVE Queued'
  <2>1. cur # 0
    BY <1>0, <1>8 DEF AppendWriting, EnsureDone, NothingWithout, InFlight
  <2>2. cur \in File
    BY <1>0, <2>1, EventLogAssumption DEF TypeOK, File
  <2> QED BY <1>4, <1>8, <2>2 DEF AppendWriting, EnsureDone
<1>9. CASE UNCHANGED <<buf, acks, pc>>
  BY <1>1, <1>9
<1>10. ASSUME NEW c \in Call, AppendRefused(c) PROVE Queued'
  BY <1>3, <1>10 DEF AppendRefused
<1>11. CASE Crash
  BY <1>3, <1>11 DEF Crash
<1> QED
  BY <1>5, <1>6, <1>7, <1>8, <1>9, <1>10, <1>11
  DEF Next, vars, Open, Close, FileOpened, Finish

\* A stream is finished only when nothing waits in it, and closed with nothing outstanding.
LEMMA LiveStep == JInv /\ FilesInv /\ BufLive /\ [Next]_vars => BufLive'
<1> SUFFICES ASSUME JInv, FilesInv, BufLive, [Next]_vars, NEW g \in File, buf'[g] # <<>>
             PROVE  st'[g] \in {"opening", "open", "ending"}
  BY DEF BufLive
<1>0. /\ TypeOK /\ BufWriting /\ OpenerFirst /\ NothingWithout
      /\ buf \in [File -> Seq(Call)] /\ DOMAIN st = File
  BY DEF JInv, DurInv, QueueInv, WriteInv, FilesInv, TypeOK
\* Steps that fill no buffer and finish no stream.
<1>1. ASSUME buf'[g] # <<>> => buf[g] # <<>>,
             st'[g] = st[g] \/ st'[g] \in {"opening", "open", "ending"}
      PROVE  st'[g] \in {"opening", "open", "ending"}
  BY <1>1 DEF BufLive
<1>2. ASSUME NEW gone, Halt(gone) PROVE FALSE
  BY <1>2 DEF Halt
<1>3. ASSUME NEW c \in Call, AppendOpening(c) \/ SwitchFile(c)
      PROVE  st'[g] \in {"opening", "open", "ending"}
  <2>1. UNCHANGED buf /\ st' = [st EXCEPT ![made + 1] = "opening"]
    BY <1>3 DEF AppendOpening, SwitchFile, CreateStream
  <2> QED BY <1>0, <1>1, <2>1
<1>4. ASSUME NEW c \in Call, AppendWriting(c) \/ EnsureDone(c)
      PROVE  st'[g] \in {"opening", "open", "ending"}
  <2>1. UNCHANGED st /\ buf' = [buf EXCEPT ![cur] = Append(@, c)]
    BY <1>4 DEF AppendWriting, EnsureDone, Enqueue
  <2>2. st[cur] \in {"opening", "open"}
    BY <1>0, <1>4 DEF AppendWriting, EnsureDone, OpenerFirst
  <2>3. CASE g # cur
    BY <1>0, <1>1, <2>1, <2>3
  <2> QED BY <2>1, <2>2, <2>3
<1>5. ASSUME NEW f \in File, Flush(f) PROVE st'[g] \in {"opening", "open", "ending"}
  <2>1. UNCHANGED st /\ buf' = [buf EXCEPT ![f] = Tail(@)] /\ buf[f] # <<>>
    BY <1>5 DEF Flush, Writable
  <2> QED BY <1>0, <1>1, <2>1
<1>6. ASSUME NEW f \in File, FileOpened(f) \/ Written(f)
      PROVE  st'[g] \in {"opening", "open", "ending"}
  <2>1. UNCHANGED buf /\ \/ UNCHANGED st
                         \/ \E h, s : st' = [st EXCEPT ![h] = s] /\ s \in {"open", "ending"}
    BY <1>6 DEF FileOpened, Written, StartRotate
  <2> QED BY <1>0, <1>1, <2>1
<1>7. ASSUME NEW f \in File, Finish(f) PROVE st'[g] \in {"opening", "open", "ending"}
  <2>1. UNCHANGED buf /\ buf[f] = <<>> /\ st' = [st EXCEPT ![f] = "finished"]
    BY <1>7 DEF Finish, Drained
  <2> QED BY <1>0, <1>1, <2>1
<1>8. CASE Close
  <2>1. Outstanding = {} /\ UNCHANGED buf
    BY <1>8 DEF Close
  <2>2. 1 \in DOMAIN buf[g] /\ buf[g][1] \in Call
    BY <1>0, <2>1, TailFacts
  <2> QED BY <1>0, <2>1, <2>2 DEF BufWriting, Outstanding, InFlight
<1>9. CASE UNCHANGED <<buf, st>>
  BY <1>1, <1>9
<1> QED
  BY <1>2, <1>3, <1>4, <1>5, <1>6, <1>7, <1>8, <1>9
  DEF Next, vars, Open, Crash, AppendRefused, RotateDone

\* Wherever an append stands, its continuation is queued or its stream has something due.
LEMMA SomethingIsDue == JInv /\ FilesInv /\ Queued /\ BufLive => NoneForgotten
<1> SUFFICES ASSUME JInv, FilesInv, Queued, BufLive, NEW c \in Call, pc[c] \in InFlight,
                    ~Runnable(c)
             PROVE  \E f \in File : Waits(c, f) /\ GoesOn(f)
  BY DEF NoneForgotten, Outstanding
<1>0. TypeOK /\ OnFile /\ RotatorsTogether /\ BufWriting
  BY DEF JInv, DurInv, QueueInv, WriteInv, FilesInv
\* A stream with a line to write is to be opened or can write it.
<1>1. ASSUME NEW f \in File, buf[f] # <<>> PROVE GoesOn(f)
  BY <1>1 DEF BufLive, GoesOn, Writable
<1>2. CASE pc[c] \in {"ensuring", "reopening"}
  <2>1. on[c] \in File /\ st[on[c]] = "opening"
    BY <1>0, <1>2 DEF OnFile, Runnable
  <2> QED BY <1>2, <2>1 DEF Waits, GoesOn
<1>3. CASE pc[c] = "writing"
  <2>1. PICK f \in File : \/ \E k \in DOMAIN buf[f] : buf[f][k] = c
                          \/ \E k \in DOMAIN acks[f] : acks[f][k] = c
    BY <1>3 DEF Queued
  <2>2. buf[f] # <<>> \/ acks[f] # <<>>
    BY <2>1
  <2> QED BY <1>1, <2>1, <2>2 DEF Waits, GoesOn
<1>4. CASE pc[c] = "ending"
  <2>1. on[c] \in 1..made /\ st[on[c]] = "ending"
    BY <1>0, <1>4 DEF RotatorsTogether, Runnable
  <2>2. on[c] \in File
    BY <1>0, <2>1, EventLogAssumption DEF TypeOK, File
  <2>3. GoesOn(on[c])
    BY <1>1, <2>1, <2>2 DEF GoesOn, Drained
  <2> QED BY <1>4, <2>2, <2>3 DEF Waits
<1> QED BY <1>2, <1>3, <1>4 DEF InFlight

\* Of every append that has not returned the continuation is queued, or its stream has an
\* open, a write, a write callback or its end due: no interleaving of buffered lines and
\* several rotations leaves the appends waiting for each other. It is what AppendSettles
\* asks of the states.
THEOREM NoAppendForgotten == Spec => []NoneForgotten
<1>1. Init => Queued /\ BufLive
  BY DEF Init, Queued, BufLive
<1> QED
  BY <1>1, JInit, JStep, FilesInit, FilesStep, QueuedStep, LiveStep, SomethingIsDue, PTL DEF Spec
=============================================================================
