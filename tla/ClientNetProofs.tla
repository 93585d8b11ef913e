--------------------------- MODULE ClientNetProofs ---------------------------
(* The promises of module ClientNet, for channels of any capacity and any      *)
(* number of messages, frames and connections: the order of what is passed on, *)
(* when the loop gives up, what is dropped, and who can wait for whom.         *)
EXTENDS ClientNet, SequenceTheorems, TLAPS

-----------------------------------------------------------------------------
(* Inductive invariants                                                       *)

\* Without a connection no task runs; what task and loop are passing on is what they
\* have taken and not yet handed over; the heartbeat that gives up ends the task.
Outside == {"connecting", "greeting", "backoff", "failed"}
NoTaskOutside == loop \in Outside => ~Alive
Passing == /\ IF task = "pushing" THEN taskMsg \in Frame ELSE taskMsg = 0
           /\ IF loop = "sending" THEN loopMsg \in 1..MaxOut ELSE loopMsg = 0
Patient == Alive => missed < MaxMissed

\* The close code of this connection is there when its task is over, and says what the
\* server said.
CloseEnds == loop \in {"serving", "sending"} /\ close # -1 => task = "over"
CloseIsTold == loop \in {"serving", "sending"} /\ close \in Terminal => verdict \in Terminal

TaskInv == TypeOK /\ NoTaskOutside /\ Passing /\ Patient /\ CloseEnds
ToldInv == FailedOnlyWhenTold /\ CloseIsTold

\* What is in a channel, of the numbered ones.
In(q, S) == ToSet(q) \cap S
Less(X, Y) == \A x \in X, y \in Y : x < y

\* The pieces of the road to the UI, and of that to the server, each in order and each
\* before the next; what is sent next comes after all of them.
FramesInOrder ==
  LET A == {shown} \cap Frame  B == In(connIn, Frame)
      C == {taskMsg} \cap Frame  D == In(wire, Frame)
  IN  /\ Rising(connIn, Frame) /\ Rising(wire, Frame)
      /\ Less(A, B \cup C \cup D) /\ Less(B, C \cup D) /\ Less(C, D)
      /\ A \cup B \cup C \cup D \subseteq 1..served
MessagesInOrder ==
  LET A == {written} \cap (1..MaxOut)  B == In(connOut, 1..MaxOut)
      C == {loopMsg} \cap (1..MaxOut)  D == In(uiOut, 1..MaxOut)
      E == {held} \cap (1..MaxOut)
  IN  /\ Rising(connOut, 1..MaxOut) /\ Rising(uiOut, 1..MaxOut)
      /\ Less(A, B \cup C \cup D \cup E) /\ Less(B, C \cup D \cup E)
      /\ Less(C, D \cup E) /\ Less(D, E)
      /\ A \cup B \cup C \cup D \cup E \subseteq 1..asked

-----------------------------------------------------------------------------
(* Types, and what task and loop are at                                       *)

\* A frame, a code and nothing are told apart.
LEMMA Codes ==
  /\ Pong \notin Frame /\ Frame \cap (CloseCode \cup Refusal) = {}
  /\ 0 \notin Terminal /\ -1 \notin CloseCode /\ Pong \notin CloseCode /\ Pong \notin Refusal
  /\ Frame \subseteq 0..MaxIn
BY ClientNetAssumption DEF Pong, Frame, CloseCode, Refusal, Terminal, AuthFailed

\* What the UI passes on stays within its channels.
LEMMA PassType ==
  ASSUME TypeOK, NEW m \in 1..MaxOut, Through, Pass(m)
  PROVE  uiOut' \in Seq(1..MaxOut) /\ Len(uiOut') <= UiCap
<1> USE ClientNetAssumption
<1>1. uiOut \in Seq(1..MaxOut) /\ Len(uiOut) <= UiCap /\ Len(uiOut) \in Nat
  BY DEF TypeOK
<1>2. CASE Gone
  BY <1>1, <1>2 DEF Pass
<1>3. CASE ~Gone
  <2>1. uiOut' = Append(uiOut, m) /\ Len(uiOut) < UiCap
    BY <1>3 DEF Pass, Through
  <2> QED BY <1>1, <2>1
<1> QED BY <1>2, <1>3

\* Each step keeps the types: nobody sends into a channel that is full.
LEMMA TypeStep == TaskInv /\ [Next]_vars => TypeOK'
<1> SUFFICES ASSUME TaskInv, [Next]_vars PROVE TypeOK'
  OBVIOUS
<1>0. TypeOK /\ NoTaskOutside /\ Passing /\ Patient /\ CloseEnds
  BY DEF TaskInv
<1> USE ClientNetAssumption
<1> DEFINE M == {Pong} \cup Frame \cup CloseCode \cup Refusal
<1>w. /\ wire \in Seq(M)
      /\ wire # <<>> => Head(wire) \in M /\ Tail(wire) \in Seq(M)
  BY <1>0 DEF TypeOK
<1>1. CASE UiSend
  <2>1. asked' \in 1..MaxOut /\ held' \in 0..MaxOut
    BY <1>0, <1>1 DEF UiSend, TypeOK
  <2>2. uiOut' \in Seq(1..MaxOut) /\ Len(uiOut') <= UiCap
    BY <1>0, <1>1, <2>1, PassType DEF UiSend, TypeOK
  <2> QED BY <1>0, <1>1, <2>1, <2>2 DEF UiSend, TypeOK, net, sock, chan
<1>2. CASE UiResumes
  <2>1. held \in 1..MaxOut
    BY <1>0, <1>2 DEF UiResumes, TypeOK
  <2>2. uiOut' \in Seq(1..MaxOut) /\ Len(uiOut') <= UiCap
    BY <1>0, <1>2, <2>1, PassType DEF UiResumes
  <2> QED BY <1>0, <1>2, <2>2 DEF UiResumes, TypeOK, net, sock, chan
<1>3. ASSUME NEW m \in M, ServerSend(m) PROVE TypeOK'
  <2>1. wire' \in Seq(M)
    BY <1>3, <1>w DEF ServerSend
  <2>2. served' \in 0..MaxIn
    BY SMTT(60), <1>0, <1>3, Codes DEF ServerSend, TypeOK
  <2> QED BY <1>0, <1>3, <2>1, <2>2 DEF ServerSend, TypeOK, sock, chan, ui
<1>4. ASSUME NEW how \in {"cut", "hole"}, NetworkFails(how) PROVE TypeOK'
  <2>1. wire' \in Seq(M)
    BY <1>4, <1>w DEF NetworkFails
  <2> QED BY <1>0, <1>4, <2>1 DEF NetworkFails, TypeOK, sock, chan, ui
<1>5. CASE Upgrade
  <2>1. wire' \in Seq(M) /\ conns' \in 0..MaxConns
    BY <1>0, <1>5 DEF Upgrade, TypeOK
  <2> QED BY <1>0, <1>5, <2>1 DEF Upgrade, TypeOK, sock, chan, ui
<1>u. ASSUME UNCHANGED <<net, loopMsg, chan, ui, conns, written, shown, verdict>>,
             UNCHANGED <<taskMsg, missed, pending>>,
             task' \in {task, "over"}, close' \in {close, 0, -1000},
             loop' \in {"connecting", "greeting", "serving", "sending", "backoff", "failed", "stopped"}
      PROVE  TypeOK'
  <2>1. /\ UNCHANGED <<link, wire, served, loopMsg, connIn, connOut, uiOut, held, asked, conns>>
        /\ UNCHANGED <<written, shown, verdict, taskMsg, missed, pending>>
    BY <1>u DEF net, chan, ui
  <2>2. task' \in {"off", "select", "pushing", "over"}
    BY <1>0, <1>u DEF TypeOK
  <2>3. close' \in {-1, 0, -1000} \cup CloseCode
    BY <1>0, <1>u DEF TypeOK
  <2> QED BY <1>0, <1>u, <2>1, <2>2, <2>3 DEF TypeOK
<1>6. CASE ConnectFails \/ GreetCut \/ Quit \/ Retry
  BY <1>u, <1>6 DEF ConnectFails, GreetCut, Quit, Retry, sock
<1>7. CASE Greet
  <2>1. /\ wire' \in Seq(M)
        /\ UNCHANGED <<link, served, loopMsg, uiOut, held, asked, conns, written, shown>>
    BY <1>7, <1>w DEF Greet, ui
  <2>2. CASE UNCHANGED <<sock, chan, loop, verdict>>
    BY <1>0, <2>1, <2>2 DEF TypeOK, sock, chan
  <2>3. CASE \E m \in Frame : Connected(m)
    <3>1. PICK m \in Frame : Connected(m)
      BY <2>3
    <3>2. connIn' \in Seq(Frame) /\ Len(connIn') <= Cap /\ connOut' \in Seq(1..MaxOut) /\ Len(connOut') <= Cap
      BY <3>1 DEF Connected
    <3>3. pending' \in BOOLEAN
      BY <3>1 DEF Connected
    <3> QED BY <1>0, <2>1, <3>1, <3>2, <3>3 DEF Connected, TypeOK, MaxMissed
  <2>4. CASE \E m \in Refusal : Refused(m)
    BY <1>0, <2>1, <2>4 DEF Refused, TypeOK, sock, chan
  <2> QED BY <1>7, <2>2, <2>3, <2>4 DEF Greet
<1>8. CASE ReadFrame
  <2>1. /\ wire' \in Seq(M) /\ Head(wire) \in M
        /\ UNCHANGED <<link, served, loop, loopMsg, connIn, connOut, uiOut, held, asked,
                       conns, written, shown>>
    BY <1>8, <1>w DEF ReadFrame, chan, ui
  <2>2. task' \in {"off", "select", "pushing", "over"} /\ taskMsg' \in 0..MaxIn
    <3>1. task' \in {task, "pushing", "over"} /\ (taskMsg' = taskMsg \/ taskMsg' \in Frame)
      BY <1>8 DEF ReadFrame, EndTask
    <3> QED BY ZenonT(60), <1>0, <3>1, Codes DEF TypeOK
  <2>3. missed' \in 0..MaxMissed
    BY <1>0, <1>8 DEF ReadFrame, TypeOK, MaxMissed
  <2>4. pending' \in BOOLEAN
    BY ZenonT(60), <1>0, <1>8 DEF ReadFrame, TypeOK
  <2>5. close' \in {-1, 0, -1000} \cup CloseCode /\ verdict' \in {0} \cup CloseCode \cup Refusal
    BY SMTT(60), <1>0, <1>8 DEF ReadFrame, EndTask, TypeOK
  <2> QED BY <1>0, <2>1, <2>2, <2>3, <2>4, <2>5 DEF TypeOK
<1>9. CASE PushIn
  <2>1. taskMsg \in Frame
    BY <1>0, <1>9 DEF PushIn, Passing
  <2>2. connIn' \in Seq(Frame) /\ Len(connIn') <= Cap
    BY <1>0, <1>9, <2>1 DEF PushIn, Enqueue, Room, TypeOK
  <2> QED BY <1>0, <1>9, <2>2 DEF PushIn, TypeOK, net, ui
<1>10. CASE ReadEnd \/ OutClosed
  <2>1. loop' \in {"connecting", "greeting", "serving", "sending", "backoff", "failed", "stopped"}
    BY SMTT(60), <1>0, <1>10 DEF ReadEnd, OutClosed, TypeOK
  <2> QED BY <1>u, <1>10, <2>1 DEF ReadEnd, OutClosed, EndTask
<1>11. CASE WriteOut
  <2>1. written' \in 0..MaxOut /\ connOut' \in Seq(1..MaxOut) /\ Len(connOut') <= Cap
    BY <1>0, <1>11 DEF WriteOut, TypeOK
  <2> QED BY <1>0, <1>11, <2>1 DEF WriteOut, TypeOK, net, sock, ui
<1>12. CASE Tick
  <2>1. missed' \in 0..MaxMissed
    BY <1>0, <1>12 DEF Tick, Misses, Patient, Alive, TypeOK, MaxMissed
  <2>2. pending' \in BOOLEAN
    BY ZenonT(60), <1>0, <1>12 DEF Tick, TypeOK
  <2> QED BY <1>0, <1>12, <2>1, <2>2 DEF Tick, EndTask, TypeOK, net, chan, ui
<1>13. CASE LoopClose \/ LoopInEnd
  BY <1>u, <1>13 DEF LoopClose, LoopInEnd, Leave, sock
<1>14. CASE LoopIn
  <2>1. /\ connIn # <<>> /\ connIn \in Seq(Frame) /\ Len(connIn) <= Cap
        /\ shown' = Head(connIn) /\ connIn' = Tail(connIn)
    BY <1>0, <1>14 DEF LoopIn, ToUi, TypeOK
  <2>2. Head(connIn) \in Frame /\ connIn' \in Seq(Frame) /\ Len(connIn') <= Cap
    BY <2>1
  <2>3. shown' \in 0..MaxIn
    BY <2>1, <2>2, Codes
  <2> QED BY <1>0, <1>14, <2>2, <2>3 DEF LoopIn, TypeOK, net, sock, ui
<1>15. CASE LoopOut
  <2>1. loopMsg' \in 0..MaxOut /\ uiOut' \in Seq(1..MaxOut) /\ Len(uiOut') <= UiCap
    BY <1>0, <1>15 DEF LoopOut, TypeOK
  <2> QED BY <1>0, <1>15, <2>1 DEF LoopOut, TypeOK, net, sock, chan
<1>16. CASE SendOut
  <2>1. loopMsg \in 1..MaxOut
    BY <1>0, <1>16 DEF SendOut, Passing
  <2>2. connOut' \in Seq(1..MaxOut) /\ Len(connOut') <= Cap
    <3>1. connOut \in Seq(1..MaxOut) /\ Len(connOut) <= Cap
      BY <1>0 DEF TypeOK
    <3>2. connOut' = connOut \/ (Len(connOut) < Cap /\ connOut' = Append(connOut, loopMsg))
      BY <1>16 DEF SendOut, Hand, Enqueue, Room
    <3> QED BY SMTT(60), <2>1, <3>1, <3>2
  <2> QED BY <1>0, <1>16, <2>2 DEF SendOut, TypeOK, net, sock, ui
<1>17. CASE UNCHANGED vars
  BY <1>0, <1>17 DEF vars, net, sock, chan, ui, TypeOK
<1> QED
  BY <1>1, <1>2, <1>3, <1>4, <1>5, <1>6, <1>7, <1>8, <1>9, <1>10, <1>11, <1>12, <1>13, <1>14,
     <1>15, <1>16, <1>17
  DEF Next

\* Each step keeps what is said of the two tasks.
LEMMA TaskStep == TaskInv /\ [Next]_vars => TaskInv'
<1> SUFFICES ASSUME TaskInv, [Next]_vars
             PROVE  NoTaskOutside' /\ Passing' /\ Patient' /\ CloseEnds'
  BY TypeStep DEF TaskInv
<1>0. TypeOK /\ NoTaskOutside /\ Passing /\ Patient /\ CloseEnds
  BY DEF TaskInv
<1> USE ClientNetAssumption DEF NoTaskOutside, Passing, Patient, CloseEnds, Outside, Alive
<1>1. CASE UNCHANGED <<task, taskMsg, missed, close, loop, loopMsg>>
  BY <1>0, <1>1
<1>2. CASE Upgrade \/ ConnectFails \/ GreetCut \/ Quit \/ Retry
  BY <1>0, <1>2 DEF Upgrade, ConnectFails, GreetCut, Quit, Retry, sock
<1>3. CASE Greet
  <2>1. CASE UNCHANGED <<sock, chan, loop, verdict>>
    BY <1>1, <1>3, <2>1 DEF Greet, sock
  <2>2. CASE \E m \in Frame : Connected(m)
    BY <1>0, <1>3, <2>2 DEF Greet, Connected, MaxMissed
  <2>3. CASE \E m \in Refusal : Refused(m)
    BY <1>0, <1>3, <2>3 DEF Greet, Refused, sock
  <2> QED BY <1>3, <2>1, <2>2, <2>3 DEF Greet
<1>4. CASE ReadFrame
  BY <1>0, <1>4 DEF ReadFrame, EndTask, MaxMissed
<1>5. CASE PushIn
  BY <1>0, <1>5 DEF PushIn
<1>6. CASE ReadEnd \/ OutClosed
  BY <1>0, <1>6 DEF ReadEnd, OutClosed, EndTask
<1>7. CASE Tick
  BY <1>0, <1>7 DEF Tick, EndTask, TypeOK, MaxMissed
<1>8. CASE LoopClose \/ LoopInEnd
  BY <1>0, <1>8 DEF LoopClose, LoopInEnd, Leave, sock
<1>9. CASE LoopOut
  <2>1. loopMsg' \in 1..MaxOut
    BY <1>0, <1>9 DEF LoopOut, TypeOK
  <2> QED BY <1>0, <1>9, <2>1 DEF LoopOut, sock
<1>10. CASE SendOut
  BY <1>0, <1>10 DEF SendOut, sock
<1> QED
  BY <1>1, <1>2, <1>3, <1>4, <1>5, <1>6, <1>7, <1>8, <1>9, <1>10
  DEF Next, UiSend, UiResumes, ServerSend, NetworkFails, WriteOut, LoopIn, vars, sock

\* At the start there is no connection, and no task.
LEMMA TaskInit == Init => TaskInv
<1> SUFFICES ASSUME Init PROVE TaskInv
  OBVIOUS
<1> USE ClientNetAssumption DEF Init
<1>1. TypeOK
  <2>1. /\ link \in {"up", "cut", "hole"} /\ task \in {"off", "select", "pushing", "over"}
        /\ loop \in {"connecting", "greeting", "serving", "sending", "backoff", "failed", "stopped"}
    OBVIOUS
  <2>2. /\ wire \in Seq({Pong} \cup Frame \cup CloseCode \cup Refusal)
        /\ connIn \in Seq(Frame) /\ Len(connIn) <= Cap
        /\ connOut \in Seq(1..MaxOut) /\ Len(connOut) <= Cap
        /\ uiOut \in Seq(1..MaxOut) /\ Len(uiOut) <= UiCap
    OBVIOUS
  <2>3. /\ taskMsg \in 0..MaxIn /\ missed \in 0..MaxMissed /\ loopMsg \in 0..MaxOut
        /\ held \in 0..MaxOut /\ asked \in 0..MaxOut /\ served \in 0..MaxIn /\ conns \in 0..MaxConns
        /\ written \in 0..MaxOut /\ shown \in 0..MaxIn
    BY DEF MaxMissed
  <2>4. pending \in BOOLEAN /\ close \in {-1, 0, -1000} \cup CloseCode
        /\ verdict \in {0} \cup CloseCode \cup Refusal
    BY ZenonT(60)
  <2> QED BY <2>1, <2>2, <2>3, <2>4 DEF TypeOK
<1>2. NoTaskOutside /\ Passing /\ Patient /\ CloseEnds
  BY DEF NoTaskOutside, Passing, Patient, CloseEnds, Alive
<1> QED BY <1>1, <1>2 DEF TaskInv

\* No channel holds more than it can, and task and loop are passing on only what they
\* have taken, through every reconnect.
THEOREM Types == Spec => [](TypeOK /\ Passing)
<1>1. TaskInv => TypeOK /\ Passing
  BY DEF TaskInv
<1> QED
  BY <1>1, TaskInit, TaskStep, PTL DEF Spec

-----------------------------------------------------------------------------
(* When the loop gives up                                                     *)

\* Every step keeps the verdict of the socket that is left.
LEMMA ToldStep == TaskInv /\ ToldInv /\ [Next]_vars => ToldInv'
<1> SUFFICES ASSUME TaskInv, ToldInv, [Next]_vars PROVE ToldInv'
  OBVIOUS
<1>0. TypeOK /\ NoTaskOutside /\ Passing /\ CloseEnds /\ FailedOnlyWhenTold /\ CloseIsTold
  BY DEF TaskInv, ToldInv
<1> USE DEF ToldInv, FailedOnlyWhenTold, CloseIsTold
<1>1. CASE UNCHANGED <<loop, close, verdict>>
  BY <1>0, <1>1
<1>2. CASE Upgrade \/ ConnectFails \/ GreetCut \/ Quit \/ Retry
  BY <1>0, <1>2 DEF Upgrade, ConnectFails, GreetCut, Quit, Retry, sock
<1>3. CASE Greet
  <2>1. CASE UNCHANGED <<sock, chan, loop, verdict>>
    BY <1>1, <2>1 DEF sock
  <2>2. CASE \E m \in Frame : Connected(m)
    BY <2>2 DEF Connected, Terminal
  <2>3. CASE \E m \in Refusal : Refused(m)
    BY <2>3 DEF Refused, Terminal, AuthFailed
  <2> QED BY <1>3, <2>1, <2>2, <2>3 DEF Greet
<1>4. CASE ReadFrame
  <2>1. task = "select" /\ loop # "failed" /\ UNCHANGED loop
    BY <1>0, <1>4 DEF ReadFrame, NoTaskOutside, Outside, Alive
  <2>2. UNCHANGED <<close, verdict>> \/ close' = verdict'
    BY <1>4 DEF ReadFrame, EndTask
  <2> QED BY <1>0, <2>1, <2>2
<1>5. CASE ReadEnd \/ Tick
  <2>1. UNCHANGED <<loop, verdict>> /\ (close' = close \/ close' = 0)
    BY <1>5 DEF ReadEnd, Tick, EndTask
  <2> QED BY <1>0, <2>1, Codes
<1>6. CASE OutClosed
  BY <1>0, <1>6 DEF OutClosed
<1>7. CASE LoopClose
  BY <1>0, <1>7 DEF LoopClose, Leave, IsTerminal, sock
<1>8. CASE LoopInEnd
  BY <1>0, <1>8, Codes DEF LoopInEnd, Leave, IsTerminal, sock
<1>9. CASE LoopOut \/ SendOut
  BY <1>0, <1>9 DEF LoopOut, SendOut, sock
<1> QED
  BY <1>1, <1>2, <1>3, <1>4, <1>5, <1>6, <1>7, <1>8, <1>9
  DEF Next, UiSend, UiResumes, ServerSend, NetworkFails, PushIn, WriteOut, LoopIn, vars, sock

\* The loop gives up only when the server has told it to on the socket it is leaving
\* (TERMINAL_CODES and AuthFailed of reconnect.rs).
THEOREM GivesUpWhenTold == Spec => []FailedOnlyWhenTold
<1>1. Init => ToldInv
  BY DEF Init, ToldInv, FailedOnlyWhenTold, CloseIsTold
<1>2. TaskInv /\ ToldInv /\ [Next]_vars => (TaskInv /\ ToldInv)'
  BY TaskStep, ToldStep
<1>3. ToldInv => FailedOnlyWhenTold
  BY DEF ToldInv
<1> QED
  BY <1>1, <1>2, <1>3, TaskInit, PTL DEF Spec

-----------------------------------------------------------------------------
(* Channels in order                                                          *)

\* What is taken from the head of a channel comes before what is left in it.
LEMMA TakeHead ==
  ASSUME NEW q \in Seq(Int), q # <<>>, NEW S, Rising(q, S)
  PROVE  /\ In(q, S) = ({Head(q)} \cap S) \cup In(Tail(q), S)
         /\ Rising(Tail(q), S) /\ Less({Head(q)} \cap S, In(Tail(q), S))
<1> DEFINE t == Tail(q)
<1>1. /\ Len(q) \in Nat /\ DOMAIN q = 1..Len(q) /\ 1 \in DOMAIN q /\ Head(q) = q[1]
      /\ DOMAIN t = 1..(Len(q) - 1) /\ \A i \in DOMAIN t : t[i] = q[i + 1] /\ i + 1 \in DOMAIN q
  OBVIOUS
<1> HIDE DEF t
<1>2. ToSet(q) = {Head(q)} \cup ToSet(t)
  <2>1. ASSUME NEW i \in DOMAIN q, i # 1 PROVE q[i] \in ToSet(t)
    <3>1. i - 1 \in DOMAIN t /\ t[i - 1] = q[i]
      BY <1>1, <2>1
    <3> QED BY <3>1 DEF ToSet
  <2>2. ToSet(t) \subseteq ToSet(q)
    BY <1>1 DEF ToSet
  <2>3. ToSet(q) \subseteq {Head(q)} \cup ToSet(t)
    BY <1>1, <2>1 DEF ToSet
  <2>4. Head(q) \in ToSet(q)
    BY <1>1 DEF ToSet
  <2> QED BY <2>2, <2>3, <2>4
<1>3. Rising(t, S)
  <2> SUFFICES ASSUME NEW i \in DOMAIN t, NEW j \in DOMAIN t, i < j, t[i] \in S, t[j] \in S
               PROVE  t[i] < t[j]
    BY DEF Rising
  <2>1. t[i] = q[i + 1] /\ t[j] = q[j + 1] /\ i + 1 \in DOMAIN q /\ j + 1 \in DOMAIN q /\ i + 1 < j + 1
    BY <1>1
  <2> QED BY <2>1 DEF Rising
<1>4. Less({Head(q)} \cap S, In(t, S))
  <2> SUFFICES ASSUME q[1] \in S, NEW i \in DOMAIN t, t[i] \in S PROVE q[1] < t[i]
    BY <1>1 DEF Less, In, ToSet
  <2>1. t[i] = q[i + 1] /\ i + 1 \in DOMAIN q /\ 1 < i + 1
    BY <1>1
  <2> QED BY <1>1, <2>1 DEF Rising
<1> QED BY <1>2, <1>3, <1>4 DEF In, t

\* Sequences in order, each before the next, are in order together.
LEMMA Joined ==
  ASSUME NEW p \in Seq(Int), NEW q \in Seq(Int), NEW S,
         Rising(p, S), Rising(q, S), Less(In(p, S), In(q, S))
  PROVE  /\ p \o q \in Seq(Int) /\ Rising(p \o q, S) /\ In(p \o q, S) = In(p, S) \cup In(q, S)
<1> DEFINE r == p \o q
<1>1. /\ r \in Seq(Int) /\ Len(r) = Len(p) + Len(q) /\ DOMAIN r = 1..(Len(p) + Len(q))
      /\ Len(p) \in Nat /\ Len(q) \in Nat /\ DOMAIN p = 1..Len(p) /\ DOMAIN q = 1..Len(q)
  OBVIOUS
<1>2. /\ \A i \in DOMAIN p : i \in DOMAIN r /\ r[i] = p[i]
      /\ \A i \in DOMAIN q : i + Len(p) \in DOMAIN r /\ r[i + Len(p)] = q[i]
      /\ \A i \in DOMAIN r : i \in DOMAIN p \/ (i - Len(p) \in DOMAIN q /\ i > Len(p) /\ r[i] = q[i - Len(p)])
  OBVIOUS
<1> HIDE DEF r
<1>3. ToSet(r) = ToSet(p) \cup ToSet(q)
  <2>1. ToSet(p) \subseteq ToSet(r)
    BY <1>2 DEF ToSet
  <2>2. ToSet(q) \subseteq ToSet(r)
    BY <1>2 DEF ToSet
  <2>3. ToSet(r) \subseteq ToSet(p) \cup ToSet(q)
    BY <1>2 DEF ToSet
  <2> QED BY <2>1, <2>2, <2>3
<1>4. Rising(r, S)
  <2> SUFFICES ASSUME NEW i \in DOMAIN r, NEW j \in DOMAIN r, i < j, r[i] \in S, r[j] \in S
               PROVE  r[i] < r[j]
    BY DEF Rising
  <2>1. CASE i \in DOMAIN p /\ j \in DOMAIN p
    BY <1>2, <2>1 DEF Rising
  <2>2. CASE i \in DOMAIN p /\ j \notin DOMAIN p
    <3>1. r[i] \in In(p, S) /\ r[j] \in In(q, S)
      BY <1>2, <2>2 DEF In, ToSet
    <3> QED BY <3>1 DEF Less
  <2>3. CASE i \notin DOMAIN p
    <3>1. /\ i - Len(p) \in DOMAIN q /\ j - Len(p) \in DOMAIN q /\ i - Len(p) < j - Len(p)
          /\ r[i] = q[i - Len(p)] /\ r[j] = q[j - Len(p)]
      BY SMTT(60), <1>1, <1>2, <2>3
    <3> QED BY <3>1 DEF Rising
  <2> QED BY <2>1, <2>2, <2>3
<1> QED BY <1>1, <1>3, <1>4 DEF In, r

\* One message alone is in order.
LEMMA Single ==
  ASSUME NEW m \in Int, NEW S
  PROVE  <<m>> \in Seq(Int) /\ Rising(<<m>>, S) /\ In(<<m>>, S) = {m} \cap S
<1>1. <<m>> \in Seq(Int) /\ DOMAIN <<m>> = {1} /\ <<m>>[1] = m
  OBVIOUS
<1> QED BY <1>1 DEF Rising, In, ToSet

\* What is sent after all the rest, or is of no account, is appended in order.
LEMMA AppendRising ==
  ASSUME NEW q \in Seq(Int), NEW m \in Int, NEW S, Rising(q, S), Less(In(q, S), {m} \cap S)
  PROVE  Rising(Append(q, m), S) /\ In(Append(q, m), S) = In(q, S) \cup ({m} \cap S)
<1>1. Append(q, m) = q \o <<m>>
  BY AppendIsConcat
<1>2. <<m>> \in Seq(Int) /\ Rising(<<m>>, S) /\ In(<<m>>, S) = {m} \cap S
  BY Single
<1>3. Less(In(q, S), In(<<m>>, S))
  BY <1>2
<1>4. Rising(q \o <<m>>, S) /\ In(q \o <<m>>, S) = In(q, S) \cup In(<<m>>, S)
  BY <1>2, <1>3, Joined
<1> QED BY <1>1, <1>2, <1>4

\* So are four, each of which comes before all the rest.
LEMMA FourJoined ==
  ASSUME NEW p \in Seq(Int), NEW q \in Seq(Int), NEW r \in Seq(Int), NEW t \in Seq(Int), NEW S,
         Rising(p, S), Rising(q, S), Rising(r, S), Rising(t, S),
         Less(In(p, S), In(q, S)), Less(In(p, S) \cup In(q, S), In(r, S)),
         Less(In(p, S) \cup In(q, S) \cup In(r, S), In(t, S))
  PROVE  Rising(p \o q \o r \o t, S)
<1> DEFINE v == p \o q
           w == v \o r
<1>1. v \in Seq(Int) /\ Rising(v, S) /\ In(v, S) = In(p, S) \cup In(q, S)
  BY Joined
<1> HIDE DEF v
<1>2. w \in Seq(Int) /\ Rising(w, S) /\ In(w, S) = In(v, S) \cup In(r, S)
  <2>1. Less(In(v, S), In(r, S))
    BY <1>1
  <2>2. v \in Seq(Int) /\ Rising(v, S)
    BY <1>1
  <2> QED BY <2>1, <2>2, Joined
<1> HIDE DEF w
<1>3. Rising(w \o t, S)
  <2>1. Less(In(w, S), In(t, S))
    BY <1>1, <1>2 DEF Less
  <2>2. w \in Seq(Int) /\ Rising(w, S)
    BY <1>2
  <2> QED BY <2>1, <2>2, Joined
<1> QED BY <1>3 DEF v, w

\* The same of five.
LEMMA FiveJoined ==
  ASSUME NEW p \in Seq(Int), NEW q \in Seq(Int), NEW r \in Seq(Int), NEW t \in Seq(Int),
         NEW u \in Seq(Int), NEW S,
         Rising(p, S), Rising(q, S), Rising(r, S), Rising(t, S), Rising(u, S),
         Less(In(p, S), In(q, S)), Less(In(p, S) \cup In(q, S), In(r, S)),
         Less(In(p, S) \cup In(q, S) \cup In(r, S), In(t, S)),
         Less(In(p, S) \cup In(q, S) \cup In(r, S) \cup In(t, S), In(u, S))
  PROVE  Rising(p \o q \o r \o t \o u, S)
<1> DEFINE v == p \o q
           w == v \o r
           x == w \o t
<1>1. v \in Seq(Int) /\ Rising(v, S) /\ In(v, S) = In(p, S) \cup In(q, S)
  BY Joined
<1> HIDE DEF v
<1>2. w \in Seq(Int) /\ Rising(w, S) /\ In(w, S) = In(v, S) \cup In(r, S)
  <2>1. Less(In(v, S), In(r, S))
    BY <1>1
  <2>2. v \in Seq(Int) /\ Rising(v, S)
    BY <1>1
  <2> QED BY <2>1, <2>2, Joined
<1> HIDE DEF w
<1>3. x \in Seq(Int) /\ Rising(x, S) /\ In(x, S) = In(w, S) \cup In(t, S)
  <2>1. Less(In(w, S), In(t, S))
    BY <1>1, <1>2 DEF Less
  <2>2. w \in Seq(Int) /\ Rising(w, S)
    BY <1>2
  <2> QED BY <2>1, <2>2, Joined
<1> HIDE DEF x
<1>4. Rising(x \o u, S)
  <2>1. Less(In(x, S), In(u, S))
    BY <1>1, <1>2, <1>3 DEF Less
  <2>2. x \in Seq(Int) /\ Rising(x, S)
    BY <1>3
  <2> QED BY <2>1, <2>2, Joined
<1> QED BY <1>4 DEF v, w, x

\* What is left of a channel that is cut is in order.
LEMMA PrefixRising ==
  ASSUME NEW q \in Seq(Int), NEW k \in 0..Len(q), NEW S, Rising(q, S)
  PROVE  Rising(SubSeq(q, 1, k), S) /\ In(SubSeq(q, 1, k), S) \subseteq In(q, S)
<1> DEFINE t == SubSeq(q, 1, k)
<1>1. DOMAIN t \subseteq DOMAIN q /\ \A i \in DOMAIN t : t[i] = q[i]
  OBVIOUS
<1> HIDE DEF t
<1> QED BY <1>1 DEF Rising, In, ToSet, t

\* Nothing is in order.
LEMMA EmptyRising ==
  ASSUME NEW S
  PROVE  Rising(<<>>, S) /\ In(<<>>, S) = {}
BY DEF Rising, In, ToSet

-----------------------------------------------------------------------------
(* Frames and messages in order                                               *)

\* The channels hold numbers.
LEMMA Numbers ==
  TypeOK => /\ wire \in Seq(Int) /\ connIn \in Seq(Int) /\ connOut \in Seq(Int) /\ uiOut \in Seq(Int)
            /\ shown \in Int /\ taskMsg \in Int /\ written \in Int /\ loopMsg \in Int /\ held \in Int
            /\ served \in 0..MaxIn /\ asked \in 0..MaxOut
<1> SUFFICES ASSUME TypeOK
             PROVE  /\ wire \in Seq(Int) /\ connIn \in Seq(Int) /\ connOut \in Seq(Int) /\ uiOut \in Seq(Int)
                    /\ shown \in Int /\ taskMsg \in Int /\ written \in Int /\ loopMsg \in Int /\ held \in Int
                    /\ served \in 0..MaxIn /\ asked \in 0..MaxOut
  OBVIOUS
<1> USE ClientNetAssumption
<1>1. wire \in Seq(Int)
  <2>1. {Pong} \cup Frame \cup CloseCode \cup Refusal \subseteq Int
    BY DEF Pong, Frame, CloseCode, Refusal, AuthFailed
  <2>2. wire \in Seq({Pong} \cup Frame \cup CloseCode \cup Refusal)
    BY DEF TypeOK
  <2> QED BY <2>1, <2>2
<1>2. connIn \in Seq(Int) /\ connOut \in Seq(Int) /\ uiOut \in Seq(Int)
  <2>1. Frame \subseteq Int /\ 1..MaxOut \subseteq Int
    BY DEF Frame
  <2>2. connIn \in Seq(Frame) /\ connOut \in Seq(1..MaxOut) /\ uiOut \in Seq(1..MaxOut)
    BY DEF TypeOK
  <2>3. connIn \in Seq(Int)
    BY <2>2 DEF Frame
  <2>4. connOut \in Seq(Int)
    BY <2>1, <2>2
  <2>5. uiOut \in Seq(Int)
    BY <2>1, <2>2
  <2> QED BY <2>3, <2>4, <2>5
<1> QED BY <1>1, <1>2 DEF TypeOK

\* The pieces make up the two roads.
LEMMA RoadsInOrder == TypeOK /\ FramesInOrder /\ MessagesInOrder => InOrder
<1> SUFFICES ASSUME TypeOK, FramesInOrder, MessagesInOrder PROVE InOrder
  OBVIOUS
<1>0. /\ wire \in Seq(Int) /\ connIn \in Seq(Int) /\ connOut \in Seq(Int) /\ uiOut \in Seq(Int)
      /\ shown \in Int /\ taskMsg \in Int /\ written \in Int /\ loopMsg \in Int /\ held \in Int
  BY Numbers
<1>1. Rising(<<shown>> \o connIn \o <<taskMsg>> \o wire, Frame)
  <2>1. /\ <<shown>> \in Seq(Int) /\ Rising(<<shown>>, Frame)
        /\ In(<<shown>>, Frame) = {shown} \cap Frame
    BY <1>0, Single
  <2>2. /\ <<taskMsg>> \in Seq(Int) /\ Rising(<<taskMsg>>, Frame)
        /\ In(<<taskMsg>>, Frame) = {taskMsg} \cap Frame
    BY <1>0, Single
  <2>3. Rising(connIn, Frame) /\ Rising(wire, Frame)
    BY DEF FramesInOrder
  <2>4. Less(In(<<shown>>, Frame), In(connIn, Frame))
    BY <2>1 DEF FramesInOrder, Less
  <2>5. Less(In(<<shown>>, Frame) \cup In(connIn, Frame), In(<<taskMsg>>, Frame))
    BY <2>1, <2>2 DEF FramesInOrder, Less
  <2>6. Less(In(<<shown>>, Frame) \cup In(connIn, Frame) \cup In(<<taskMsg>>, Frame), In(wire, Frame))
    BY <2>1, <2>2 DEF FramesInOrder, Less
  <2> DEFINE p == <<shown>>   r == <<taskMsg>>
  <2> HIDE DEF p, r
  <2>7. Rising(p \o connIn \o r \o wire, Frame)
    BY <1>0, <2>1, <2>2, <2>3, <2>4, <2>5, <2>6, FourJoined DEF p, r
  <2> QED BY <2>7 DEF p, r
<1>2. Rising(<<written>> \o connOut \o <<loopMsg>> \o uiOut \o <<held>>, 1..MaxOut)
  <2> DEFINE S == 1..MaxOut
             p == <<written>>   r == <<loopMsg>>   u == <<held>>
  <2>1. /\ Rising(connOut, S) /\ Rising(uiOut, S)
        /\ Less({written} \cap S, In(connOut, S))
        /\ Less(({written} \cap S) \cup In(connOut, S), {loopMsg} \cap S)
        /\ Less(({written} \cap S) \cup In(connOut, S) \cup ({loopMsg} \cap S), In(uiOut, S))
        /\ Less(({written} \cap S) \cup In(connOut, S) \cup ({loopMsg} \cap S) \cup In(uiOut, S),
                {held} \cap S)
    BY DEF MessagesInOrder, Less
  <2> HIDE DEF S
  <2>2. /\ p \in Seq(Int) /\ Rising(p, S) /\ In(p, S) = {written} \cap S
        /\ r \in Seq(Int) /\ Rising(r, S) /\ In(r, S) = {loopMsg} \cap S
        /\ u \in Seq(Int) /\ Rising(u, S) /\ In(u, S) = {held} \cap S
    BY <1>0, Single
  <2> HIDE DEF p, r, u
  <2>3. Less(In(p, S), In(connOut, S))
    BY <2>1, <2>2
  <2>4. Less(In(p, S) \cup In(connOut, S), In(r, S))
    BY <2>1, <2>2
  <2>5. Less(In(p, S) \cup In(connOut, S) \cup In(r, S), In(uiOut, S))
    BY <2>1, <2>2
  <2>6. Less(In(p, S) \cup In(connOut, S) \cup In(r, S) \cup In(uiOut, S), In(u, S))
    BY <2>1, <2>2
  <2>7. Rising(p \o connOut \o r \o uiOut \o u, S)
    BY <1>0, <2>1, <2>2, <2>3, <2>4, <2>5, <2>6, FiveJoined
  <2> QED BY <2>7 DEF p, r, u, S
<1> QED BY <1>1, <1>2 DEF InOrder

\* Every step keeps the frames in order.
LEMMA FramesStep == TaskInv /\ FramesInOrder /\ [Next]_vars => FramesInOrder'
<1> SUFFICES ASSUME TaskInv, FramesInOrder, [Next]_vars PROVE FramesInOrder'
  OBVIOUS
<1> USE ClientNetAssumption
<1> DEFINE A == {shown} \cap Frame   B == In(connIn, Frame)
           C == {taskMsg} \cap Frame D == In(wire, Frame)
<1>0. TypeOK /\ Passing /\ NoTaskOutside
  BY DEF TaskInv
<1>n. wire \in Seq(Int) /\ connIn \in Seq(Int) /\ served \in 0..MaxIn /\ Frame \subseteq Int
  BY <1>0, Numbers DEF Frame
<1>d. /\ Rising(connIn, Frame) /\ Rising(wire, Frame)
      /\ Less(A, B \cup C \cup D) /\ Less(B, C \cup D) /\ Less(C, D)
      /\ A \cup B \cup C \cup D \subseteq 1..served
  BY DEF FramesInOrder
\* Pieces that get smaller, but for a frame that is sent after all others.
<1>1. ASSUME Rising(connIn, Frame)', Rising(wire, Frame)',
             A' \subseteq A, B' \subseteq B, C' \subseteq C,
             \/ served' = served /\ D' \subseteq D
             \/ served' = served + 1 /\ D' \subseteq D \cup {served + 1}
      PROVE  FramesInOrder'
  <2> HIDE DEF A, B, C, D
  <2>1. /\ Less(A', B' \cup C' \cup D') /\ Less(B', C' \cup D') /\ Less(C', D')
        /\ A' \cup B' \cup C' \cup D' \subseteq 1..served'
    BY <1>1, <1>d, <1>n DEF Less
  <2> QED BY <1>1, <2>1 DEF FramesInOrder, A, B, C, D
\* The head of what is under way moves on.
<1>h. ASSUME wire # <<>>
      PROVE  /\ D = ({Head(wire)} \cap Frame) \cup In(Tail(wire), Frame)
             /\ Rising(Tail(wire), Frame) /\ Less({Head(wire)} \cap Frame, In(Tail(wire), Frame))
  BY <1>d, <1>h, <1>n, TakeHead
<1>2. CASE UNCHANGED <<shown, connIn, taskMsg, wire, served>>
  BY <1>1, <1>2, <1>d
<1>3. ASSUME NEW m \in {Pong} \cup Frame \cup CloseCode \cup Refusal, ServerSend(m)
      PROVE  FramesInOrder'
  <2>1. UNCHANGED <<shown, connIn, taskMsg>> /\ wire' = Append(wire, m) /\ m \in Int
    BY <1>3 DEF ServerSend, sock, chan, Pong, Frame, CloseCode, Refusal, AuthFailed
  <2>2. \/ m = served + 1 /\ served' = served + 1 /\ m \in Frame
        \/ m \notin Frame /\ served' = served
    BY <1>3, Codes DEF ServerSend
  <2>3. Less(D, {m} \cap Frame)
    BY <1>d, <1>n, <2>2 DEF Less
  <2>4. Rising(wire', Frame) /\ In(wire', Frame) = D \cup ({m} \cap Frame)
    BY <1>d, <1>n, <2>1, <2>3, AppendRising
  <2> QED BY <1>1, <1>d, <2>1, <2>2, <2>4
<1>4. ASSUME NEW how \in {"cut", "hole"}, NetworkFails(how) PROVE FramesInOrder'
  <2>1. PICK k \in 0..Len(wire) : wire' = SubSeq(wire, 1, k)
    BY <1>4 DEF NetworkFails
  <2>2. Rising(wire', Frame) /\ D' \subseteq D
    BY <1>d, <1>n, <2>1, PrefixRising
  <2>3. UNCHANGED <<shown, connIn, taskMsg, served>>
    BY <1>4 DEF NetworkFails, sock, chan
  <2> QED BY <1>1, <1>d, <2>2, <2>3
<1>5. CASE Upgrade
  <2>1. wire' = <<>> /\ UNCHANGED <<shown, connIn, taskMsg, served>>
    BY <1>5 DEF Upgrade, sock, chan
  <2>2. Rising(wire', Frame) /\ D' = {}
    BY <2>1, EmptyRising
  <2> QED BY <1>1, <1>d, <2>1, <2>2
<1>6. CASE Greet
  <2>1. wire # <<>> /\ wire' = Tail(wire) /\ UNCHANGED <<shown, served>>
    BY <1>6 DEF Greet
  <2>2. CASE UNCHANGED <<connIn, taskMsg>>
    BY <1>1, <1>d, <1>h, <2>1, <2>2
  <2>3. CASE \E m \in Frame : m = Head(wire) /\ Connected(m)
    <3>1. Head(wire) \in Frame /\ connIn' = <<Head(wire)>> /\ taskMsg' = taskMsg
      BY <2>3 DEF Connected
    <3>2. taskMsg = 0 /\ C = {}
      BY <1>0, <1>6, Codes DEF Greet, Passing, NoTaskOutside, Outside, Alive, Pong
    <3>3. Rising(connIn', Frame) /\ B' = {Head(wire)} /\ C' = {} /\ A' = A
      BY <1>n, <2>1, <3>1, <3>2, Single
    <3>4. D = {Head(wire)} \cup D' /\ Rising(wire, Frame)' /\ Less({Head(wire)}, D')
      BY <1>h, <2>1, <3>1
    <3> HIDE DEF A, B, C, D
    <3>5. /\ Less(A', B' \cup C' \cup D') /\ Less(B', C' \cup D') /\ Less(C', D')
          /\ A' \cup B' \cup C' \cup D' \subseteq 1..served'
      BY <1>d, <2>1, <3>3, <3>4 DEF Less
    <3> QED BY <3>3, <3>4, <3>5 DEF FramesInOrder, A, B, C, D
  <2> QED BY <1>6, <2>2, <2>3 DEF Greet, Refused, sock, chan
<1>7. CASE ReadFrame
  <2>1. wire # <<>> /\ wire' = Tail(wire) /\ UNCHANGED <<shown, connIn, served>>
    BY <1>7 DEF ReadFrame, chan
  <2>2. CASE taskMsg' = taskMsg
    BY <1>1, <1>d, <1>h, <2>1, <2>2
  <2>3. CASE Head(wire) \in Frame /\ taskMsg' = Head(wire)
    <3>1. A' = A /\ B' = B /\ C' = {Head(wire)} /\ Rising(connIn, Frame)'
      BY <1>d, <2>1, <2>3
    <3>2. D = {Head(wire)} \cup D' /\ Rising(wire, Frame)' /\ Less({Head(wire)}, D')
      BY <1>h, <2>1, <2>3
    <3> HIDE DEF A, B, C, D
    <3>3. /\ Less(A', B' \cup C' \cup D') /\ Less(B', C' \cup D') /\ Less(C', D')
          /\ A' \cup B' \cup C' \cup D' \subseteq 1..served'
      BY <1>d, <2>1, <3>1, <3>2 DEF Less
    <3> QED BY <3>1, <3>2, <3>3 DEF FramesInOrder, A, B, C, D
  <2> QED BY <1>7, <2>2, <2>3 DEF ReadFrame
<1>8. CASE PushIn
  <2>1. /\ taskMsg' = 0 /\ UNCHANGED <<shown, wire, served>>
        /\ connIn' = connIn \/ connIn' = Append(connIn, taskMsg)
    BY <1>8 DEF PushIn, Enqueue, net
  <2>2. C' = {} /\ A' = A /\ D' = D /\ taskMsg \in Int /\ Rising(wire, Frame)'
    BY <1>0, <1>d, <2>1, Codes, Numbers DEF Pong
  <2>3. Rising(connIn, Frame)' /\ B' \subseteq B \cup C
    <3>1. CASE connIn' = connIn
      BY <1>d, <3>1
    <3>2. CASE connIn' = Append(connIn, taskMsg)
      <4>1. Less(B, {taskMsg} \cap Frame)
        BY <1>d DEF Less
      <4>2. /\ Rising(Append(connIn, taskMsg), Frame)
            /\ In(Append(connIn, taskMsg), Frame) = In(connIn, Frame) \cup ({taskMsg} \cap Frame)
        <5>1. connIn \in Seq(Int) /\ Rising(connIn, Frame) /\ taskMsg \in Int
          BY <1>d, <1>n, <2>2
        <5>2. Less(In(connIn, Frame), {taskMsg} \cap Frame)
          BY <4>1
        <5> QED BY ZenonT(60), <5>1, <5>2, AppendRising
      <4>3. Frame' = Frame
        BY DEF Frame
      <4>4. Rising(connIn, Frame)' /\ B' = In(Append(connIn, taskMsg), Frame)
        BY <3>2, <4>2, <4>3
      <4> QED BY <4>2, <4>4
    <3> QED BY <2>1, <3>1, <3>2
  <2> HIDE DEF A, B, C, D
  <2>4. /\ Less(A', B' \cup C' \cup D') /\ Less(B', C' \cup D') /\ Less(C', D')
        /\ A' \cup B' \cup C' \cup D' \subseteq 1..served'
    BY <1>d, <2>1, <2>2, <2>3 DEF Less
  <2> QED BY <2>2, <2>3, <2>4 DEF FramesInOrder, A, B, C, D
<1>9. CASE LoopIn
  <2>1. /\ connIn # <<>> /\ shown' = Head(connIn) /\ connIn' = Tail(connIn)
        /\ UNCHANGED <<taskMsg, wire, served>>
    BY <1>9 DEF LoopIn, ToUi, sock, net
  <2>2. B = A' \cup B' /\ Rising(connIn, Frame)' /\ Less(A', B')
    BY <1>d, <1>n, <2>1, TakeHead
  <2>3. C' = C /\ D' = D /\ Rising(wire, Frame)'
    BY <1>d, <2>1
  <2> HIDE DEF A, B, C, D
  <2>4. /\ Less(A', B' \cup C' \cup D') /\ Less(B', C' \cup D') /\ Less(C', D')
        /\ A' \cup B' \cup C' \cup D' \subseteq 1..served'
    BY <1>d, <2>1, <2>2, <2>3 DEF Less
  <2> QED BY <2>2, <2>3, <2>4 DEF FramesInOrder, A, B, C, D
<1> QED
  BY <1>2, <1>3, <1>4, <1>5, <1>6, <1>7, <1>8, <1>9
  DEF Next, UiSend, UiResumes, ConnectFails, GreetCut, ReadEnd, WriteOut, OutClosed, Tick, LoopClose,
      LoopInEnd, LoopOut, SendOut, Quit, Retry, vars, net, sock, chan

\* Every step keeps the messages in order.
LEMMA MessagesStep == TaskInv /\ MessagesInOrder /\ [Next]_vars => MessagesInOrder'
<1> SUFFICES ASSUME TaskInv, MessagesInOrder, [Next]_vars PROVE MessagesInOrder'
  OBVIOUS
<1> USE ClientNetAssumption
<1> DEFINE S == 1..MaxOut
           A == {written} \cap S   B == In(connOut, S)
           C == {loopMsg} \cap S   D == In(uiOut, S)   E == {held} \cap S
<1>0. TypeOK /\ Passing /\ NoTaskOutside
  BY DEF TaskInv
<1>n. /\ connOut \in Seq(Int) /\ uiOut \in Seq(Int) /\ asked \in 0..MaxOut
      /\ loopMsg \in Int /\ held \in Int /\ S \subseteq Int
  BY <1>0, Numbers
<1>d. /\ Rising(connOut, S) /\ Rising(uiOut, S)
      /\ Less(A, B \cup C \cup D \cup E) /\ Less(B, C \cup D \cup E)
      /\ Less(C, D \cup E) /\ Less(D, E)
      /\ A \cup B \cup C \cup D \cup E \subseteq 1..asked
  BY DEF MessagesInOrder
<1>s. S' = S
  OBVIOUS
\* A message moves on one piece of the road, or is dropped; others may be dropped with it.
<1>1. ASSUME Rising(connOut, S)', Rising(uiOut, S)', asked' = asked,
             \/ A' \subseteq A /\ B' \subseteq B /\ C' \subseteq C /\ D' \subseteq D /\ E' \subseteq E
             \/ /\ A' \cup B' \subseteq B /\ Less(A', B')
                /\ C' \subseteq C /\ D' \subseteq D /\ E' \subseteq E
             \/ /\ A' \subseteq A /\ B' \subseteq B \cup C /\ C' = {}
                /\ D' \subseteq D /\ E' \subseteq E
             \/ /\ A' \subseteq A /\ B' \subseteq B
                /\ C' \cup D' \subseteq D /\ Less(C', D') /\ E' \subseteq E
             \/ /\ A' \subseteq A /\ B' \subseteq B /\ C' \subseteq C
                /\ D' \subseteq D \cup E /\ E' = {}
      PROVE  MessagesInOrder'
  <2> HIDE DEF A, B, C, D, E, S
  <2>1. A' \cup B' \cup C' \cup D' \cup E' \subseteq 1..asked'
    BY <1>1, <1>d
  <2>2. Less(A', B' \cup C' \cup D' \cup E')
    BY <1>1, <1>d DEF Less
  <2>3. Less(B', C' \cup D' \cup E')
    BY <1>1, <1>d DEF Less
  <2>4. Less(C', D' \cup E')
    BY <1>1, <1>d DEF Less
  <2>5. Less(D', E')
    BY <1>1, <1>d DEF Less
  <2> QED BY <1>1, <2>1, <2>2, <2>3, <2>4, <2>5 DEF MessagesInOrder, A, B, C, D, E, S
<1>2. CASE UNCHANGED <<written, connOut, loopMsg, uiOut, held, asked>>
  BY <1>1, <1>2, <1>d
<1>3. CASE UiSend
  <2>1. /\ held = 0 /\ asked' = asked + 1 /\ asked' \in S /\ UNCHANGED <<written, connOut, loopMsg>>
    BY <1>0, <1>3 DEF UiSend, chan, TypeOK
  <2>2. /\ A' = A /\ B' = B /\ C' = C /\ E = {} /\ Rising(connOut, S)'
    BY <1>d, <2>1
  <2>3. CASE uiOut' = Append(uiOut, asked') /\ held' = held
    <3>1. Less(D, {asked'} \cap S)
      BY <1>d, <1>n, <2>1 DEF Less
    <3>2. asked' \in Int
      BY <2>1
    <3>3. /\ Rising(Append(uiOut, asked'), S)
          /\ In(Append(uiOut, asked'), S) = In(uiOut, S) \cup ({asked'} \cap S)
      <4>1. uiOut \in Seq(Int) /\ Rising(uiOut, S)
        BY <1>d, <1>n
      <4>2. Less(In(uiOut, S), {asked'} \cap S)
        BY <3>1
      <4> HIDE DEF S
      <4> QED BY ZenonT(60), <3>2, <4>1, <4>2, AppendRising
    <3>4. Rising(uiOut, S)' /\ D' = D \cup {asked'} /\ E' = {}
      BY <2>1, <2>2, <2>3, <3>3
    <3> HIDE DEF A, B, C, D, E, S
    <3>5. A' \cup B' \cup C' \cup D' \cup E' \subseteq 1..asked'
      BY <1>d, <1>n, <2>1, <2>2, <3>4
    <3>6. Less(A', B' \cup C' \cup D' \cup E')
      BY <1>d, <1>n, <2>1, <2>2, <3>4 DEF Less
    <3>7. Less(B', C' \cup D' \cup E') /\ Less(C', D' \cup E') /\ Less(D', E')
      BY <1>d, <1>n, <2>1, <2>2, <3>4 DEF Less
    <3> QED BY <2>2, <3>4, <3>5, <3>6, <3>7 DEF MessagesInOrder, A, B, C, D, E, S
  <2>4. CASE uiOut' = uiOut /\ held' \in {held, asked'}
    <3>1. Rising(uiOut, S)' /\ D' = D /\ \A x \in E' : x = asked'
      BY <1>d, <2>1, <2>4
    <3>2. \A x \in A \cup B \cup C \cup D : x \in Int /\ 1 <= x /\ x < asked'
      <4> HIDE DEF A, B, C, D, E, S
      <4> QED BY <1>d, <1>n, <2>1
    <3>3. asked' \in 1..asked' /\ \A x \in Int : 1 <= x /\ x < asked' => x \in 1..asked'
      BY <1>n, <2>1
    <3> HIDE DEF A, B, C, D, E, S
    <3>4. A' \cup B' \cup C' \cup D' \cup E' \subseteq 1..asked'
      BY <2>2, <3>1, <3>2, <3>3
    <3>5. Less(A', B' \cup C' \cup D' \cup E')
      BY <1>d, <2>2, <3>1, <3>2 DEF Less
    <3>6. Less(B', C' \cup D' \cup E') /\ Less(C', D' \cup E') /\ Less(D', E')
      BY <1>d, <2>2, <3>1, <3>2 DEF Less
    <3> QED BY <2>2, <3>1, <3>4, <3>5, <3>6 DEF MessagesInOrder, A, B, C, D, E, S
  <2> QED BY <1>3, <2>3, <2>4 DEF UiSend, Pass
<1>4. CASE UiResumes
  <2>1. /\ held' = 0 /\ UNCHANGED <<written, connOut, loopMsg, asked>>
        /\ uiOut' = uiOut \/ uiOut' = Append(uiOut, held)
    BY <1>4 DEF UiResumes, Pass, chan
  <2>2. A' = A /\ B' = B /\ C' = C /\ E' = {} /\ Rising(connOut, S)'
    BY <1>d, <2>1
  <2>3. Rising(uiOut, S)' /\ D' \subseteq D \cup E
    <3>1. CASE uiOut' = uiOut
      BY <1>d, <3>1
    <3>2. CASE uiOut' = Append(uiOut, held)
      <4>1. uiOut \in Seq(Int) /\ Rising(uiOut, S) /\ held \in Int
        BY <1>d, <1>n
      <4>2. Less(In(uiOut, S), {held} \cap S)
        BY <1>d
      <4>3. /\ Rising(Append(uiOut, held), S)
            /\ In(Append(uiOut, held), S) = In(uiOut, S) \cup ({held} \cap S)
        <5> HIDE DEF S
        <5> QED BY ZenonT(60), <4>1, <4>2, AppendRising
      <4> QED BY <3>2, <4>3
    <3> QED BY <2>1, <3>1, <3>2
  <2> QED BY <1>1, <2>1, <2>2, <2>3
<1>5. CASE Greet
  <2>1. UNCHANGED <<written, loopMsg, uiOut, held, asked>> /\ connOut' \in {connOut, <<>>}
    BY <1>5 DEF Greet, Connected, Refused, chan, ui
  <2>2. Rising(connOut, S)' /\ B' \subseteq B
    BY <1>d, <2>1, EmptyRising
  <2>3. Rising(uiOut, S)' /\ A' = A /\ C' = C /\ D' = D /\ E' = E
    BY <1>d, <2>1
  <2> QED BY <1>1, <2>1, <2>2, <2>3
<1>6. CASE WriteOut
  <2>1. /\ connOut # <<>> /\ written' = Head(connOut) /\ connOut' = Tail(connOut)
        /\ UNCHANGED <<loopMsg, uiOut, held, asked>>
    BY <1>6 DEF WriteOut, ui
  <2>2. /\ B = ({Head(connOut)} \cap S) \cup In(Tail(connOut), S)
        /\ Rising(Tail(connOut), S) /\ Less({Head(connOut)} \cap S, In(Tail(connOut), S))
    BY <1>d, <1>n, <2>1, TakeHead
  <2>3. Rising(connOut, S)' /\ B = A' \cup B' /\ Less(A', B')
    BY <2>1, <2>2
  <2>4. Rising(uiOut, S)' /\ C' = C /\ D' = D /\ E' = E
    BY <1>d, <2>1
  <2> QED BY <1>1, <2>1, <2>3, <2>4
<1>7. CASE LoopOut
  <2>1. /\ uiOut # <<>> /\ loopMsg' = Head(uiOut) /\ uiOut' = Tail(uiOut)
        /\ UNCHANGED <<written, connOut, held, asked>>
    BY <1>7 DEF LoopOut, chan
  <2>2. /\ D = ({Head(uiOut)} \cap S) \cup In(Tail(uiOut), S)
        /\ Rising(Tail(uiOut), S) /\ Less({Head(uiOut)} \cap S, In(Tail(uiOut), S))
    BY <1>d, <1>n, <2>1, TakeHead
  <2>3. Rising(uiOut, S)' /\ D = C' \cup D' /\ Less(C', D')
    BY <2>1, <2>2
  <2>4. Rising(connOut, S)' /\ A' = A /\ B' = B /\ E' = E
    BY <1>d, <2>1
  <2> QED BY <1>1, <2>1, <2>3, <2>4
<1>8. CASE SendOut
  <2>1. /\ loopMsg' = 0 /\ UNCHANGED <<written, uiOut, held, asked>>
        /\ connOut' = connOut \/ connOut' = Append(connOut, loopMsg)
    BY <1>8 DEF SendOut, Hand, Enqueue, ui
  <2>2. A' = A /\ C' = {} /\ D' = D /\ E' = E /\ Rising(uiOut, S)'
    BY <1>d, <2>1
  <2>3. Rising(connOut, S)' /\ B' \subseteq B \cup C
    <3>1. CASE connOut' = connOut
      BY <1>d, <3>1
    <3>2. CASE connOut' = Append(connOut, loopMsg)
      <4>1. connOut \in Seq(Int) /\ Rising(connOut, S) /\ loopMsg \in Int
        BY <1>d, <1>n
      <4>2. Less(In(connOut, S), {loopMsg} \cap S)
        BY <1>d DEF Less
      <4>3. /\ Rising(Append(connOut, loopMsg), S)
            /\ In(Append(connOut, loopMsg), S) = In(connOut, S) \cup ({loopMsg} \cap S)
        <5> HIDE DEF S
        <5> QED BY <4>1, <4>2, AppendRising
      <4> QED BY <3>2, <4>3
    <3> QED BY <2>1, <3>1, <3>2
  <2> QED BY <1>1, <2>1, <2>2, <2>3
<1> QED
  BY <1>2, <1>3, <1>4, <1>5, <1>6, <1>7, <1>8
  DEF Next, ServerSend, NetworkFails, Upgrade, ConnectFails, GreetCut, ReadFrame, PushIn, ReadEnd,
      OutClosed, Tick, LoopClose, LoopIn, LoopInEnd, Quit, Retry, vars, net, sock, chan, ui

\* Nothing is under way at the start.
LEMMA OrderInit == Init => FramesInOrder /\ MessagesInOrder
<1> SUFFICES ASSUME Init PROVE FramesInOrder /\ MessagesInOrder
  OBVIOUS
<1>1. /\ wire = <<>> /\ connIn = <<>> /\ connOut = <<>> /\ uiOut = <<>>
      /\ shown = 0 /\ taskMsg = 0 /\ written = 0 /\ loopMsg = 0 /\ held = 0
  BY DEF Init
<1>2. 0 \notin Frame /\ 0 \notin 1..MaxOut
  BY DEF Frame
<1>3. FramesInOrder
  BY <1>1, <1>2, EmptyRising DEF FramesInOrder, Less
<1>4. MessagesInOrder
  BY <1>1, <1>2, EmptyRising DEF MessagesInOrder, Less
<1> QED BY <1>3, <1>4

\* Frames reach the UI and messages the sockets in the order in which they were sent,
\* none of them twice, and what is under way comes after what has arrived: across
\* reconnects and whichever branches the two selects take (client.rs, reconnect.rs).
THEOREM NothingOvertakes == Spec => []InOrder
<1>1. Init => TaskInv /\ FramesInOrder /\ MessagesInOrder
  BY TaskInit, OrderInit
<1>2. TaskInv /\ FramesInOrder /\ MessagesInOrder /\ [Next]_vars
        => (TaskInv /\ FramesInOrder /\ MessagesInOrder)'
  BY TaskStep, FramesStep, MessagesStep
<1>3. TaskInv /\ FramesInOrder /\ MessagesInOrder => InOrder
  BY RoadsInOrder DEF TaskInv
<1> QED BY <1>1, <1>2, <1>3, PTL DEF Spec

-----------------------------------------------------------------------------
(* What is dropped                                                            *)

\* What was accepted before a step and is neither waiting nor just written after it.
Dropped == Accepted \ (Accepted \cup {written})'

\* The messages in a channel from which one is taken, or to which one is added.
LEMMA TakenOrAdded ==
  ASSUME NEW q \in Seq(Int)
  PROVE  /\ q # <<>> => ToSet(q) = {Head(q)} \cup ToSet(Tail(q))
         /\ \A m \in Int : ToSet(Append(q, m)) = ToSet(q) \cup {m}
<1>1. ASSUME q # <<>> PROVE ToSet(q) = {Head(q)} \cup ToSet(Tail(q))
  <2> DEFINE t == Tail(q)
  <2>1. /\ DOMAIN q = 1..Len(q) /\ Len(q) \in Nat /\ 1 \in DOMAIN q /\ Head(q) = q[1]
        /\ DOMAIN t = 1..(Len(q) - 1) /\ \A i \in DOMAIN t : t[i] = q[i + 1] /\ i + 1 \in DOMAIN q
    BY <1>1
  <2> HIDE DEF t
  <2>2. ASSUME NEW i \in DOMAIN q, i # 1 PROVE q[i] \in ToSet(t)
    <3>1. i - 1 \in DOMAIN t /\ t[i - 1] = q[i]
      BY <2>1, <2>2
    <3> QED BY <3>1 DEF ToSet
  <2>3. ToSet(t) \subseteq ToSet(q) /\ Head(q) \in ToSet(q)
    BY <2>1 DEF ToSet
  <2>4. ToSet(q) \subseteq {Head(q)} \cup ToSet(t)
    BY <2>1, <2>2 DEF ToSet
  <2> QED BY <2>3, <2>4 DEF t
<1>2. ASSUME NEW m \in Int PROVE ToSet(Append(q, m)) = ToSet(q) \cup {m}
  <2> DEFINE t == Append(q, m)
  <2>1. /\ DOMAIN q = 1..Len(q) /\ Len(q) \in Nat /\ DOMAIN t = 1..(Len(q) + 1)
        /\ t[Len(q) + 1] = m /\ \A i \in DOMAIN q : t[i] = q[i]
    OBVIOUS
  <2> HIDE DEF t
  <2>2. ToSet(q) \cup {m} \subseteq ToSet(t)
    BY <2>1 DEF ToSet
  <2>3. ToSet(t) \subseteq ToSet(q) \cup {m}
    BY <2>1 DEF ToSet
  <2> QED BY <2>2, <2>3 DEF t
<1> QED BY <1>1, <1>2

\* A message that is being passed on, if there is one.
LEMMA OneOrNone == \A m : ToSet(If(m)) = IF m = 0 THEN {} ELSE {m}
<1> SUFFICES ASSUME NEW m PROVE ToSet(If(m)) = IF m = 0 THEN {} ELSE {m}
  OBVIOUS
<1>1. /\ DOMAIN <<>> = {} /\ DOMAIN <<m>> = {1} /\ <<m>>[1] = m
  OBVIOUS
<1> QED BY <1>1 DEF If, ToSet

\* What a step may drop.
LEMMA KeptStep ==
  TaskInv /\ [Next]_vars
    => (Dropped # {} => ~Alive /\ (Dropped \subseteq Handed \/ loop = "failed"))
<1> SUFFICES ASSUME TaskInv, [Next]_vars
             PROVE  Dropped = {} \/ (~Alive /\ (Dropped \subseteq Handed \/ loop = "failed"))
  OBVIOUS
<1> DEFINE O == ToSet(connOut)   L == IF loopMsg = 0 THEN {} ELSE {loopMsg}
           U == ToSet(uiOut)     H == IF held = 0 THEN {} ELSE {held}
<1>0. TypeOK /\ Passing /\ NoTaskOutside
  BY DEF TaskInv
<1>n. /\ connOut \in Seq(Int) /\ uiOut \in Seq(Int) /\ asked \in 0..MaxOut
      /\ loopMsg \in Int /\ held \in Int /\ MaxOut \in Nat
  BY <1>0, Numbers, ClientNetAssumption
<1>a. Accepted = O \cup L \cup U \cup H /\ Handed = O \cup L
  BY OneOrNone DEF Accepted, Handed
<1>b. Accepted' = O' \cup L' \cup U' \cup H'
  <2>1. ToSet(If(loopMsg')) = L' /\ ToSet(If(held')) = H'
    BY OneOrNone
  <2> QED BY <2>1 DEF Accepted, Handed
<1>c. Dropped = (O \cup L \cup U \cup H) \ (O' \cup L' \cup U' \cup H' \cup {written'})
  BY <1>a, <1>b DEF Dropped
<1>1. CASE UNCHANGED <<connOut, loopMsg, uiOut, held>>
  BY <1>1, <1>c
<1>2. CASE UiSend
  <2>1. held = 0 /\ asked' \in Int /\ UNCHANGED <<connOut, loopMsg>>
    BY <1>2, <1>n DEF UiSend, chan
  <2>2. U \subseteq U'
    <3>1. uiOut' = uiOut \/ uiOut' = Append(uiOut, asked')
      BY <1>2 DEF UiSend, Pass
    <3>2. ToSet(Append(uiOut, asked')) = ToSet(uiOut) \cup {asked'}
      BY <1>n, <2>1, TakenOrAdded
    <3> QED BY <3>1, <3>2
  <2> QED BY <1>c, <2>1, <2>2
<1>3. CASE UiResumes
  <2>1. UNCHANGED <<connOut, loopMsg>>
    BY <1>3 DEF UiResumes, chan
  <2>2. CASE Gone
    BY <1>0, <2>2 DEF Gone, NoTaskOutside, Outside
  <2>3. CASE ~Gone
    <3>1. uiOut' = Append(uiOut, held)
      BY <1>3, <2>3 DEF UiResumes, Pass
    <3>2. U' = U \cup {held}
      BY <1>n, <3>1, TakenOrAdded
    <3>3. L' = L /\ O' = O
      BY <2>1
    <3> HIDE DEF O, L, U
    <3> QED BY <1>c, <3>2, <3>3
  <2> QED BY <2>2, <2>3
<1>4. CASE Greet
  <2>1. ~Alive
    BY <1>0, <1>4 DEF Greet, NoTaskOutside, Outside
  <2>2. UNCHANGED <<loopMsg, uiOut, held>>
    BY <1>4 DEF Greet, ui
  <2>3. Dropped \subseteq O
    BY <1>c, <2>2
  <2> QED BY <1>a, <2>1, <2>3
<1>5. CASE WriteOut
  <2>1. /\ connOut # <<>> /\ written' = Head(connOut) /\ connOut' = Tail(connOut)
        /\ UNCHANGED <<loopMsg, uiOut, held>>
    BY <1>5 DEF WriteOut, ui
  <2>2. O = {written'} \cup O'
    BY <1>n, <2>1, TakenOrAdded
  <2>3. L' = L /\ U' = U /\ H' = H
    BY <2>1
  <2> HIDE DEF O, L, U, H
  <2> QED BY <1>c, <2>2, <2>3
<1>6. CASE LoopOut
  <2>1. /\ uiOut # <<>> /\ loopMsg' = Head(uiOut) /\ uiOut' = Tail(uiOut)
        /\ UNCHANGED <<connOut, held>> /\ loop = "serving"
    BY <1>6 DEF LoopOut, chan
  <2>2. U = {loopMsg'} \cup U'
    BY <1>n, <2>1, TakenOrAdded
  <2>3. L = {} /\ O' = O /\ H' = H
    BY <1>0, <2>1 DEF Passing
  <2>4. L' = {loopMsg'}
    <3>1. uiOut \in Seq(1..MaxOut)
      BY <1>0 DEF TypeOK
    <3>2. Head(uiOut) \in 1..MaxOut
      <4>1. uiOut # <<>>
        BY <2>1
      <4> DEFINE S == 1..MaxOut
      <4>2. uiOut \in Seq(S)
        BY <3>1
      <4> HIDE DEF S
      <4>3. Head(uiOut) \in S
        BY <4>1, <4>2
      <4> QED BY <4>3 DEF S
    <3> QED BY <1>n, <2>1, <3>2
  <2> HIDE DEF O, L, U, H
  <2> QED BY <1>c, <2>2, <2>3, <2>4
<1>7. CASE SendOut
  <2>1. UNCHANGED <<uiOut, held>>
    BY <1>7 DEF SendOut, ui
  <2>2. U' = U /\ H' = H
    BY <2>1
  <2>3. CASE task = "over"
    <3>1. ~Alive /\ connOut' = connOut
      BY <1>7, <2>3 DEF SendOut, Hand, Alive
    <3>2. O' = O
      BY <3>1
    <3>3. Dropped \subseteq L
      <4> HIDE DEF O, L, U, H
      <4> QED BY <1>c, <2>2, <3>2
    <3> QED BY <1>a, <3>1, <3>3
  <2>4. CASE task # "over"
    <3>1. connOut' = Append(connOut, loopMsg)
      BY <1>7, <2>4 DEF SendOut, Hand, Enqueue
    <3>2. O' = O \cup {loopMsg}
      BY <1>n, <3>1, TakenOrAdded
    <3>3. L \subseteq {loopMsg}
      OBVIOUS
    <3> HIDE DEF O, L, U, H
    <3> QED BY <1>c, <2>2, <3>2, <3>3
  <2> QED BY <2>3, <2>4
<1> QED
  BY <1>1, <1>2, <1>3, <1>4, <1>5, <1>6, <1>7
  DEF Next, ServerSend, NetworkFails, Upgrade, ConnectFails, GreetCut, ReadFrame, PushIn, ReadEnd,
      OutClosed, Tick, LoopClose, LoopIn, LoopInEnd, Quit, Retry, vars, net, sock, chan, ui

\* A message of the UI that waits for a connection survives every reconnect; only what
\* was handed to a connection that has ended is dropped, or anything after the end of
\* the loop (out_rx and conn_tx of reconnect.rs).
THEOREM WaitingIsKept == Spec => KeptWhileConnected
<1>1. TaskInv /\ [Next]_vars
        => [LET dropped == Accepted \ (Accepted \cup {written})'
            IN  dropped # {} => ~Alive /\ (dropped \subseteq Handed \/ loop = "failed")]_vars
  BY KeptStep DEF Dropped
<1>2. Spec => [][LET dropped == Accepted \ (Accepted \cup {written})'
                 IN  dropped # {} => ~Alive /\ (dropped \subseteq Handed \/ loop = "failed")]_vars
  BY <1>1, TaskInit, TaskStep, PTL DEF Spec
<1> QED BY <1>2 DEF KeptWhileConnected
-----------------------------------------------------------------------------
(* Who waits for whom                                                         *)

\* The loop stops when the UI has gone, and nothing else leaves a connection without a task.
StoppedIsDone == loop = "stopped" => held = 0 /\ asked = MaxOut
HasTask == task = "off" => loop \in Outside
GoInv == StoppedIsDone /\ HasTask

\* A branch of the task's select! can be taken (the heartbeat's always), or its send has
\* room; a branch of the loop's is ready, or its send has room or fails.
TaskGoesOn == task = "select" \/ (task = "pushing" /\ (Room(connIn) \/ loop = "stopped"))
LoopGoesOn == \/ loop = "serving" /\ (connIn # <<>> \/ uiOut # <<>>)
              \/ loop = "sending" /\ (Room(connOut) \/ task = "over")

\* Of task, loop and window none waits for another that waits for it, but for the wedge.
WaitOnlyWedged ==
  /\ Alive => TaskGoesOn \/ LoopGoesOn \/ Wedged
  /\ held # 0 /\ ~Through => \/ loop \in {"connecting", "greeting", "backoff"}
                             \/ TaskGoesOn \/ LoopGoesOn \/ Wedged

\* The loop stops with nothing held, and then nothing is sent any more.
LEMMA GoStep == TaskInv /\ GoInv /\ [Next]_vars => GoInv'
<1> SUFFICES ASSUME TaskInv, GoInv, [Next]_vars PROVE GoInv'
  OBVIOUS
<1>0. TypeOK /\ StoppedIsDone /\ HasTask
  BY DEF TaskInv, GoInv
<1> USE DEF GoInv, StoppedIsDone, HasTask, Outside
<1>1. CASE UNCHANGED <<task, loop, held, asked>>
  BY <1>0, <1>1
<1>2. CASE UiSend
  <2>1. UNCHANGED <<task, loop>> /\ asked < MaxOut
    BY <1>2 DEF UiSend, sock
  <2>2. loop # "stopped"
    BY <1>0, <2>1, ClientNetAssumption
  <2> QED BY <1>0, <2>1, <2>2
<1>3. CASE UiResumes
  BY <1>0, <1>3 DEF UiResumes, sock
<1>4. CASE Greet
  <2>1. UNCHANGED <<held, asked>>
    BY <1>4 DEF Greet, ui
  <2>2. CASE UNCHANGED <<sock, chan, loop, verdict>>
    BY <1>0, <2>1, <2>2 DEF sock
  <2>3. CASE \E m \in Frame : Connected(m)
    BY <2>3 DEF Connected
  <2>4. CASE \E m \in Refusal : Refused(m)
    BY <2>4 DEF Refused
  <2> QED BY <1>4, <2>2, <2>3, <2>4 DEF Greet
<1>5. CASE ReadFrame
  <2>1. task' \in {task, "pushing", "over"} /\ task = "select" /\ UNCHANGED <<loop, held, asked>>
    BY <1>5 DEF ReadFrame, EndTask, ui
  <2> QED BY <1>0, <2>1
<1>6. CASE PushIn \/ ReadEnd \/ OutClosed \/ Tick
  <2>1. task' \in {task, "select", "over"} /\ UNCHANGED <<loop, held, asked>>
    BY <1>6 DEF PushIn, ReadEnd, OutClosed, Tick, EndTask, ui
  <2> QED BY <1>0, <2>1
<1>7. CASE LoopClose \/ LoopInEnd
  BY <1>7 DEF LoopClose, LoopInEnd, Leave
<1>8. CASE LoopOut \/ SendOut
  <2>1. /\ loop \in {"serving", "sending"} /\ loop' \in {"serving", "sending"} /\ UNCHANGED task
    BY <1>8 DEF LoopOut, SendOut, sock
  <2> QED BY <1>0, <2>1
<1>9. CASE Quit
  BY <1>0, <1>9 DEF Quit, sock, ui
<1>10. CASE Upgrade \/ ConnectFails \/ GreetCut \/ Retry
  BY <1>10 DEF Upgrade, ConnectFails, GreetCut, Retry
<1> QED
  BY <1>1, <1>2, <1>3, <1>4, <1>5, <1>6, <1>7, <1>8, <1>9, <1>10
  DEF Next, ServerSend, NetworkFails, WriteOut, LoopIn, vars, sock, ui

\* A full channel has something in it, so that its reader has a branch that is ready.
LEMMA SomeoneGoesOn == TaskInv /\ GoInv => WaitOnlyWedged
<1> SUFFICES ASSUME TaskInv, GoInv PROVE WaitOnlyWedged
  OBVIOUS
<1>1. /\ NoTaskOutside /\ StoppedIsDone /\ HasTask
      /\ task \in {"off", "select", "pushing", "over"}
      /\ loop \in Outside \cup {"serving", "sending", "stopped"}
  BY DEF TaskInv, GoInv, TypeOK, Outside
<1>2. /\ ~Room(connIn) => Len(connIn) = Cap /\ connIn # <<>>
      /\ ~Room(connOut) => Len(connOut) = Cap
      /\ ~Through => uiOut # <<>> /\ loop # "failed"
  BY ClientNetAssumption DEF TaskInv, TypeOK, Room, Through, Gone
<1>3. ASSUME Alive PROVE TaskGoesOn \/ LoopGoesOn \/ Wedged
  <2>1. task \in {"select", "pushing"} /\ loop \in {"serving", "sending", "stopped"}
    BY <1>1, <1>3 DEF Alive, NoTaskOutside
  <2> QED BY <1>2, <2>1 DEF TaskGoesOn, LoopGoesOn, Wedged
<1>4. ASSUME held # 0, ~Through
      PROVE  \/ loop \in {"connecting", "greeting", "backoff"}
             \/ TaskGoesOn \/ LoopGoesOn \/ Wedged
  <2>1. loop \in {"connecting", "greeting", "backoff", "serving", "sending"}
    BY <1>1, <1>2, <1>4 DEF StoppedIsDone, Outside
  <2>2. CASE loop = "serving"
    BY <1>2, <1>4, <2>2 DEF LoopGoesOn
  <2>3. CASE loop = "sending"
    <3>1. task # "off"
      BY <1>1, <2>3 DEF HasTask, Outside
    <3> QED BY <1>1, <1>3, <2>3, <3>1 DEF Alive, LoopGoesOn
  <2> QED BY <2>1, <2>2, <2>3
<1> QED BY <1>3, <1>4 DEF WaitOnlyWedged

\* Of the socket's task, the reconnect loop and the window's thread none waits for ever on
\* the others but in the wedge: as long as a task lives one of the two goes on, and what
\* the window is blocked by is taken, or a connection is being made. It is what
\* SilenceNoticedUnlessWedged and WindowGoesOn ask of the states.
THEOREM OnlyTheWedgeStalls == Spec => []WaitOnlyWedged
<1>1. Init => GoInv
  BY DEF Init, GoInv, StoppedIsDone, HasTask, Outside
<1> QED BY <1>1, TaskInit, TaskStep, GoStep, SomeoneGoesOn, PTL DEF Spec
=============================================================================
