------------------------------ MODULE ClientNet ------------------------------
(* The client's side of a connection (crates/pi-oven-net): the task that reads *)
(* and writes the socket (client.rs), the loop that reconnects (reconnect.rs), *)
(* and the bounded channels between them and the UI's thread (main.rs).        *)
(*                                                                             *)
(* Both are tokio tasks whose select! takes any branch that is ready; a branch *)
(* that awaits a full channel serves nothing else until there is room.         *)
EXTENDS Integers, Sequences, SequencesExt

CONSTANTS Cap,         \* capacity of the channels between task and loop (64)
          UiCap,       \* messages the two channels from the UI and the task between
                       \* them hold together (64 + 1 + 64)
          MaxOut,      \* bound: messages the UI sends
          MaxIn,       \* bound: frames the server sends, pongs apart
          MaxConns     \* bound: sockets that are opened

ASSUME ClientNetAssumption ==
  /\ Cap \in Nat \ {0} /\ UiCap \in Nat \ {0}
  /\ MaxOut \in Nat /\ MaxIn \in Nat /\ MaxConns \in Nat

Pong == 0                                 \* also any frame a handshake ignores
Frame == 1..MaxIn                         \* numbered; codes are negative to differ from them
AuthFailed == -4401                       \* the message, in a handshake
Refusal == {AuthFailed, -4408, -1001}     \* the rest are close codes
CloseCode == {-1001, -4001, -4002}        \* what the server closes a Welcomed socket with
Terminal == {-4401, -4002, -1000}         \* TERMINAL_CODES
MaxMissed == 2                            \* MAX_MISSED_PONGS

VARIABLES
  link,       \* the network: up, cut (reads end) or hole (nothing arrives)
  wire,       \* frames on their way to the client; a close frame is its code
  task,       \* the socket task: off, select, pushing (awaits in_tx.send), over
  taskMsg,    \* the frame it is pushing
  missed, pending,   \* missed_pongs, pending_ping
  close,      \* what close_tx carries, -1 when nothing
  loop,       \* reconnect_loop: connecting, greeting (Hello is sent), serving, sending,
              \* backoff, failed, stopped
  loopMsg,    \* the message it is sending
  connIn, connOut,   \* the connection's channels
  uiOut,      \* messages the UI has sent and the loop has not taken
  held,       \* the message the UI's thread is blocked with, 0 when it is free
  asked,      \* messages the UI has sent so far, numbered
  served,     \* frames the server has sent so far, numbered
  conns,      \* sockets opened so far
  written,    \* the last message written to a socket
  shown,      \* the last frame handed to the UI
  verdict     \* history: the close code or AuthFailed read from this socket

net == <<link, wire, served>>
sock == <<task, taskMsg, missed, pending, close>>
chan == <<connIn, connOut>>
ui == <<uiOut, held, asked>>
vars == <<net, sock, loop, loopMsg, chan, ui, conns, written, shown, verdict>>

TypeOK ==
  /\ link \in {"up", "cut", "hole"} /\ wire \in Seq({Pong} \cup Frame \cup CloseCode \cup Refusal)
  /\ task \in {"off", "select", "pushing", "over"} /\ taskMsg \in 0..MaxIn
  /\ missed \in 0..MaxMissed /\ pending \in BOOLEAN
  /\ close \in {-1, 0, -1000} \cup CloseCode
  /\ loop \in {"connecting", "greeting", "serving", "sending", "backoff", "failed", "stopped"}
  /\ loopMsg \in 0..MaxOut
  /\ connIn \in Seq(Frame) /\ Len(connIn) <= Cap
  /\ connOut \in Seq(1..MaxOut) /\ Len(connOut) <= Cap
  /\ uiOut \in Seq(1..MaxOut) /\ Len(uiOut) <= UiCap
  /\ held \in 0..MaxOut /\ asked \in 0..MaxOut /\ served \in 0..MaxIn /\ conns \in 0..MaxConns
  /\ written \in 0..MaxOut /\ shown \in 0..MaxIn
  /\ verdict \in {0} \cup CloseCode \cup Refusal

Init ==
  /\ link = "cut" /\ wire = <<>> /\ served = 0
  /\ task = "off" /\ taskMsg = 0 /\ missed = 0 /\ pending = FALSE /\ close = -1
  /\ loop = "connecting" /\ loopMsg = 0
  /\ connIn = <<>> /\ connOut = <<>> /\ uiOut = <<>> /\ held = 0 /\ asked = 0
  /\ conns = 0 /\ written = 0 /\ shown = 0 /\ verdict = 0

-----------------------------------------------------------------------------
(* The UI and the network                                                     *)

\* After Failed the loop's task has ended, so has the one that watches its state, and
\* the runtime with the channels is dropped.
Gone_Never == FALSE
Gone == loop = "failed"

\* A task moves messages on from the UI's channel to the loop's.
Through == Len(uiOut) < UiCap \/ Gone
Pass(m) == uiOut' = IF Gone THEN uiOut ELSE Append(uiOut, m)

\* blocking_send: the thread of the window waits while the channels are full. Its
\* error, when they are gone, is not looked at.
UiSend ==
  /\ held = 0 /\ asked < MaxOut
  /\ asked' = asked + 1
  /\ IF Through THEN Pass(asked') /\ UNCHANGED held
                ELSE held' = asked' /\ UNCHANGED uiOut
  /\ UNCHANGED <<net, sock, loop, loopMsg, chan, conns, written, shown, verdict>>

UiResumes ==
  /\ held # 0 /\ Through
  /\ Pass(held) /\ held' = 0
  /\ UNCHANGED <<net, sock, loop, loopMsg, chan, asked, conns, written, shown, verdict>>

\* The first frame is the Welcome.
Alive == task \in {"select", "pushing"}
Welcomed == Alive \/ \E i \in DOMAIN wire : wire[i] \in Frame
Closing == \E i \in DOMAIN wire : wire[i] \in CloseCode \cup Refusal

ServerSend(m) ==
  /\ link = "up" /\ (loop = "greeting" \/ Alive) /\ ~Closing
  /\ \/ m = Pong /\ wire = <<>> /\ UNCHANGED served
     \/ m = served + 1 /\ m \in Frame /\ served' = m
     \/ m \in (IF Welcomed THEN CloseCode ELSE Refusal) /\ UNCHANGED served
  /\ wire' = Append(wire, m)
  /\ UNCHANGED <<link, sock, loop, loopMsg, chan, ui, conns, written, shown, verdict>>

NetworkFails(how) ==
  /\ link = "up" /\ how \in {"cut", "hole"}
  /\ link' = how
  /\ \E k \in 0..Len(wire) : wire' = SubSeq(wire, 1, k)
  /\ UNCHANGED <<served, sock, loop, loopMsg, chan, ui, conns, written, shown, verdict>>

-----------------------------------------------------------------------------
(* Client::connect and the socket task                                        *)

\* connect_async and the Hello succeed.
Upgrade ==
  /\ loop = "connecting" /\ conns < MaxConns
  /\ conns' = conns + 1
  /\ link' = "up" /\ wire' = <<>> /\ verdict' = 0
  /\ loop' = "greeting"
  /\ UNCHANGED <<served, sock, loopMsg, chan, ui, written, shown>>

\* They fail.
ConnectFails ==
  /\ loop = "connecting" /\ conns < MaxConns
  /\ loop' = "backoff"
  /\ UNCHANGED <<net, sock, loopMsg, chan, ui, conns, written, shown, verdict>>

\* A connection has fresh channels; the Welcome goes to the UI as the first frame.
Connected(m) ==
  /\ task' = "select" /\ missed' = 0 /\ pending' = FALSE /\ close' = -1
  /\ connIn' = <<m>> /\ connOut' = <<>>
  /\ loop' = "serving"
  /\ UNCHANGED <<taskMsg, verdict>>

\* AuthFailed ends the loop; a close is tried again, whatever its code.
Refused(m) ==
  /\ loop' = IF m = AuthFailed THEN "failed" ELSE "backoff"
  /\ verdict' = m
  /\ UNCHANGED <<sock, chan>>

\* The wait for Welcome has no end of its own.
Greet ==
  /\ loop = "greeting" /\ wire # <<>>
  /\ LET m == Head(wire)
     IN  \/ m = Pong /\ UNCHANGED <<sock, chan, loop, verdict>>
         \/ m \in Frame /\ Connected(m)
         \/ m \in Refusal /\ Refused(m)
  /\ wire' = Tail(wire)
  /\ UNCHANGED <<link, served, loopMsg, ui, conns, written, shown>>

GreetCut_Waits == loop = "greeting" /\ link = "cut" /\ wire = <<>> /\ UNCHANGED vars
GreetCut ==
  /\ loop = "greeting" /\ link = "cut" /\ wire = <<>>
  /\ loop' = "backoff"
  /\ UNCHANGED <<net, sock, loopMsg, chan, ui, conns, written, shown, verdict>>

EndTask(code) == task' = "over" /\ close' = code

ReadFrame ==
  /\ task = "select" /\ wire # <<>>
  /\ LET m == Head(wire)
     IN  \/ /\ m = Pong
            /\ missed' = 0 /\ pending' = FALSE
            /\ UNCHANGED <<task, taskMsg, close, verdict>>
         \/ /\ m \in Frame
            /\ task' = "pushing" /\ taskMsg' = m
            /\ UNCHANGED <<missed, pending, close, verdict>>
         \/ /\ m \in CloseCode
            /\ EndTask(m) /\ verdict' = m
            /\ UNCHANGED <<taskMsg, missed, pending>>
  /\ wire' = Tail(wire)
  /\ UNCHANGED <<link, served, loop, loopMsg, chan, ui, conns, written, shown>>

\* in_tx.send(m).await completes when there is room.
Room(q) == Len(q) < Cap

Enqueue(q, m) == Append(q, m)

PushIn ==
  /\ task = "pushing" /\ (Room(connIn) \/ loop = "stopped")
  /\ connIn' = IF loop = "stopped" THEN connIn ELSE Enqueue(connIn, taskMsg)
  /\ task' = "select" /\ taskMsg' = 0
  /\ UNCHANGED <<net, missed, pending, close, loop, loopMsg, connOut,
                 ui, conns, written, shown, verdict>>

ReadEnd ==
  /\ task = "select" /\ link = "cut" /\ wire = <<>>
  /\ EndTask(0)
  /\ UNCHANGED <<net, taskMsg, missed, pending, loop, loopMsg, chan, ui,
                 conns, written, shown, verdict>>

WriteOut ==
  /\ task = "select" /\ connOut # <<>>
  /\ written' = Head(connOut)
  /\ connOut' = Tail(connOut)
  /\ UNCHANGED <<net, sock, loop, loopMsg, connIn, ui, conns, shown, verdict>>

\* conn_tx is gone with a loop that stopped.
OutClosed ==
  /\ task = "select" /\ loop = "stopped" /\ connOut = <<>>
  /\ EndTask(-1000)
  /\ UNCHANGED <<net, taskMsg, missed, pending, loop, loopMsg, chan, ui,
                 conns, written, shown, verdict>>

Misses_Never(p) == 0
Misses(p) == IF p THEN 1 ELSE 0

\* PING_INTERVAL passes: count the ping still unanswered, give up or ping again.
Tick ==
  /\ task = "select"
  /\ missed' = missed + Misses(pending)
  /\ IF missed' >= MaxMissed
       THEN EndTask(0) /\ UNCHANGED pending
       ELSE pending' = TRUE /\ UNCHANGED <<task, close>>
  /\ UNCHANGED <<net, taskMsg, loop, loopMsg, chan, ui, conns, written,
                 shown, verdict>>

-----------------------------------------------------------------------------
(* reconnect_loop                                                             *)

\* The connection is left with this close code.
IsTerminal_Idle(code) == code \in Terminal \cup {-4001}
IsTerminal(code) == code \in Terminal
Leave(code) == loop' = IF IsTerminal(code) THEN "failed" ELSE "backoff"

\* The branch on close_fut.
LoopClose ==
  /\ loop = "serving" /\ close # -1
  /\ Leave(close)
  /\ UNCHANGED <<net, sock, loopMsg, chan, ui, conns, written, shown, verdict>>

\* To the UI's channel, which has no limit.
ToUi(m) == shown' = m

\* The branch on conn_rx: a frame, or the end of a drained channel.
LoopIn ==
  /\ loop = "serving" /\ connIn # <<>>
  /\ ToUi(Head(connIn)) /\ connIn' = Tail(connIn)
  /\ UNCHANGED <<net, sock, loop, loopMsg, connOut, ui, conns, written, verdict>>

LoopInEnd ==
  /\ loop = "serving" /\ connIn = <<>> /\ task = "over"
  /\ Leave(0)
  /\ UNCHANGED <<net, sock, loopMsg, chan, ui, conns, written, shown, verdict>>

\* The branch on out_rx, up to its conn_tx.send(m).await.
LoopOut_Keeps ==
  /\ loop = "serving" /\ uiOut # <<>>
  /\ loop' = "sending" /\ loopMsg' = Head(uiOut) /\ UNCHANGED uiOut
  /\ UNCHANGED <<net, sock, chan, held, asked, conns, written, shown, verdict>>
LoopOut ==
  /\ loop = "serving" /\ uiOut # <<>>
  /\ loop' = "sending" /\ loopMsg' = Head(uiOut) /\ uiOut' = Tail(uiOut)
  /\ UNCHANGED <<net, sock, chan, held, asked, conns, written, shown, verdict>>

Hand_IfIdle(m) == connOut' = IF task = "select" THEN Enqueue(connOut, m) ELSE connOut
Hand(m) == connOut' = IF task = "over" THEN connOut ELSE Enqueue(connOut, m)

\* The send completes with room, or fails because the task is over.
SendOut ==
  /\ loop = "sending" /\ (task = "over" \/ Room(connOut))
  /\ Hand(loopMsg)
  /\ loop' = "serving" /\ loopMsg' = 0
  /\ UNCHANGED <<net, sock, connIn, ui, conns, written, shown, verdict>>

\* The UI has gone: its sender is dropped and what it sent has been taken.
Quit ==
  /\ loop = "serving" /\ uiOut = <<>> /\ held = 0 /\ asked = MaxOut
  /\ loop' = "stopped"
  /\ UNCHANGED <<net, sock, loopMsg, chan, ui, conns, written, shown, verdict>>

\* The wait is over; how long it was is left out.
Retry ==
  /\ loop = "backoff"
  /\ loop' = "connecting"
  /\ UNCHANGED <<net, sock, loopMsg, chan, ui, conns, written, shown, verdict>>

Next ==
  \/ UiSend \/ UiResumes
  \/ \E m \in {Pong} \cup Frame \cup CloseCode \cup Refusal : ServerSend(m)
  \/ \E how \in {"cut", "hole"} : NetworkFails(how)
  \/ Upgrade \/ ConnectFails \/ Greet \/ GreetCut
  \/ ReadFrame \/ PushIn \/ ReadEnd \/ WriteOut \/ OutClosed \/ Tick
  \/ LoopClose \/ LoopIn \/ LoopInEnd \/ LoopOut \/ SendOut \/ Quit \/ Retry

Spec == Init /\ [][Next]_vars

\* Both tasks are polled when a branch is ready, and the UI's thread when its send is
\* done. select! picks fairly among ready branches, so that none is passed over for ever.
Fairness ==
  /\ WF_vars(UiResumes) /\ WF_vars(Greet) /\ WF_vars(GreetCut)
  /\ WF_vars(ReadFrame) /\ WF_vars(PushIn) /\ WF_vars(ReadEnd) /\ SF_vars(WriteOut)
  /\ SF_vars(Tick)
  /\ SF_vars(LoopClose) /\ SF_vars(LoopIn) /\ SF_vars(LoopInEnd) /\ SF_vars(LoopOut)
  /\ WF_vars(SendOut) /\ WF_vars(Retry)

FairSpec == Spec /\ Fairness

-----------------------------------------------------------------------------
(* Properties                                                                 *)

\* What of S is in q comes in ascending order.
Rising(q, S) == \A i, j \in DOMAIN q : i < j /\ q[i] \in S /\ q[j] \in S => q[i] < q[j]
If(m) == IF m = 0 THEN <<>> ELSE <<m>>

\* Across reconnects, frames reach the UI in the order the server sent them and
\* messages reach the sockets in the order the UI sent them, none of them twice,
\* whichever branches the two selects take: so do those that are on their way.
InOrder ==
  /\ Rising(<<shown>> \o connIn \o <<taskMsg>> \o wire, Frame)
  /\ Rising(<<written>> \o connOut \o <<loopMsg>> \o uiOut \o <<held>>, 1..MaxOut)

\* The loop gives up only when the server has told it to, on this very socket.
FailedOnlyWhenTold == loop = "failed" => verdict \in Terminal

Handed == ToSet(connOut) \cup ToSet(If(loopMsg))
Accepted == Handed \cup ToSet(uiOut) \cup ToSet(If(held))

\* What waits for a connection survives every reconnect, up to the end of the loop, and
\* what was handed to a connection is dropped only when that has ended.
KeptWhileConnected ==
  [][LET dropped == Accepted \ (Accepted \cup {written})'
     IN  dropped # {} => ~Alive /\ (dropped \subseteq Handed \/ loop = "failed")]_vars

\* The task waits for room in the inbound channel while the loop, the only one to
\* make room, waits for room in the outbound channel, which the task empties.
Wedged == /\ task = "pushing" /\ loop = "sending"
          /\ Len(connIn) = Cap /\ Len(connOut) = Cap

\* A connection that falls silent is given up, unless task and loop wait for each
\* other: the heartbeat runs in the task that is waiting.
SilenceNoticedUnlessWedged == link = "hole" /\ Alive ~> task = "over" \/ Wedged

\* "the client closes its connection within 40 seconds of the first unanswered Ping".
SilenceNoticed == link = "hole" /\ Alive ~> task = "over"

\* Nothing but a server that does not answer keeps the client in a handshake for ever.
HandshakeWaitsOnlyForServer ==
  <>[](loop = "greeting") => <>[](link # "cut" /\ ToSet(wire) \subseteq {Pong})

\* The window that is blocked by a full channel goes on as soon as a connection serves it
\* or the client has given up: only the wait for a connection keeps it, or a wedge.
WindowGoesOn == held # 0 ~> held = 0 \/ loop \in {"connecting", "greeting", "backoff"} \/ Wedged
=============================================================================
