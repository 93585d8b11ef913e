-------------------------------- MODULE Turn --------------------------------
(* The status of an agent session and what the client shows of it: the pi     *)
(* SDK's runs, AgentSession.queue, abort, emitEvent and emitStatus            *)
(* (workspaces/session.ts), the manager's fan-out (workspaces/manager.ts) and *)
(* the client's process_msg and Escape (crates/pi-oven/src/main.rs).          *)
(*                                                                            *)
(* A status is sent in the step that changes it, an event only after its      *)
(* append returned. The SDK is external: it starts a run on a prompt when it  *)
(* has none, calls the subscriber as the run goes, and settles an abort once  *)
(* the run is over; it may then leave out agent_end, which is what abort's    *)
(* own emitStatus is for.                                                     *)
EXTENDS Naturals, Sequences, SequencesExt

CONSTANTS MaxRuns,     \* bound: runs the SDK starts
          MaxEvents,   \* bound: events a run emits
          MaxSends,    \* bound: messages the user sends
          MaxAborts,   \* bound: times the user presses Escape
          MaxConns     \* bound: connections ever made

ASSUME TurnAssumption ==
  /\ MaxRuns \in Nat /\ MaxEvents \in Nat /\ MaxSends \in Nat
  /\ MaxAborts \in Nat /\ MaxConns \in Nat

VARIABLES
  prompts,    \* prompts the SDK holds
  run,        \* the SDK's run, 0 when idle
  started,    \* runs started so far
  emitted,    \* events the run has emitted
  aborting,   \* calls of session.abort that await the SDK's
  status,     \* session.status, and the manager's statusMap
  logging,    \* events whose append has not returned
  link,       \* the client is connected, and is connectedWs
  conns,      \* connections made so far
  wire,       \* frames sent to the client and not processed
  outq,       \* what the user asked for and the server has not read
  shown,      \* app_state.workspace_status
  sends, escapes,  \* messages sent and Escapes pressed so far
  sent,       \* history: the frames sent on this connection, in order
  began,      \* history: the connection on which each run was announced, or 0
  missed,     \* history: the last change of status was sent to nobody
  overtaken   \* history: an abort settled while this run was on

sdk == <<prompts, run, started, emitted>>
user == <<outq, sends, escapes>>
vars == <<sdk, aborting, status, logging, link, conns, wire, user, shown,
          sent, began, missed, overtaken>>

Run == 1..MaxRuns
Status == {"running", "idle"}

\* The run of a status, and the number of an event, only tell frames apart.
AgentEvent(r, n) == [type |-> "AgentEvent", run |-> r, n |-> n]
AgentStatus(s, r) == [type |-> "AgentStatus", status |-> s, run |-> r]
Welcome(s) == [type |-> "Welcome", status |-> s]

Event == {AgentEvent(r, n) : r \in Run, n \in 1..MaxEvents}
Frame == Event \cup {AgentStatus(s, r) : s \in Status, r \in 0..MaxRuns}
               \cup {Welcome(s) : s \in Status}

TypeOK ==
  /\ prompts \in 0..MaxSends /\ run \in 0..started /\ started \in 0..MaxRuns
  /\ emitted \in 0..MaxEvents /\ aborting \in 0..MaxAborts
  /\ status \in Status /\ logging \subseteq Event
  /\ link \in BOOLEAN /\ conns \in 0..MaxConns
  /\ wire \in Seq(Frame) /\ outq \in Seq({"Send", "Abort"}) /\ shown \in Status
  /\ sends \in 0..MaxSends /\ escapes \in 0..MaxAborts
  /\ sent \in Seq(Frame) /\ began \in [Run -> 0..MaxConns]
  /\ missed \in BOOLEAN /\ overtaken \in BOOLEAN

Init ==
  /\ prompts = 0 /\ run = 0 /\ started = 0 /\ emitted = 0
  /\ aborting = 0 /\ status = "idle" /\ logging = {}
  /\ link = FALSE /\ conns = 0 /\ wire = <<>> /\ outq = <<>> /\ shown = "idle"
  /\ sends = 0 /\ escapes = 0
  /\ sent = <<>> /\ began = [r \in Run |-> 0] /\ missed = FALSE /\ overtaken = FALSE

-----------------------------------------------------------------------------
(* The session and the manager                                                *)

\* What connectedWs is sent; to nobody when there is none.
SendFrame(m) ==
  /\ wire' = IF link THEN Append(wire, m) ELSE wire
  /\ sent' = IF link THEN Append(sent, m) ELSE sent

\* emitStatus, onStatus.
EmitStatus_OnlyChanges(s, r) ==
  /\ status' = s
  /\ IF s = status THEN UNCHANGED <<wire, sent, missed>>
     ELSE SendFrame(AgentStatus(s, r)) /\ missed' = ~link
EmitStatus(s, r) ==
  /\ status' = s
  /\ SendFrame(AgentStatus(s, r))
  /\ missed' = ~link

\* agent_start, agent_end.
RunStarts ==
  /\ run = 0 /\ prompts > 0 /\ started < MaxRuns
  /\ prompts' = prompts - 1
  /\ started' = started + 1 /\ run' = started' /\ emitted' = 0
  /\ overtaken' = FALSE
  /\ EmitStatus("running", run')
  /\ began' = [began EXCEPT ![run'] = IF link THEN conns ELSE 0]
  /\ UNCHANGED <<aborting, logging, link, conns, user, shown>>

RunEnds ==
  /\ run # 0
  /\ run' = 0 /\ overtaken' = FALSE
  /\ EmitStatus("idle", run)
  /\ UNCHANGED <<prompts, started, emitted, aborting, logging, link, conns, user, shown, began>>

\* A run that is aborted may end without agent_end.
RunVanishes ==
  /\ run # 0 /\ aborting > 0
  /\ run' = 0 /\ overtaken' = FALSE
  /\ UNCHANGED <<prompts, started, emitted, aborting, status, logging, link, conns, wire, user,
                 shown, sent, began, missed>>

\* A prompt is steered into the run that is on.
Steered ==
  /\ run # 0 /\ prompts > 0
  /\ prompts' = prompts - 1
  /\ UNCHANGED <<run, started, emitted, aborting, status, logging, link, conns, wire, user,
                 shown, sent, began, missed, overtaken>>

\* A text delta, a tool call or a tool result: emitEvent, up to its await.
Emit == run # 0 /\ emitted < MaxEvents

RunEmits ==
  /\ Emit
  /\ emitted' = emitted + 1
  /\ logging' = logging \cup {AgentEvent(run, emitted')}
  /\ UNCHANGED <<prompts, run, started, aborting, status, link, conns, wire, user, shown,
                 sent, began, missed, overtaken>>

\* emitEvent after its await, and onEvent.
Appended(e) ==
  /\ e \in logging
  /\ logging' = logging \ {e}
  /\ SendFrame(e)
  /\ UNCHANGED <<sdk, aborting, status, link, conns, user, shown, began, missed, overtaken>>

-----------------------------------------------------------------------------
(* Send and Abort                                                             *)

Read(m) == link /\ outq # <<>> /\ Head(outq) = m /\ outq' = Tail(outq)

OnSend ==
  /\ Read("Send")
  /\ prompts' = prompts + 1
  /\ UNCHANGED <<run, started, emitted, aborting, status, logging, link, conns, wire, shown,
                 sends, escapes, sent, began, missed, overtaken>>

\* abort, up to its await.
OnAbort ==
  /\ Read("Abort")
  /\ aborting' = aborting + 1
  /\ UNCHANGED <<sdk, status, logging, link, conns, wire, shown, sends, escapes,
                 sent, began, missed, overtaken>>

\* abort, after its await.
IdleAfterAbort_LeftToSdk == UNCHANGED <<status, wire, sent, missed>>
IdleAfterAbort == EmitStatus("idle", started)

\* The aborted run is over, but another may have started since.
AbortSettles ==
  /\ aborting > 0
  /\ aborting' = aborting - 1
  /\ IdleAfterAbort
  /\ overtaken' = (run # 0)
  /\ UNCHANGED <<sdk, logging, link, conns, user, shown, began>>

-----------------------------------------------------------------------------
(* The connection, and the death of the server                                *)

Connect ==
  /\ ~link /\ conns < MaxConns
  /\ link' = TRUE /\ conns' = conns + 1
  /\ wire' = Append(wire, Welcome(status)) /\ sent' = <<Welcome(status)>>
  /\ UNCHANGED <<sdk, aborting, status, logging, user, shown, began, missed, overtaken>>

IsStatus(m) == m.type = "AgentStatus"

\* The client has read the first k frames under way; of what it sent, the first j
\* are lost with the connection.
Lose(k, j) ==
  /\ link' = FALSE
  /\ wire' = SubSeq(wire, 1, k)
  /\ outq' = SubSeq(outq, j + 1, Len(outq))

LostStatus(k) == \E i \in (k + 1)..Len(wire) : IsStatus(wire[i])

Cut ==
  /\ link
  /\ \E k \in 0..Len(wire), j \in 0..Len(outq) : Lose(k, j) /\ missed' = (missed \/ LostStatus(k))
  /\ UNCHANGED <<sdk, aborting, status, logging, conns, shown, sends, escapes, sent, began,
                 overtaken>>

\* A prompt that rejects, like any other unhandled rejection, ends the process; the
\* one that starts in its place is idle.
Restart ==
  /\ \E k \in 0..Len(wire), j \in 0..Len(outq) :
       /\ IF link THEN Lose(k, j) ELSE UNCHANGED <<link, wire, outq>>
       /\ missed' = (missed \/ status # "idle" \/ (link /\ LostStatus(k)))
  /\ prompts' = 0 /\ run' = 0 /\ aborting' = 0 /\ status' = "idle" /\ logging' = {}
  /\ overtaken' = FALSE
  /\ UNCHANGED <<started, emitted, conns, shown, sends, escapes, sent, began>>

-----------------------------------------------------------------------------
(* The client                                                                 *)

\* process_msg shows the status it is sent; of the Welcome it takes the workspaces'
\* names only.
Show_IdleIgnored(s) == shown' = IF s = "running" THEN s ELSE shown
Show(s) == shown' = s

Process ==
  /\ wire # <<>>
  /\ wire' = Tail(wire)
  /\ IF IsStatus(Head(wire)) THEN Show(Head(wire).status) ELSE UNCHANGED shown
  /\ UNCHANGED <<sdk, aborting, status, logging, link, conns, user, sent, began, missed, overtaken>>

PressEnter ==
  /\ sends < MaxSends
  /\ sends' = sends + 1 /\ outq' = Append(outq, "Send")
  /\ UNCHANGED <<sdk, aborting, status, logging, link, conns, wire, shown, escapes,
                 sent, began, missed, overtaken>>

\* Escape asks for an abort only while a run is shown.
PressEscape ==
  /\ shown = "running" /\ escapes < MaxAborts
  /\ escapes' = escapes + 1 /\ outq' = Append(outq, "Abort")
  /\ UNCHANGED <<sdk, aborting, status, logging, link, conns, wire, shown, sends,
                 sent, began, missed, overtaken>>

Next ==
  \/ RunStarts \/ RunEnds \/ RunVanishes \/ Steered \/ RunEmits
  \/ \E e \in logging : Appended(e)
  \/ OnSend \/ OnAbort \/ AbortSettles
  \/ Connect \/ Cut \/ Restart
  \/ Process \/ PressEnter \/ PressEscape

Spec == Init /\ [][Next]_vars

\* The SDK settles an abort; nothing makes it end a run of its own accord.
Fairness == WF_vars(AbortSettles)

FairSpec == Spec /\ Fairness

-----------------------------------------------------------------------------
(* Properties                                                                 *)

\* The session's status is that of the SDK's run. It may lag behind a run that an
\* abort ended, until the abort settles, and run ahead of one that started before
\* an older abort settled; nothing else parts them.
StatusTracksRun ==
  /\ run # 0 => status = "running" \/ overtaken
  /\ run = 0 => status = "idle" \/ aborting > 0

\* On the connection on which a run was announced, none of its events comes before
\* the announcement, whatever appends return late and whatever is aborted.
EventAfterRunning ==
  \A i \in DOMAIN sent :
    sent[i].type = "AgentEvent" /\ began[sent[i].run] = conns
      => \E j \in 1..(i - 1) : sent[j] = AgentStatus("running", sent[i].run)

\* Once the client has processed what it was sent it shows the session's status,
\* unless the last change of status was sent to nobody.
ShownUnlessMissed ==
  ~missed /\ (\A i \in DOMAIN wire : ~IsStatus(wire[i])) => shown = status

\* An abort that the server took ends with the session idle, also when the SDK
\* emits no agent_end.
AbortEndsIdle == aborting > 0 ~> status = "idle"
=============================================================================
