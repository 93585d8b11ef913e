------------------------------ MODULE Delivery ------------------------------
(* How the events of one workspace reach one client: the log as its appends   *)
(* leave it (workspaces/events/log.ts), the manager's ring and fan-out        *)
(* (workspaces/manager.ts), Resume and ReplayBatch (net/server.ts), and the   *)
(* client's queues and process_msg (crates/pi-oven/src/main.rs), over         *)
(* connections that are cut and made again.                                   *)
(*                                                                            *)
(* An event and its seq are two things: a start may give out numbers that the *)
(* log holds already (module EventLog). Events are named in the order in      *)
(* which they were emitted. At most one connection is live and its socket is  *)
(* the manager's (module Listener), and one that is cut takes with it every   *)
(* frame its peer has not read.                                               *)
EXTENDS Naturals, Sequences, FiniteSets, SequencesExt, FiniteSetsExt

CONSTANTS RingCap,     \* RING_CAP
          MaxEvents,   \* bound: events the agent emits
          MaxConns     \* bound: connections ever made

ASSUME DeliveryAssumption ==
  RingCap \in Nat \ {0} /\ MaxEvents \in Nat /\ MaxConns \in Nat

VARIABLES
  emitted,    \* events emitted so far
  born,       \* of these, before this process was started
  nextSeq,    \* EventLog.nextSeq
  seq,        \* the number each event took, 0 before it did
  disk,       \* the events whose line is in the log, in the order of the lines
  fanned,     \* the events that onEvent was called with, in that order
  ring,       \* the manager's ring
  scans,      \* calls of handleResume that await log.replay
  conns,      \* connections made so far
  link,       \* the connection is up, and its socket is connectedWs
  s2c, c2s,   \* frames under way in each direction
  inq, outq,  \* the client's queues between network task and UI
  lastSeq,    \* app_state.last_seq
  convo,      \* the events in the conversation
  causes      \* history: how an event may have been lost to the client

log == <<emitted, born, nextSeq, seq, disk>>
manager == <<fanned, ring>>
net == <<conns, link, s2c, c2s>>
client == <<inq, outq, lastSeq, convo>>
vars == <<log, manager, scans, net, client, causes>>

Event == 1..MaxEvents

Welcome == [type |-> "Welcome"]
\* The frame bears seq[e], too, which never changes once it is given.
AgentEvent(e) == [type |-> "AgentEvent", event |-> e]
\* since: the Resume's last_seq. heard, known: the events fanned out when the scan
\* of the log began, and when the batch was sent.
ReplayBatch(evs, latest, r) ==
  [type |-> "ReplayBatch", events |-> evs, latest |-> latest,
   since |-> r.since, heard |-> r.heard, known |-> Len(fanned)]

Count == 0..MaxEvents
Resumed == [since : Count, scanned : Nat, heard : Nat]
Batch == [type : {"ReplayBatch"}, events : SUBSET Event, latest : Count,
          since : Count, heard : Nat, known : Nat]
Inbound == {Welcome} \cup {AgentEvent(e) : e \in Event} \cup Batch

IsEvent(m) == m.type = "AgentEvent"
IsBatch(m) == m.type = "ReplayBatch"

TypeOK ==
  /\ emitted \in Count /\ born \in 0..emitted /\ nextSeq \in 1..(emitted + 1)
  /\ seq \in [Event -> 0..emitted]
  /\ disk \in Seq(Event) /\ fanned \in Seq(Event)
  /\ ring \in Seq(Event) /\ Len(ring) <= RingCap
  /\ scans \in Seq(Resumed)
  /\ link \in BOOLEAN /\ conns \in 0..MaxConns
  /\ s2c \in Seq(Inbound) /\ inq \in Seq(Inbound)
  /\ c2s \in Seq(Count) /\ outq \in Seq(Count)
  /\ lastSeq \in Count /\ convo \subseteq Event
  /\ causes \subseteq {"answer", "late", "number"}

Init ==
  /\ emitted = 0 /\ born = 0 /\ nextSeq = 1 /\ seq = [e \in Event |-> 0]
  /\ disk = <<>> /\ fanned = <<>> /\ ring = <<>> /\ scans = <<>>
  /\ conns = 0 /\ link = FALSE
  /\ s2c = <<>> /\ c2s = <<>> /\ inq = <<>> /\ outq = <<>>
  /\ lastSeq = 0 /\ convo = {} /\ causes = {}

-----------------------------------------------------------------------------
(* The server                                                                 *)

\* Calls of emitEvent whose line is not in the log, and those that await append.
Unwritten == ((born + 1)..emitted) \ ToSet(disk)
Unannounced == ((born + 1)..emitted) \ ToSet(fanned)

\* emitEvent, not awaited: append takes a number.
Emit ==
  /\ emitted < MaxEvents
  /\ emitted' = emitted + 1
  /\ seq' = [seq EXCEPT ![emitted'] = nextSeq]
  /\ nextSeq' = nextSeq + 1
  /\ UNCHANGED <<born, disk, manager, scans, net, client, causes>>

\* A process's first append opens a file, and others go ahead of it meanwhile; else
\* lines are written in the order of the calls.
Write(e) ==
  /\ e \in Unwritten /\ \A d \in Unwritten : d < e => d = born + 1
  /\ disk' = Append(disk, e)
  /\ UNCHANGED <<emitted, born, nextSeq, seq, manager, scans, net, client, causes>>

Push_ShiftsEarly(e) ==
  LET r == Append(ring, e) IN ring' = IF Len(r) >= RingCap THEN Tail(r) ELSE r
Push(e) ==
  LET r == Append(ring, e) IN ring' = IF Len(r) > RingCap THEN Tail(r) ELSE r

\* append returns and emitEvent calls WorkspaceManager.onEvent. A call may wait in
\* rotate, each for a file of its own, so that they return in any order.
FanOut_BeforeWrite(e) ==
  /\ e \in Unannounced
  /\ fanned' = Append(fanned, e)
  /\ Push(e)
  /\ s2c' = IF link THEN Append(s2c, AgentEvent(e)) ELSE s2c
  /\ UNCHANGED <<log, scans, conns, link, c2s, client, causes>>
FanOut(e) ==
  /\ e \in Unannounced \cap ToSet(disk)
  /\ fanned' = Append(fanned, e)
  /\ Push(e)
  /\ s2c' = IF link THEN Append(s2c, AgentEvent(e)) ELSE s2c
  /\ UNCHANGED <<log, scans, conns, link, c2s, client, causes>>

\* handleResume, up to its await: the scan starts on the log as it stands.
ResumeStart ==
  /\ c2s # <<>>
  /\ scans' = Append(scans, [since |-> Head(c2s), scanned |-> Len(disk), heard |-> Len(fanned)])
  /\ c2s' = Tail(c2s)
  /\ UNCHANGED <<log, manager, conns, link, s2c, client, causes>>

\* The scan found the first k lines; of the ring, as it now is, what has a number
\* that the scan did not find.
Found(k) == {disk[i] : i \in 1..k}
Merge_OffByOne(r, k) ==
  LET new == {e \in ToSet(ring) : ~\E d \in Found(k) : seq[d] = seq[e]}
  IN  {e \in Found(k) \cup new : seq[e] > r.since + 1}
Merge(r, k) ==
  LET new == {e \in ToSet(ring) : ~\E d \in Found(k) : seq[d] = seq[e]}
  IN  {e \in Found(k) \cup new : seq[e] > r.since}

Latest(evs, since) == IF evs = {} THEN since ELSE Max({seq[e] : e \in evs})

\* handleResume, after its await: the scan has seen some of what was written since.
ResumeFinish(i) ==
  /\ i \in DOMAIN scans
  /\ \E k \in scans[i].scanned..Len(disk) :
       LET evs == Merge(scans[i], k)
       IN  s2c' = Append(s2c, ReplayBatch(evs, Latest(evs, scans[i].since), scans[i]))
  /\ scans' = RemoveAt(scans, i)
  /\ UNCHANGED <<log, manager, conns, link, c2s, client, causes>>

-----------------------------------------------------------------------------
(* The connection                                                             *)

\* Upgrade, Hello and Welcome: the manager's client is set before Welcome is sent.
Connect ==
  /\ ~link /\ conns < MaxConns
  /\ conns' = conns + 1 /\ link' = TRUE
  /\ s2c' = <<Welcome>>
  /\ UNCHANGED <<log, manager, scans, c2s, client, causes>>

Batches(q) == {m \in ToSet(q) : IsBatch(m)}
Live(q) == {m.event : m \in {f \in ToSet(q) : IsEvent(f)}}
Content(q) == Live(q) \cup UNION {m.events : m \in Batches(q)}

\* The numbers that put the client ahead of a Resume that is not answered: its last_seq,
\* and those of the live events it has read and of its other Resumes.
Ahead(read) ==
  {lastSeq} \cup ToSet(outq) \cup {seq[e] : e \in Live(read)}
  \cup {m.since : m \in Batches(read)}

\* The client reads the first k frames under way, and no more; what a cut takes then.
Read(k) == inq \o SubSeq(s2c, 1, k)
Lost(k) == SubSeq(s2c, k + 1, Len(s2c))

\* An answer is lost that the client was ahead of.
AnswerLost(k) ==
  LET owed == ToSet(c2s) \cup {r.since : r \in ToSet(scans)}
              \cup {m.since : m \in Batches(Lost(k))}
  IN  \E n \in owed, x \in Ahead(Read(k)) : n < x

\* An event does not come whose number the client is past: its append has not returned,
\* or returned after that of a later one.
LateLost(k) ==
  LET missed == (Unannounced \cup Live(Lost(k))) \ (convo \cup Content(Read(k)))
      past == Ahead(Read(k)) \cup {m.latest : m \in Batches(Read(k))}
  IN  \E e \in missed, x \in past : seq[e] <= x

Losses(k) == (IF AnswerLost(k) THEN {"answer"} ELSE {}) \cup (IF LateLost(k) THEN {"late"} ELSE {})

\* The connection is lost, and the Resumes that the client is owed an answer to are
\* answered to nobody.
Cut(k) ==
  /\ inq' = Read(k)
  /\ link' = FALSE
  /\ s2c' = <<>> /\ c2s' = <<>> /\ scans' = <<>>

Drop ==
  /\ link
  /\ \E k \in 0..Len(s2c) : Cut(k) /\ causes' = causes \cup Losses(k)
  /\ UNCHANGED <<log, manager, conns, outq, lastSeq, convo>>

\* EventLog.open: the number after that of the last line, or 1 if the newest file has
\* none, or ends in one that is torn or too long.
NextSeqs == {1} \cup (IF disk = <<>> THEN {} ELSE {seq[Last(disk)] + 1})

Reused(n) == IF \E e \in ToSet(disk) : n <= seq[e] THEN {"number"} ELSE {}

\* The server process dies, as it does when a write is refused, and starts again: the
\* ring is empty, events that are not written are gone, and those not fanned out never
\* are, but in the log.
Restart ==
  /\ nextSeq' \in NextSeqs
  /\ \E k \in 0..Len(s2c) : Cut(k) /\ causes' = causes \cup Losses(k) \cup Reused(nextSeq')
  /\ born' = emitted /\ ring' = <<>>
  /\ UNCHANGED <<emitted, seq, disk, fanned, conns, outq, lastSeq, convo>>

Receive ==
  /\ s2c # <<>>
  /\ inq' = Append(inq, Head(s2c))
  /\ s2c' = Tail(s2c)
  /\ UNCHANGED <<log, manager, scans, conns, link, c2s, outq, lastSeq, convo, causes>>

\* A queued message goes out on whatever connection is up.
Transmit ==
  /\ link /\ outq # <<>>
  /\ c2s' = Append(c2s, Head(outq))
  /\ outq' = Tail(outq)
  /\ UNCHANGED <<log, manager, scans, conns, link, s2c, inq, lastSeq, convo, causes>>

-----------------------------------------------------------------------------
(* The client's process_msg                                                   *)

Take == inq # <<>> /\ inq' = Tail(inq)

\* One Resume per workspace of the Welcome.
Ask_FirstTimeOnly == outq' = IF lastSeq = 0 THEN Append(outq, 0) ELSE outq
Ask == outq' = Append(outq, lastSeq)

OnWelcome ==
  /\ Take /\ Head(inq) = Welcome
  /\ Ask
  /\ UNCHANGED <<log, manager, scans, net, lastSeq, convo, causes>>

OnReplayBatch ==
  /\ Take /\ IsBatch(Head(inq))
  /\ convo' = convo \cup Head(inq).events
  /\ lastSeq' = Head(inq).latest
  /\ UNCHANGED <<log, manager, scans, net, outq, causes>>

OnAgentEvent ==
  /\ Take /\ IsEvent(Head(inq))
  /\ convo' = convo \cup {Head(inq).event}
  /\ lastSeq' = seq[Head(inq).event]
  /\ UNCHANGED <<log, manager, scans, net, outq, causes>>

Next ==
  \/ Emit \/ \E e \in Event : Write(e) \/ FanOut(e)
  \/ ResumeStart \/ \E i \in DOMAIN scans : ResumeFinish(i)
  \/ Connect \/ Drop \/ Restart \/ Receive \/ Transmit
  \/ OnWelcome \/ OnReplayBatch \/ OnAgentEvent

Spec == Init /\ [][Next]_vars

\* Both processes run, the network carries what it keeps, and the client's
\* reconnect loop tries again after every loss.
Fairness ==
  /\ \A e \in Event : WF_vars(Write(e)) /\ WF_vars(FanOut(e))
  /\ WF_vars(ResumeStart) /\ WF_vars(\E i \in DOMAIN scans : ResumeFinish(i))
  /\ WF_vars(Connect) /\ WF_vars(Receive) /\ WF_vars(Transmit)
  /\ WF_vars(OnWelcome) /\ WF_vars(OnReplayBatch) /\ WF_vars(OnAgentEvent)

FairSpec == Spec /\ Fairness

-----------------------------------------------------------------------------
(* Properties                                                                 *)

\* However late lines and callbacks come, and whatever numbers were given twice: as long
\* as no more events are fanned out during a scan than the ring can hold, the batch holds
\* every event fanned out by then that the Resume asked for, or one of its number. The
\* ring closes the gap between the end of the scan and the sending of the batch.
BatchComplete ==
  \A m \in Batches(s2c \o inq) :
    m.known <= m.heard + RingCap =>
      \A i \in 1..m.known :
        m.since < seq[fanned[i]] => \E d \in m.events : seq[d] = seq[fanned[i]]

\* A Resume is to be sent, answered, or its answer to be shown.
Unanswered ==
  \/ outq # <<>> \/ c2s # <<>> \/ scans # <<>>
  \/ \E m \in ToSet(s2c \o inq) : ~IsEvent(m)

\* Each event of the log that last_seq is past is shown, or is on its way or yet to be sent
\* on this connection.
NothingMissing ==
  \A e \in ToSet(disk) :
    seq[e] <= lastSeq => e \in convo \cup Live(s2c \o inq) \/ (link /\ e \in Unannounced)

\* When every Resume is answered, each event of the log that the client's last_seq is past
\* is shown, or is on its way or yet to be sent on this connection; unless a cut took the
\* answer to a Resume that the client was ahead of, or an event that came after one of a
\* larger number, or a start gave numbers out again. Only these three lose events: not the
\* ring, nor old Resumes beside new ones, nor a last_seq that goes back.
LossHasCause == causes # {} \/ Unanswered \/ NothingMissing

\* The client never knows a number that the log does not hold: its last_seq, and those of its
\* Resumes. Were an event announced before its line is written, a crash would leave the client
\* ahead, and events that the next process numbers would look old to it.
NeverAheadOfLog ==
  \A x \in {lastSeq} \cup ToSet(outq) \cup ToSet(c2s) \cup {r.since : r \in ToSet(scans)} :
    x = 0 \/ \E e \in ToSet(disk) : seq[e] = x

\* Every event in the log reaches the conversation, through cuts and restarts, unless one
\* of the three causes arises or the last connection is gone.
EventArrives ==
  \A e \in Event :
    e \in ToSet(disk) ~> e \in convo \/ causes # {} \/ (conns = MaxConns /\ ~link)

\* "enable reconnect without data loss", even where no event is late and no number is
\* given out again.
NoLoss == causes \subseteq {"answer"} => Unanswered \/ NothingMissing
=============================================================================
