------------------------------ MODULE EventLog ------------------------------
(* The per-workspace event log of pi-oven-server: one NDJSON file at a time,  *)
(* appended to by async calls of EventLog.append, rotated by size, and read   *)
(* back when the process starts (workspaces/events/log.ts).                   *)
(*                                                                            *)
(* Node runs one callback at a time, and every queued continuation (the code  *)
(* after an await) before the next callback. An action is the code between    *)
(* two awaits; Runnable(c) says that call c has a continuation queued, and    *)
(* actions that start from a callback require JsIdle. Only the thread pool    *)
(* (Flush) and the death of the process cut in between.                       *)
EXTENDS Naturals, Sequences, FiniteSets

CONSTANTS Call,         \* the calls of append; each hands over one event
          Long,         \* the calls whose line is longer than the tail read
          MaxSize,      \* MAX_FILE_SIZE, counted in lines
          MaxFiles,     \* bound: file names ever chosen
          MaxLives,     \* bound: times the process is started
          MaxInFlight   \* bound: appends outstanding at once

ASSUME EventLogAssumption ==
  /\ Long \subseteq Call
  /\ MaxSize \in Nat \ {0} /\ MaxFiles \in Nat /\ MaxLives \in Nat /\ MaxInFlight \in Nat

VARIABLES
  up, lives,      \* the process is running; times it was started
  nextSeq, seq,   \* EventLog.nextSeq; the seq each call took
  cur, size,      \* currentStream, as the number of its file (0: null); currentSize
  made,           \* file names chosen so far; names sort by this number
  st, lines,      \* each file's stream, and what the file holds on disk
  buf, acks,      \* lines handed to a stream; calls whose write callback is queued
  pc, on,         \* where each call of append stands; the file it waits for
  fanout,         \* the calls that returned, in the order of callbacks.onEvent
  slow,           \* history: calls that awaited the open of a file
  stale           \* history: some start took a nextSeq the disk already held

life == <<up, lives, stale>>
stamp == <<nextSeq, seq>>
vars == <<life, stamp, cur, size, made, st, lines, buf, acks, pc, on, fanout, slow>>

File == 1..MaxFiles
Line == [seq : Nat, call : Call, whole : BOOLEAN]
InFlight == {"ensuring", "writing", "ending", "reopening"}

TypeOK ==
  /\ up \in BOOLEAN /\ lives \in 0..MaxLives
  /\ nextSeq \in Nat \ {0} /\ seq \in [Call -> Nat]
  /\ cur \in 0..MaxFiles /\ size \in Nat /\ made \in 0..MaxFiles
  /\ st \in [File -> {"none", "opening", "open", "ending", "finished", "closed"}]
  /\ lines \in [File -> Seq(Line)]
  /\ buf \in [File -> Seq(Call)] /\ acks \in [File -> Seq(Call)]
  /\ pc \in [Call -> InFlight \cup {"new", "done", "lost"}] /\ on \in [Call -> 0..MaxFiles]
  /\ fanout \in Seq(Call)
  /\ slow \subseteq Call /\ stale \in BOOLEAN

Init ==
  /\ up = FALSE /\ lives = 0
  /\ nextSeq = 1 /\ seq = [c \in Call |-> 0]
  /\ cur = 0 /\ size = 0 /\ made = 0
  /\ st = [f \in File |-> "none"] /\ lines = [f \in File |-> <<>>]
  /\ buf = [f \in File |-> <<>>] /\ acks = [f \in File |-> <<>>]
  /\ pc = [c \in Call |-> "new"] /\ on = [c \in Call |-> 0]
  /\ fanout = <<>> /\ slow = {} /\ stale = FALSE

-----------------------------------------------------------------------------
(* Start: EventLog.open reads back the newest file                            *)

OnDisk == {f \in File : st[f] \notin {"none", "opening"}}

\* readLastSeq of a log whose torn line still parses.
ReadLastSeq_Torn(f) == IF lines[f] = <<>> THEN 0 ELSE lines[f][Len(lines[f])].seq

\* readLastSeq, with 0 for its null: the file is empty, or its last line is torn
\* or longer than the 4096 bytes read from the end.
ReadLastSeq(f) ==
  LET last == lines[f][Len(lines[f])]
  IN  IF lines[f] = <<>> THEN 0
      ELSE IF last.whole /\ last.call \notin Long THEN last.seq ELSE 0

NextAfter(f) == ReadLastSeq(f) + 1

\* Some line on disk holds seq n or a later one.
Held(n) == \E f \in File : \E i \in DOMAIN lines[f] :
             lines[f][i].whole /\ lines[f][i].seq >= n

Open ==
  /\ ~up /\ lives < MaxLives
  /\ \/ OnDisk = {} /\ nextSeq' = 1
     \/ \E f \in OnDisk : (\A g \in OnDisk : g <= f) /\ nextSeq' = NextAfter(f)
  /\ up' = TRUE /\ lives' = lives + 1
  /\ stale' = (stale \/ Held(nextSeq'))
  /\ UNCHANGED <<seq, cur, size, made, st, lines, buf, acks, pc, on, fanout, slow>>

-----------------------------------------------------------------------------
(* The event loop, and the death of the process                               *)

\* A call whose awaited event has fired: its continuation runs next.
Runnable(c) == \/ pc[c] \in {"ensuring", "reopening"} /\ st[on[c]] # "opening"
               \/ pc[c] = "ending" /\ st[on[c]] = "finished"

JsIdle == up /\ \A c \in Call : ~Runnable(c)

Outstanding == {c \in Call : pc[c] \in InFlight}

Writable == {f \in File : st[f] \in {"open", "ending"} /\ buf[f] # <<>>}

Torn(c) == [seq |-> seq[c], call |-> c, whole |-> FALSE]

\* The process dies, and with it the calls in gone. A write in progress may leave
\* part of its line; files stay, streams do not.
Halt(gone) ==
  /\ up' = FALSE /\ cur' = 0 /\ size' = 0
  /\ st' = [f \in File |-> IF f \in OnDisk THEN "closed" ELSE "none"]
  /\ \/ UNCHANGED lines
     \/ \E f \in Writable : lines' = [lines EXCEPT ![f] = Append(@, Torn(Head(buf[f])))]
  /\ buf' = [f \in File |-> <<>>] /\ acks' = [f \in File |-> <<>>]
  /\ pc' = [c \in Call |-> IF c \in gone THEN "lost" ELSE pc[c]]
  /\ UNCHANGED <<lives, stale, made, on, fanout, slow>>

Crash == up /\ Halt(Outstanding) /\ UNCHANGED stamp

-----------------------------------------------------------------------------
(* append, up to its first await                                              *)

CanStart(c) == JsIdle /\ pc[c] = "new" /\ Cardinality(Outstanding) < MaxInFlight

\* The counter advances in the same step that stamps the event.
TakeSeq_CountsLate(c) ==
  /\ seq' = [seq EXCEPT ![c] = nextSeq]
  /\ nextSeq' = IF cur = 0 THEN nextSeq ELSE nextSeq + 1
TakeSeq(c) ==
  /\ seq' = [seq EXCEPT ![c] = nextSeq]
  /\ nextSeq' = nextSeq + 1

\* createWriteStream on a fresh name: currentStream is set before the open, and
\* call c awaits the open.
CreateStream(c) ==
  /\ made < MaxFiles
  /\ made' = made + 1 /\ cur' = made + 1
  /\ st' = [st EXCEPT ![made + 1] = "opening"]
  /\ on' = [on EXCEPT ![c] = made + 1]
  /\ slow' = slow \cup {c}

\* append returns, and emitEvent hands the event out.
Return(c) == /\ pc' = [pc EXCEPT ![c] = "done"]
             /\ fanout' = Append(fanout, c)

Enqueue_First(c) == buf' = [buf EXCEPT ![cur] = <<c>> \o @]
Enqueue(c) == buf' = [buf EXCEPT ![cur] = Append(@, c)]

\* currentStream is null: this call opens a file.
AppendOpening(c) ==
  /\ CanStart(c) /\ cur = 0
  /\ TakeSeq(c) /\ CreateStream(c)
  /\ pc' = [pc EXCEPT ![c] = "ensuring"]
  /\ UNCHANGED <<life, size, lines, buf, acks, fanout>>

\* currentStream is set, open yet or not: ensureStream returns at once and the
\* line goes into the stream's buffer, ahead of the call that awaits the open.
AppendWriting_NotAwaited(c) ==
  /\ CanStart(c) /\ cur # 0 /\ st[cur] \in {"opening", "open"}
  /\ TakeSeq(c) /\ Enqueue(c)
  /\ Return(c)
  /\ UNCHANGED <<life, cur, size, made, st, lines, acks, on, slow>>
AppendWriting(c) ==
  /\ CanStart(c) /\ cur # 0 /\ st[cur] \in {"opening", "open"}
  /\ TakeSeq(c) /\ Enqueue(c)
  /\ pc' = [pc EXCEPT ![c] = "writing"]
  /\ UNCHANGED <<life, cur, size, made, st, lines, acks, on, fanout, slow>>

\* currentStream is being ended by rotate: the write is refused, the promise that
\* emitEvent's caller dropped rejects, and Node ends the process.
AppendRefused(c) ==
  /\ CanStart(c) /\ cur # 0 /\ st[cur] = "ending"
  /\ TakeSeq(c) /\ Halt(Outstanding \cup {c})

-----------------------------------------------------------------------------
(* The stream: open, write, callback                                          *)

FileOpened(f) ==
  /\ JsIdle /\ st[f] = "opening"
  /\ st' = [st EXCEPT ![f] = "open"]
  /\ UNCHANGED <<life, stamp, cur, size, made, lines, buf, acks, pc, on, fanout, slow>>

\* The rest of ensureStream: take the file's size, then write.
EnsureDone(c) ==
  /\ pc[c] = "ensuring" /\ Runnable(c)
  /\ size' = Len(lines[on[c]])
  /\ Enqueue(c)
  /\ pc' = [pc EXCEPT ![c] = "writing"]
  /\ UNCHANGED <<life, stamp, cur, made, st, lines, acks, on, fanout, slow>>

WriteLine(f, c) ==
  lines' = [lines EXCEPT ![f] = Append(@, [seq |-> seq[c], call |-> c, whole |-> TRUE])]

\* The thread pool writes the first line of a stream's buffer.
Flush(f) ==
  /\ f \in Writable
  /\ WriteLine(f, Head(buf[f]))
  /\ buf' = [buf EXCEPT ![f] = Tail(@)]
  /\ acks' = [acks EXCEPT ![f] = Append(@, Head(buf[f]))]
  /\ UNCHANGED <<life, stamp, cur, size, made, st, pc, on, fanout, slow>>

\* rotate, up to the await of end().
StartRotate(c) == /\ st' = [st EXCEPT ![cur] = "ending"]
                  /\ pc' = [pc EXCEPT ![c] = "ending"]
                  /\ on' = [on EXCEPT ![c] = cur]

\* The write callback: count the line, then rotate, or return.
Written(f) ==
  /\ JsIdle /\ acks[f] # <<>>
  /\ acks' = [acks EXCEPT ![f] = Tail(@)]
  /\ size' = size + 1
  /\ \/ size' >= MaxSize /\ StartRotate(Head(acks[f])) /\ UNCHANGED fanout
     \/ size' < MaxSize /\ Return(Head(acks[f])) /\ UNCHANGED <<st, on>>
  /\ UNCHANGED <<life, stamp, cur, made, lines, buf, slow>>

-----------------------------------------------------------------------------
(* rotate, after its first await; close                                       *)

\* end() completes once every line is written and every callback has run.
Drained_LoneRotator(f) == /\ buf[f] = <<>> /\ acks[f] = <<>>
                          /\ Cardinality({c \in Call : pc[c] = "ending"}) = 1
Drained(f) == buf[f] = <<>> /\ acks[f] = <<>>

Finish(f) ==
  /\ JsIdle /\ st[f] = "ending" /\ Drained(f)
  /\ st' = [st EXCEPT ![f] = "finished"]
  /\ UNCHANGED <<life, stamp, cur, size, made, lines, buf, acks, pc, on, fanout, slow>>

\* Each of the calls that awaited the end opens a file of its own.
SwitchFile_EndNotAwaited(c) ==
  /\ pc[c] = "ending" /\ st[on[c]] \in {"ending", "finished"}
  /\ CreateStream(c)
  /\ pc' = [pc EXCEPT ![c] = "reopening"]
  /\ UNCHANGED <<life, stamp, size, lines, buf, acks, fanout>>
SwitchFile(c) ==
  /\ pc[c] = "ending" /\ Runnable(c)
  /\ CreateStream(c)
  /\ pc' = [pc EXCEPT ![c] = "reopening"]
  /\ UNCHANGED <<life, stamp, size, lines, buf, acks, fanout>>

RotateDone(c) ==
  /\ pc[c] = "reopening" /\ Runnable(c)
  /\ size' = 0 /\ Return(c)
  /\ UNCHANGED <<life, stamp, cur, made, st, lines, buf, acks, on, slow>>

\* close: its callers await every append first.
Close ==
  /\ JsIdle /\ cur # 0 /\ Outstanding = {}
  /\ st' = [st EXCEPT ![cur] = "finished"] /\ cur' = 0
  /\ UNCHANGED <<life, stamp, size, made, lines, buf, acks, pc, on, fanout, slow>>

-----------------------------------------------------------------------------
Next ==
  \/ Open \/ Crash \/ Close
  \/ \E c \in Call : \/ AppendOpening(c) \/ AppendWriting(c) \/ AppendRefused(c)
                     \/ EnsureDone(c) \/ SwitchFile(c) \/ RotateDone(c)
  \/ \E f \in File : FileOpened(f) \/ Flush(f) \/ Written(f) \/ Finish(f)

\* The event loop and the thread pool serve what is queued; nothing makes the
\* agent emit, the process start, or a crash happen.
Fairness ==
  /\ \A c \in Call : WF_vars(EnsureDone(c) \/ SwitchFile(c) \/ RotateDone(c))
  /\ \A f \in File : WF_vars(FileOpened(f) \/ Flush(f) \/ Written(f) \/ Finish(f))

Spec == Init /\ [][Next]_vars
FairSpec == Spec /\ Fairness

-----------------------------------------------------------------------------
(* Properties                                                                 *)

\* Its whole line is on disk.
Durable(c) ==
  \E f \in File : \E i \in DOMAIN lines[f] :
    lines[f][i] = [seq |-> seq[c], call |-> c, whole |-> TRUE]

\* An event is handed to the session's callbacks only once its whole line, under
\* the seq it is announced with, is in a log file: append returns after the write
\* callback, whatever rotates, reopens or crashes meanwhile.
FanoutDurable == \A k \in DOMAIN fanout : Durable(fanout[k])

\* Over any number of crashes, restarts, rotations and racing appends, two events
\* on disk share a seq only if some start computed a nextSeq that the log already
\* held: EventLog.open is the only place where uniqueness can be lost.
SeqUniqueUnlessStale ==
  stale \/ \A f, g \in File : \A i \in DOMAIN lines[f], j \in DOMAIN lines[g] :
             /\ lines[f][i].whole /\ lines[g][j].whole
             /\ lines[f][i].seq = lines[g][j].seq
             => f = g /\ i = j

\* In a file, a line precedes one of a smaller seq only if the later line is that
\* of a call that opened a file: ensureStream lets everyone else write ahead of
\* the opener, and the log reorders nothing else.
OnlyOpenerLate ==
  \A f \in File : \A i, j \in DOMAIN lines[f] :
    i < j /\ lines[f][i].seq > lines[f][j].seq => lines[f][j].call \in slow

\* Once a newer file holds a line, an older one is never written again, so that
\* the newest file is the only one that open need read.
OlderFilesFrozen ==
  [][\A f, g \in File : f < g /\ lines[g] # <<>> => lines'[f] = lines[f]]_vars

\* Every append that starts returns, or dies with the process: no interleaving of
\* an open, buffered lines and several rotations leaves one waiting. (As many appends
\* as the agent makes: they end, so that in the end none is outstanding.)
AppendSettles == []<>(Outstanding = {})

\* Files, streams and buffers taken away, EventLog implements Journal: what is on disk
\* stays, nothing gets there after the process that took it has died, each event is
\* announced once, and a start never goes on behind a line that is not whole.
Log == INSTANCE Journal WITH
         next <- nextSeq, number <- seq, announced <- fanout,
         state <- [c \in Call |-> IF pc[c] \in InFlight THEN "pending" ELSE pc[c]],
         stored <- {c \in Call : Durable(c)}
LogKept == Log!Spec

\* "no two events share the same seq value".
SeqUnique ==
  \A j, k \in DOMAIN fanout : j # k => seq[fanout[j]] # seq[fanout[k]]
=============================================================================
