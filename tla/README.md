# Verification of pi-oven

pi-oven is a coding agent in two processes. `pi-oven-server` (TypeScript, Node)
runs an agent session for each workspace, logs what the agent emits and sends it
to a client over a WebSocket. `pi-oven` (Rust) is that client: a conversation
pane, an input line, and a network task that reconnects. This directory holds
TLA+ models of the parts of both where order, failure and time decide what
happens, the TLC runs that check them, and proofs, by the TLA+ proof system, of
what matters most.

Paths below leave out `src/`; `S` stands for `packages/pi-oven-server/src`.

## 1. The system

| component | source | state it keeps | operations |
|---|---|---|---|
| event log | `S/workspaces/events/log.ts` | `nextSeq`, the current file and its stream, bytes written | `open` (reads the last seq), `append`, `ensureStream`, `rotate`, `replay`, `close` |
| agent session | `S/workspaces/session.ts` | `status`, the SDK session or the stub's timers | `queue`, `abort`, `onPiEvent`, `emitEvent`, `emitStatus`, `stubQueue` |
| workspace manager | `S/workspaces/manager.ts` | a ring of the last 500 events and a status per workspace, the client's socket | `init`, `onEvent`, `onStatus`, `setClient`, `getSnapshots` |
| listener | `S/net/server.ts` | for each socket a handshake timer and `authenticated_this`; one registered socket per key and when it was last heard | upgrade, message, close, the heartbeat sweep, `handleResume`, `close` |
| boot and shutdown | `S/index.ts` | `logger`, `db`, `release`, `listener` | `boot`, `shutdown` on each SIGINT and SIGTERM |
| lock | `S/lock.ts` | the lock directory (proper-lockfile), the body of `server.lock` | `acquireLock`, release |
| migrations | `S/state/migrate.ts`, `db.ts` | `_migrations`, backups | `openDb`, `migrate`, `pruneBackups` |
| server configuration, logger | `S/config.ts`, `S/log.ts` | none after boot; daily files | `loadConfig`, `initLogger` |
| codec | `S/protocol.ts`, `crates/pi-oven-protocol` | none | encode, decode |
| network task | `crates/pi-oven-net` | the socket, two channels, unanswered pings, the length of the next wait | `Client::connect`, the socket loop, `reconnect_loop` |
| client application | `crates/pi-oven/src/main.rs` | `AppState`: the conversation, `last_seq`, the status shown, the input line | `process_msg`, `handle_key`, `redraw` |
| input editor | `crates/pi-oven-ui/src/editor.rs`, `input.rs` | the text, cursor and anchor, as byte offsets | each key's operation, `render_input` |
| conversation pane | `crates/pi-oven-ui/src/conversation.rs`, `lib.rs` | blocks of lines, offset, follow mode | `append_agent_event`, `render_conversation`, `handle_key` |
| painting | `crates/pi-oven-render` | cells, dirty rows, the shaped rows and rectangles of the last layout | `draw`, `take_dirty_rows`, `resize_surface_only`, `rebuild_layout`, `set_font_size`, `paint` |
| font preference | `crates/pi-oven/src/config.rs`, `main.rs` | the font size, and since when a change waits to be saved | `load_font_size`, `adjust_font_size`, the timer, `flush_font_save` |
| key translation | `crates/pi-oven/src/keys.rs` | none | `translate`: a key and its modifiers to a `KeyAction` |
| terminal variant of the client | `main.rs`, `mod crossterm_main` | the mode of the terminal it was started from | start in three steps, a loop of its own, teardown |
| other panes | `crates/pi-oven-ui`: `lib.rs`, `tabs.rs`, `legend.rs`, `header.rs`, `status_bar.rs`, `truncate.rs` | placeholders | the layout, strips of one line cut to their width |

How they interact. The agent calls the session's subscriber for each event; the
session awaits `EventLog.append` and then calls the manager, which puts the event
into the ring and sends it to the registered socket. A status goes the same way
without the log. The listener registers a socket on `Hello`, answers with
`Welcome` and hands later frames to the session (`Send`, `Abort`) or to
`handleResume`, which reads the log while new events arrive. On the other side
the socket task and the reconnect loop pass frames through channels of 64 to the
UI thread, which asks for what it misses with `Resume` after each `Welcome`.

What is hard about it. Node runs one callback at a time, but every `await` lets
others in: appends race with each other, with a rotation and with a resume;
`abort` with the run it ends; a signal with boot. Sockets close late, frames
arrive on closing sockets, connections vanish with what they carried. The server
dies at any point and reads its log again. The client's two tasks wait for each
other's channels, and the window's thread for both. Text positions are byte offsets, and a wrong one is a panic. The
window redraws what changed only, in three layers that each compare with what they had last,
and a frame may not be had. A wide character takes two cells of which one is never written.

What makes each part correct:

- log: what is announced is on disk; numbers are not used twice; every append returns.
- session: its status is that of the agent; a run's events follow its announcement; an abort ends idle.
- manager and listener: one live client, the one the manager serves; silence is noticed; shutdown ends.
- resume: a batch has all that was asked for; events are lost in known ways only; the client is never ahead of the log; everything else arrives.
- boot: the database is open under the lock only; nobody is served before all is migrated; a batch can be undone.
- network task: order is kept; nothing is dropped while connected; a dead connection is given up; only a terminal code ends retrying;
  neither a handshake nor a blocked window waits for longer than it must.
- editor: positions lie between characters; an operation touches the text at the cursor only; the line on the screen is the text.
- terminal variant: the terminal is given back as it was found.
- other panes: a strip is whole or ends in its mark.
- conversation pane and painting: the newest line is shown in follow mode; what is on the screen is what was drawn.
- font preference: the next start has the size seen last.

## 2. The modules

| module | models | composes with |
|---|---|---|
| `EventLog` | `log.ts`: appends, opening, rotation, crash and restart | `Delivery` takes from it in which orders lines are written and appends return, and which numbers a start goes on with; implements `Journal` |
| `Journal` | abstract specification: events are numbered, stored, announced, and lost in a crash | |
| `Listener` | `server.ts`: sockets, handshake, registration, sweep, shutdown | gives `Delivery` and `Turn` their one connection, and `Boot` the end of `listener.close` |
| `Delivery` | the log's lines, the manager, `handleResume` and `process_msg` together | |
| `Turn` | the session with the SDK, fan-out of status and events, what the client shows and asks | |
| `ClientNet` | `client.rs` and `reconnect.rs`, handshake included, with the UI's thread at one end and the network at the other | |
| `Boot` | `index.ts`, `lock.ts` and `migrate.ts`, for several processes on one directory | |
| `Editor` | `editor.rs` and what the front ends do with it: each operation, clipboard and sending | implements `EditorText` |
| `Keys` | `keys.rs`, the key handlers of both builds, how each build starts and ends | extends `Editor`: gives it its steps |
| `Panes` | the layout's columns and the strips of tabs, hotkeys, header and status, in widths | gives `InputLine` its width |
| `InputLine` | `render_input`, ratatui's diff, and what the painter makes of that row | extends `Keys` and `Panes`: the whole way from a key to the cells |
| `EditorText` | abstract specification: what a line editor may do to the text around its cursor | |
| `Screen` | the conversation pane, ratatui's diff, the painter's cache, the window's events and timers, the font size and its file | |
| `EventLogProofs`, `ListenerProofs`, `DeliveryProofs`, `TurnProofs`, `ClientNetProofs`, `BootProofs`, `ScreenProofs` | theorems | extend their module |
| `InputProofs` | theorems on all that the input line is made of | extends `InputLine`, and with it `Editor` and `Keys` |

An action is the code between two awaits (server), a branch of a `select!`
(client), the handler of a window event, a key (editor), or a step of a start that may fail. Where something outside the repository takes part
(Node's streams, `ws`, TCP, tokio channels, the pi SDK, proper-lockfile, UTF-8) it
is modelled by what the code relies on, and `PROJECT.json` marks it external.

Names `X_Something`, right before a definition `X`, are that definition with a
mistake in it. They are never part of a specification: put in the place of `X` they
show that the property they are listed with would notice. Variables whose comment says
"history" record what happened for the properties' sake; no action's guard reads one.

**EventLog.** `nextSeq`, `cur`, `size` are the fields of the class. A file has a
stream with a state of Node's (`opening` to `closed`), the lines handed to it
(`buf`), the write callbacks that are due (`acks`) and what is on disk (`lines`).
`pc[c]` is where call `c` of `append` stands: in `ensureStream`, in the write, in
`rotate`. The queue of continuations runs empty before the next callback
(`JsIdle`). A crash keeps what is on disk, tears the line being written, and the next start
reads the last line of the newest file only, as `readLastSeq` does. `Journal` has no files, streams or
buffers: to it an event is stored when its whole line is on disk, and pending while `append` is anywhere inside.

**Listener.** One variable for each field: `ws` (readyState), `authed`
(`authenticated_this`), `armed` (the timer), `auth` (`authenticated`), `connected`
(`connectedWs`). `code` remembers with which code the server closed a socket.
There is one shared key, as in the code.

**Delivery.** An event is named by its place in the order of emission; `seq` is the number it
took. `disk` is the log, line by line; `Emit` is a call of `append` up to its first await, `Write` the line,
`FanOut` the return of `append` with the manager's `onEvent`. The first call of a process opens a
file and any number of later lines may come before its own (`log.ts:113`); all others are written in order. Appends return in
any order, since each may wait in a rotation. A write that is refused ends the process, since nobody awaits `emitEvent`; that is
a `Restart`. A restart empties the ring, drops what is not written, and goes on with the number after the last line's or
with 1 (`log.ts:45`), so that several events may have one number. A `handleResume` is a record in `scans`
from its first read to its answer; the scan finds what was on disk when it began and any number of the next lines. Frames
travel in `s2c` and `c2s`, and the client's queues are `inq` and `outq`. A cut loses
what travels, but for a first part that the client may still have read. `causes` is history: how an event may have been lost, as far as
that can be told from the numbers at the moment of a cut or a start.

**Turn.** The SDK holds prompts and runs them one at a time. `logging` are events
whose append has not returned; they may return in any order. `shown` is
`workspace_status`; Escape asks for an abort only while it is running.

**ClientNet.** `task` and `loop` say in which `select!`, or in which send inside a
branch, the two stand. In `greeting` the loop is inside `Client::connect`, after its `Hello`.
`held` is the message that `blocking_send` keeps the window's thread with. Channels have a
capacity, frames and messages are numbered, and `shown` and `written` are the last ones that
arrived at either end.

**Screen.** `lines` are the conversation's lines as `render_conversation` lists them, each by the
number of characters appended to it. `grid` is the backend's, and what ratatui compares with; a row is what it holds
(a line, the cursor's line, nothing), not its characters. `glyphs` are `row_buffers`, `block` the
rectangle of the cursor, `presented` whether the frame on the screen shows both.
`Redraw` is `terminal.draw`, `take_dirty_rows` and `paint` in one step, as in `redraw`,
with a frame, without one, or with text that cannot be prepared.

**Boot.** `pc` names what boot awaits; `apply` is the stretch of synchronous `.sql`
migrations, in which no handler runs and the lock's timer neither, so that
the lock can go stale there. `rel` is the state of `release`. Each signal starts
a `shutdown` of its own beside boot.

**Editor.** The text is a sequence of characters, a position an offset in bytes.
A slice at a position inside a character or outside the text is `panicked`.

**Keys.** `WindowOp` and `TerminalOp` are the two tables from a key with modifiers to an operation
of the line; `Ops` is what either can ask for, which is what the steps use. `tty` is the
terminal's mode; each step of the terminal build's start may return an error.

**Panes.** No state: a text is its width in characters, a line the widths of its spans. The
texts are those of `AppState::default`, the only ones the code has.

**InputLine.** `prev` is the row in ratatui's previous buffer, `row` the one in the backend's
grid, cell by cell; `Redraw` is the widget, `Buffer::diff`, `Backend::draw` and `Grid::set`. A
redraw may come after one key or after many, with the cursor on or off. `White` and `InkOf`
are the painter's rectangles and spans. The terminal build's drawing is modelled for its panic only.

## 3. The runs

| run | bounds | what it shows |
|---|---|---|
| `EventLogRun` | 4 appends, 3 of them in flight at once; files of 2 lines, 6 names; 2 lives; one line too long to read back | `FanoutDurable`, `SeqUniqueUnlessStale`, `OnlyOpenerLate`, `LogKept`, `OlderFilesFrozen`, `AppendSettles` |
| `ListenerRun` | 3 sockets, 2 signals | `LiveIsRegistered`, `ClosingRegisteredWasRefused`, `ClientFollowsRegistry`, `SilentClosed`, `ShutdownStallsOnlyByHello` |
| `DeliveryRun` | 2 events, a ring of 1, 3 connections | `BatchComplete`, `LossHasCause`, `NeverAheadOfLog`, `EventArrives` |
| `TurnRun` | 2 runs of one event, 2 messages, 1 abort, 2 connections | `StatusTracksRun`, `EventAfterRunning`, `ShownUnlessMissed`, `AbortEndsIdle` |
| `ClientNetRun` | channels of 1, 2 frames, 2 messages, 2 connections | `InOrder`, `FailedOnlyWhenTold`, `KeptWhileConnected`, `SilenceNoticedUnlessWedged`, `HandshakeWaitsOnlyForServer`, `WindowGoesOn` |
| `BootRun` | 2 processes, 2 files (one `.ts`), one backup kept, 2 signals each | `LockHeldWhileOpen`, `ReadyIsMigrated`, `LockLeftOnlyInHaste`, `BatchUndoable` |
| `InputRun` | lines of up to 3 bytes over one one-byte, one two-byte, one wide three-byte and one blank character; windows of 34 and 36 columns, 4 and 6 of them inside the input line's borders; strips in windows of up to 146 | `CursorOnBoundary`, `AnchorLostOnlyForward`, `WordsMet`, `TextOnly`, `LineShown`, `TtyGivenBack`, `StripsFit` |
| `ScreenRun` | 3 keys, events or resizes; 2 heights, 2 font sizes: grids of 1 to 3 rows, one of them the input line; offsets up to 3, cut at 2; results folded at 1 line | `StaleOnlyIfLost`, `NextStartSameSize`, `ScreenCatchesUp` |
| `EventLogReuse` | 2 appends one at a time, files of 1 line, 2 lives | `SeqUnique` fails |
| `DeliveryLoss` | 3 events, 1 connection | `NoLoss` fails |
| `ClientNetWedged` | channels of 1, 2 frames, 2 messages | `SilenceNoticed` fails |
| `EditorAnchor` | as `InputRun`, one width | `AnchorOnBoundary` fails |

`ScreenRun` checks the module's `TypeOK` as well. It is proved for `Screen` and for `EventLog`, `Listener`,
`Delivery`, `Turn`, `ClientNet`, `Boot` and `Editor`. No run checks for deadlock: all models stop where their bounds, the user or the network do.

Why the bounds are enough. Three appends in flight are what it takes for one to open a
file, one to write ahead of it and one to rotate under both, and the fourth comes after a
restart or a rotation; two lines in a file
make a second rotation start before the first ends. Three sockets: a live one,
its successor, and a late one that was refused. Two events are enough for
one that is late, for a number given twice, for a last seq that goes back and, with a ring of one, for an event that only the log has;
three connections are a Resume of each of two generations and one more to make good, or not, what the second
lost. (The same invariants hold with three events and two connections, in 1.4 million states.) Two runs make an old abort settle in a newer run. Channels of
one are full as soon as anything waits, which 64 are in a long outage. Two
processes make one successor and one thief of a stale lock, and two files a
batch that fails in its middle. Three bytes hold a wide character, a two-byte one next to a blank or
a narrow one, and a word boundary on either side; a window of 36 columns shows all of these with the
cursor behind, one of 34 cuts them off, a wide character in its middle included, and from the one to
the other the grid starts over. (With four bytes and one width `InputRun` passes too, as does
`ClientNetRun` with up to four messages or three frames.) The strips are all whole from 139 columns on; they are of one-cell characters, and windows of less than 32 columns are left out. A grid of one row has no pane, one of two
shows one line, one of three scrolls; a redraw may come between any two handlers, so that
three of them make a resize that is unsettled while the font changes and a line arrives.

Fairness. `EventLog`: the event loop and the thread pool serve what is queued,
one condition for each call and each file; nothing makes the agent emit or the process start.
`Listener`: the timers of the handshake and the sweep fire, a closing handshake
ends (`ws` has a timer for that), and `wss.close` completes when no connection is left. `Delivery`:
both processes run, lines are written and appends return, and the reconnect loop connects again while connections
last; nothing makes the agent emit, and cuts and restarts are never forced and never excluded. `Turn`: the SDK
settles an abort. `ClientNet`: both tasks are polled; a branch of a `select!` that is ready again and again
is taken (strong fairness: tokio picks among ready branches at random); an answer to a handshake, or the end of
its connection, is read when it has arrived; the blocked window goes on when its send is done. The server and
the network need never do anything. `Boot`, `InputLine`: none, they state no liveness. `Screen`: the timers of blinking and resizing fire; a redraw that is asked for takes place, and
of those asked for again and again one gets a frame now and then (strong fairness: a surface
that was lost is configured again at once).

## 4. Where code and documents part

The four runs that end in a violation:

- `EventLogReuse` (`log.ts:45`): after a rotation, or a start that wrote nothing,
  the newest file is empty; `readLastSeq` gives null and numbering starts again at 1.
- `DeliveryLoss` (`main.rs:277`): a live event that comes before the batch moves
  `last_seq`; if the connection is lost then, the batch is never asked for again.
- `ClientNetWedged` (`client.rs:111`): the task waits for room in one channel, the
  loop in the other, each the only one to make room; no heartbeat runs any more.
- `EditorAnchor` (`editor.rs:153`): a forward delete under a selection leaves the anchor
  outside the text, and the next redraw slices there.

Other disagreements met while modelling. The behaviour is in the models; the property that
the passing run checks is what remains true of it.

- `log.ts:113`: appends write ahead of the one that awaits the open of the file, so
  that seq 2 is logged and sent before seq 1 (`agent-session/spec.md:32`: strictly
  increasing). If the connection is cut between the two, the client asks for what comes after 2 and never sees 1; if it is not,
  `last_seq` goes back to 1, and the next answer brings 2 a second time. Remains: `OnlyOpenerLate`, and `LossHasCause`, which has
  this as its second cause. A start that gives numbers out again (`log.ts:45`) is the third: a client with a larger `last_seq`
  never asks for the new events, and the ring withholds from a batch whatever shares a number with a line.
- `log.ts:140`: an append while `rotate` awaits `end()` writes to the ended stream, and
  its rejection ends the process (`agent-session/spec.md:66`: written to the new file). Remains: `FanoutDurable`.
- `server.ts:113`: a `Hello` read after the socket was refused replaces the live client
  (`wire-transport/spec.md:114`). Remains: `ClosingRegisteredWasRefused`.
- `server.ts:222`: a socket that authenticates during shutdown keeps `close` from ever
  completing (`server-runtime/spec.md:115`). Remains: `ShutdownStallsOnlyByHello`.
- `server.ts:138`: live events are sent right after `Welcome`, before the batch
  (`wire-transport/spec.md:228`), and `server.ts:251`: one sent live during the scan is
  in the batch again and shown twice (`agent-session/spec.md:98`). Remains: `LossHasCause`.
- `server.ts:251`: a batch has a hole if more than the ring arrived during a scan that
  missed it, and when a late line was not written yet (`agent-session/spec.md:92`). Remains: `BatchComplete`, of what
  had been fanned out.
- `reconnect.rs:105`: the end of the channel may be seen before close code 4002, and the
  loop retries (`wire-transport/spec.md:104`). Remains: `FailedOnlyWhenTold`.
- `reconnect.rs:110`: what is taken for a connection that has ended is dropped
  (`reconnect.rs:24`: buffered while disconnected). Remains: `KeptWhileConnected`.
- `session.ts:155`: a run's idle overtakes its last events (`agent-session/spec.md:117`).
  Remains: `EventAfterRunning`.
- `main.rs:258`: the status in `Welcome` is not looked at (`wire-transport/spec.md:153`);
  after a reconnect during a run Escape does nothing. Remains: `ShownUnlessMissed`.
- `paint.rs:271`: when the frame cannot be had, the rows are no longer dirty (`backend.rs:60`)
  and stay as they were until they change again; right after a resize that is the whole
  window but for what scrolls (`client-runtime/spec.md:60`: the next frame renders). Remains:
  `StaleOnlyIfLost`, `ScreenCatchesUp`.
- `main.rs:429`: Cmd+Q leaves without saving a change of the font size that is less than
  half a second old; closing the window saves it. Remains: `NextStartSameSize`.
- `main.rs:505`: the offset counts from the top, but Up adds to it: Up moves the view down, Down moves it up,
  and follow mode resumes at the top (`conversation-pane/spec.md:36`). In `Screen`, stated by no property.
- `conversation.rs:183`: the offset is cut to 16 bits, so that with 65536 lines above the pane follow mode
  shows the oldest. Remains: `ScreenCatchesUp`, which asks for the newest line below that only.
- `lock.ts:73`: a killed server blocks its successor until its lock is ten seconds old
  (`server-runtime/spec.md:129`: kernel-released); a second signal exits in the middle of the removal
  (`server-runtime/spec.md:65`: acquired without manual intervention). Remains: `LockLeftOnlyInHaste`.
- `index.ts:107`: a signal during boot closes the database under it, and boot's catch may
  exit with 1 first (`server-runtime/spec.md:115`: status zero). In `Boot`, stated by no property.
- `keys.rs:71`: Cmd+W is translated and nobody handles it (`lib.rs:128`, the legend: quit;
  `client-ui/spec.md:201` and `:208`: MUST quit). In `Keys`, stated by no property.
- `main.rs:699`: in the terminal build Escape quits when no agent is running, and Ctrl with a letter of no meaning
  types the letter. In `Keys`, stated by no property.
- `main.rs:755`: the terminal build's arrow keys never extend a selection, so that its Ctrl+C and Ctrl+X never have
  anything to copy (`client-ui/spec.md:247`). In `Keys`, stated by no property.
- `main.rs:631`: when the start of the terminal build fails halfway, the terminal stays raw or on the alternate
  screen. Remains: `TtyGivenBack`, of a client that got as far as its loop.
- `paint.rs:425`: ratatui does not write the cell that a wide character hides, the grid keeps what was there, and the
  row's text contains both: after "aa", Enter and a wide character the line reads as that character and an a.
  Remains: `LineShown`, which asks for what the characters' own cells hold.
- `input.rs:24`: a line longer than its pane is cut, the cursor with it, without scrolling; a selection of no
  characters hides the cursor; of a selected wide character half is highlit. In `InputLine`; `LineShown` asks for
  the columns that fit.
- `tabs.rs:82`, `legend.rs:43`: not cells but spans are taken off for the mark, so that half a cell or a separator may be
  left before it (their comments: the rightmost cells are dropped). Remains: `StripsFit`.
- Read, not modelled: the server's logger prunes to seven files and then opens today's (`server-runtime/spec.md:69`: the
  last seven are kept); an undecodable frame after authentication is ignored
  (`wire-transport/spec.md:16`: closed with 1003); Abort on an idle session reaches the SDK
  (`wire-transport/spec.md:195`: not called); under the scripted stub an abort misses a walk that awaits an
  append (`session.ts:130`), and the first of two walks to end says idle for both (`session.ts:173`);
  the tab column starts again with each text delta (`conversation.rs:73`).

## 5. What is proved

The runs check small instances; these hold for every value of the constants.

| theorem | states |
|---|---|
| `EventLogProofs!TypeCorrect` | `Spec => []TypeOK` |
| `EventLogProofs!AnnouncedIsDurable` | `Spec => []FanoutDurable` |
| `EventLogProofs!SeqReusedOnlyAfterStaleStart` | `Spec => []SeqUniqueUnlessStale` |
| `EventLogProofs!ImplementsJournal` | `Spec => LogKept`, which is `Journal`'s specification |
| `EventLogProofs!OldFilesAreFrozen` | `Spec => OlderFilesFrozen`, an action property |
| `EventLogProofs!OnlyOpenersAreLate` | `Spec => []OnlyOpenerLate` |
| `EventLogProofs!NoAppendForgotten` | `Spec => []NoneForgotten` |
| `ListenerProofs!TypeCorrect` | `Spec => []TypeOK` |
| `ListenerProofs!OneLiveClient` | `Spec => []LiveIsRegistered` |
| `ListenerProofs!ClosingWasRefused` | `Spec => []ClosingRegisteredWasRefused` |
| `ListenerProofs!ClientFollows` | `Spec => []ClientFollowsRegistry` |
| `ListenerProofs!NobodyOverlooked` | `Spec => []OpenIsWatched` |
| `DeliveryProofs!Types` | `Spec => []TypeOK` |
| `DeliveryProofs!BatchesAreComplete` | `Spec => []BatchComplete` |
| `DeliveryProofs!LossesHaveCauses` | `Spec => []LossHasCause` |
| `DeliveryProofs!NeverAhead` | `Spec => []NeverAheadOfLog` |
| `DeliveryProofs!RestsComplete` | `Spec => []AllShownAtRest` |
| `ClientNetProofs!Types` | `Spec => [](TypeOK /\ Passing)` |
| `ClientNetProofs!GivesUpWhenTold` | `Spec => []FailedOnlyWhenTold` |
| `ClientNetProofs!NothingOvertakes` | `Spec => []InOrder` |
| `ClientNetProofs!WaitingIsKept` | `Spec => KeptWhileConnected`, an action property |
| `ClientNetProofs!OnlyTheWedgeStalls` | `Spec => []WaitOnlyWedged` |
| `TurnProofs!Types` | `Spec => [](TypeOK /\ Counted)` |
| `TurnProofs!StatusOfRun` | `Spec => []StatusTracksRun` |
| `TurnProofs!ShowsStatus` | `Spec => []ShownUnlessMissed` |
| `TurnProofs!AnnouncedFirst` | `Spec => []EventAfterRunning` |
| `BootProofs!TypesAndFiles` | `Spec => [](TypeOK /\ AppliedPrefix)` |
| `BootProofs!LockWhileOpen` | `Spec => []LockHeldWhileOpen` |
| `BootProofs!LockLeft` | `Spec => []LockLeftOnlyInHaste` |
| `BootProofs!ReadyMigrated` | `Spec => []ReadyIsMigrated` |
| `BootProofs!UndoBatch` | `Spec => BatchUndoable`, an action property and an invariant |
| `ScreenProofs!TypeCorrect` | `Spec => []TypeOK` |
| `ScreenProofs!StaleRowsWereLost` | `Spec => []StaleOnlyIfLost` |
| `ScreenProofs!FontSizeKept` | `Spec => []NextStartSameSize` |
| `ScreenProofs!RestsCurrent` | `Spec => []CurrentAtRest` |
| `InputProofs!TypeCorrect` | `LineSpec => []TypeOK`, of `Editor` |
| `InputProofs!CursorStaysOnBoundary` | `LineSpec => []CursorOnBoundary` |
| `InputProofs!AnchorLost` | `LineSpec => []AnchorLostOnlyForward` |
| `InputProofs!TtyIsGivenBack` | `LineSpec => []TtyGivenBack` |
| `InputProofs!ImplementsText` | `LineSpec => TextOnly`, which is `EditorText`'s specification |
| `InputProofs!WordsAreMet` | `LineSpec => []WordsMet` |
| `InputProofs!LineIsShown` | `LineSpec => []LineShown` |
| `InputProofs!StripsAreWhole` | `LineSpec => []StripsFit` |

Assumptions: `EventLogAssumption` (bounds are natural numbers, a file holds a line at
least), `ListenerAssumption` (`None` is no socket, `AllowNull` a Boolean), `DeliveryAssumption` (a ring of one
event or more), `ClientNetAssumption` (channels of one frame or more), `TurnAssumption` (bounds are natural numbers),
`BootAssumption` (there is a migration, one backup is kept at least, `None` is no process),
`ScreenAssumption` (sizes are natural numbers, the default size is in range, and in every window there is room for the
strips at every font size), `EditorAssumption` (the four kinds of characters have none in common,
`None` is no offset) and `InputLineAssumption` (the pane has room for the prompt; there is a blank). Nothing
is assumed of the number of calls, sockets, files, lives, processes, connections or rows, or of the characters and the
length of a line. The theorems are about `Spec`, without fairness.

*Event log.* `FanoutDurable` is not inductive: it says nothing of an append that has not
returned. `DurInv` adds that the line of each call whose write callback is due or that is in a rotation is on
disk already (`Acked`, `Rotating`), so that each of the three places where a call returns
finds its line there, and that a call that was announced no longer changes
its seq (`Announced`). Both need `QueueInv`: a call whose line waits in a buffer has started, and
waits in one buffer, once (`BufStarted`, `BufOnce`). `SeqUniqueUnlessStale` needs `SeqInv`: unless a
start was stale, everything on disk or on its way there is below `nextSeq`, what is on its way is not on disk
yet, and no two calls on their way share a seq (`Fresh`); after a crash nothing is on its way (`DownIdle`),
which is why only `Open` can break it.

*Journal.* Every step of `EventLog` is one of `Journal`'s or a stutter: `Flush` stores, the last step of `append`
announces, whichever of two places that is. `JInv` adds to `DurInv` what makes the mapping a function of the past: a line on disk
is that of a call that started and bears its seq (`LineOfCall`), so that a call that takes a seq is not stored by
accident and a start goes on behind a stored event; and a call whose line or write callback waits is `writing`
and waits once (`WriteInv`), so that what is stored or announced is pending and not lost already.
For `OlderFilesFrozen`, `FilesInv`: files are made one after the other and what waits to be written waits at the newest
(`CurrentIsNewest`, `WaitsAtCurrent`), which needs that calls in a rotation are there together (`RotatorsTogether`) and
that the call that opens a file waits in front of all others (`OpenerFirst`). For `OnlyOpenerLate`, `LateInv`: every seq on
disk, in a buffer or in a call that has yet to write is below `nextSeq`, and a call that stands behind a larger one on
its way to the disk is an opener (`LateOnItsWay`).

*Listener.* `LiveIsRegistered` is kept by `IInv`: only sockets that authenticated are registered or
served (`AuthIsOwn`, `AuthedConnected`), a registered socket is the one
served (`AuthIsClient`), and a socket that is closing was given a code (`CodeTold`). `JInv`
adds why it was closed: not yet authenticated means refused with 4401 or 4408 (`RefusedEarly`), which
excludes every other way in which a registered socket can be closing.

*Delivery.* `Inv` has three parts. `ServerInv`: what manager and client know of is in the log (`InLog`); every number the client
counts from, now or once it has shown what is under way, is that of a line (`Mark`, `MarksInLog`), which is
`NeverAheadOfLog`; a batch brings nothing from before its Resume (`BatchesAfter`); new numbers are larger than all those of the log until
a start reuses some (`NumbersBelow`); and what a scan under way cannot find any more is shown, under way or not fanned out
yet (`ScansSee`).

`RingInv` gives `BatchComplete`: the ring is the end of what was fanned out (`RingIsEnd`); what was fanned out before a scan began it
finds, and while the ring is not full it holds everything fanned out since (`Hears`). The lines themselves may have holes:
`BatchComplete` speaks of events by then fanned out, wherever in `disk` they are.

`LossHasCause` speaks of a client that nothing is owed to; to prove it one has to say what is so while something is.
`Tracked` does, as long as there is no cause: while the connection is up every event of the log, and without one every
event that any mark is past, is held (shown, or in a frame on the client's road), wanted (a Resume or a scan is from before it), to be
asked for by a `Welcome` that nothing before it takes the client past, or awaited live. To keep that over cuts one needs what a batch may leave
out of the range that it takes `last_seq` over: what came on the road before it or comes live (`Filled`), and that without a
connection nothing unwritten is below a mark (`UnwrittenAhead`). `Cut` is where causes arise: `CutStep` shows
that a cut that adds neither the first nor the second leaves every event held or ahead of every mark, `RestartStep` the same of a start that
does not add the third. Nothing is assumed of the order of numbers, of lines or of callbacks.

*Client network task.* `TaskInv` says of task and loop what their places imply: no task without a connection
(`NoTaskOutside`), each passes on only what it has taken (`Passing`), a heartbeat that gives up ends the task (`Patient`),
and its close code is known only when it is over (`CloseEnds`). `ToldInv` adds that a terminal code in the loop's hands is one that the server
sent. `InOrder` is proved twice, for frames and for messages (`FramesInOrder`, `MessagesInOrder`), over the whole way that
they take, the places between two sends included. `KeptWhileConnected` follows from `TaskInv`.

*Turn.* Status and run part only where an abort settles: `StatusTracksRun` is inductive with the type invariant, which counts
what is under way (`Counted`). For `ShownUnlessMissed` the last status under way, or else the one shown, is the session's
(`LastIsCurrent`). For `EventAfterRunning` an event that waits for its append belongs to a run that has started
(`StartedRuns`), and a run announced on this connection is announced among the frames sent on it (`AnnouncedHere`, `Connections`).

*Boot.* `FileInv`: the rows of `_migrations` are those of the first files (`AppliedPrefix`), what a process has pending is a tail of
the files (`PendingTail`), and only a signal makes it close (`ClosingSignalled`). `LockInv`: unless the lock was stolen, who has got it
and not yet given it back owns it (`OwnerHasLock`), and the database is open only between the assignment of `release` and its call
(`OpenWhileSet`). `HasteInv` adds that outside boot's catch a shutdown calls `release` (`StartedBySignal`).
`ServeInv`: who is past its migrations found none left (`PastMigrations`), and only then is there a listener (`ListenerLast`).
`BackupInv`: who commits next has a backup that lacks its own commits only (`NextUndoable`), and the newest backup is
that of the process with the database open (`NewestIsOwn`), which is why pruning spares it.

*Screen.* Both invariants are inductive with the type invariant. The lemmas say that the
layout of every window has room for the strips, that a redraw writes every row, and that a size read back from the file is
the size that was written.

*Input line.* Offsets grow with the number of characters before them, by the bytes of each (`AtGrows`), so that a boundary
and its number of characters determine each other (`BoundaryFacts`). Every operation is then one of four: a movement to a
boundary, text put in the place of what is between two boundaries of which the cursor is one, the sending of the line, or
a slice at an anchor that is lost (`EditShape`). `LineInv` is kept by each of the four: to `CursorOnBoundary` and
`AnchorLostOnlyForward` it adds types only. `TtyInv` says why no key of the terminal build ends in a panic: its table has
no key that extends a selection (`TerminalNeverExtends`), so that it never has one. For `TextOnly` each of the four is a step of
`EditorText` or a stutter, on the two sides of the cursor (`ReplacedFacts`). For `WordsMet` a run of characters ends where the
line does or another kind follows (`RunEndFacts`, `RunStartFacts`), and two runs make a word. For `LineShown`, `RowInv`: what
the grid holds is what ratatui drew last, except behind a wide character. Glyphs start one behind the other, each where
the one before it ends (`PlacesApart`), so that no glyph is ever behind a wide one (`NotHidden`) and each is in the grid after
a redraw (`GlyphsAreShown`); and the white ground is that of the reversed cells, run by run (`WhiteIsReversed`).
For `StripsFit` the width of a strip is a fold over its spans, and a fold is a recursive function: that it adds up
(`WidthAdds`) is shown from the first place at which it would not (`FirstMissing`), and so is that the spans of all tabs
joined are spans (`FlattenIsSeq`). What the loop that cuts a strip keeps is then within the pane (`MarkedFits`), in every window of 32 columns or more.

*What can still happen.* A liveness property fails in one of two ways: a state is reached in which nothing that would help
is due any more, or what is due is put off for ever. The first is a matter of states, and for most of the liveness properties
five theorems exclude it, for all values of the constants:

- `NoAppendForgotten` (of `AppendSettles`): the call that writes is in one queue (`Queued`), and the stream of a line that
  waits is not finished yet (`BufLive`); those that open or rotate wait for a stream that `RotatorsTogether` says is the current one
  or finished. So one of `FileOpened`, `Flush`, `Written` and `Finish` is due at the stream that the call waits for, or its
  continuation is queued. A continuation in `rotate` opens a file, of which the model has `MaxFiles`.
- `NobodyOverlooked` (of `SilentClosed`, `ShutdownStallsOnlyByHello`): the handshake timer stops only with a close or a Hello
  (`OpenIsTimed`), and who said Hello and is open is the registered one.
- `RestsComplete` (of `EventArrives`): with the connection up and nothing under way or to be fanned out, `Tracked` leaves nothing by which an
  event that is not held would still be brought, so that all are held, if no cause arose.
- `OnlyTheWedgeStalls` (of `SilenceNoticedUnlessWedged`, `WindowGoesOn`): a full channel is one whose reader has a branch that is
  ready, but for the two that wait for each other; and the loop stops only when the window sends no more (`StoppedIsDone`).
- `RestsCurrent` (of `ScreenCatchesUp`): without a redraw asked for, another one would change nothing (`NothingToDraw`), and then
  `StaleOnlyIfLost` makes the painter's rows the grid's.

Only model-checked is the second: that what is due takes place under the fairness of each module (`AppendSettles`,
`SilentClosed`, `ShutdownStallsOnlyByHello`, `EventArrives`, `AbortEndsIdle`, `SilenceNoticedUnlessWedged`,
`HandshakeWaitsOnlyForServer`, `WindowGoesOn`, `ScreenCatchesUp`), which is out of the proof system's reach. Nothing is claimed of it
beyond the runs' bounds.

## 6. What is not modelled

- The codec is a pair of pure functions; the logger's files matter to nothing else; migration scripts are
  tools of developers; the sidebar is an empty frame.
- The terminal variant's handling of messages and of the scroll keys, which repeats the window's line by line.
- Input line: Tab and control characters, of which ratatui makes no cell; what cosmic-text makes of a row's text
  behind a wide character; colours other than those of a reversed cell.
- The scripted stub of the agent is for tests of the server; `Turn` takes the SDK as external.
- The server's configuration: `loadConfig` runs once before anything else, and `Boot` takes it as returning or
  throwing; its choice between file, default and refusal is planned.
- Event log: what the operating system had not written when the machine loses power (the model's
  crash is that of the process), a clock set back or two files named in one
  millisecond, and reading for `replay` line by line (`Delivery` takes its result).
- Delivery: that an event brought twice is shown twice (the conversation is a set), and files, whose order is that of the lines.
- Listener: errors of a single socket, and the compression and framing of `ws`.
- Network task: the lengths of the waits between attempts have unit tests.
- Screen: a preference file that cannot be written, windows shorter than the strips, widths,
  colours and the shapes of glyphs.

## 7. Plan

Done, in the order of what matters most: `EventLog`, `Listener`, `Delivery`, `ClientNet`, `Turn`,
`Editor` with `EditorText`, `Boot`, `Screen`; then the handshake and the window's thread in `ClientNet`,
`Keys`, `Panes` and `InputLine`, and `Journal`; proofs of every safety property of every run, that
`EventLog` implements `Journal` and `Editor` implements `EditorText` included, and that no
reachable state is a dead end for appends, sockets, events, network tasks or the screen.

Next, modelling:

1. the configuration's choices, and what undecodable frames do on both sides;
2. `Delivery` composed with `Journal` in place of its own log, and an abstract specification of what it promises.

Next, proofs: of what the second of these will state.
