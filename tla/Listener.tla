------------------------------ MODULE Listener ------------------------------
(* The WebSocket listener of pi-oven-server (net/server.ts): the handshake on *)
(* each socket, the one authenticated socket per shared key, the heartbeat    *)
(* sweep and the shutdown. Each handler is synchronous, hence one action.     *)
(*                                                                            *)
(* The ws library: close() only starts the closing handshake. Frames already  *)
(* on their way still reach the "message" handler of a closing socket, and    *)
(* what is sent on it is dropped.                                             *)
EXTENDS Naturals, FiniteSets

CONSTANTS Sock,         \* the sockets that may ever connect
          None,         \* no socket
          AllowNull,    \* allow_null_origin
          MaxSignals    \* bound: SIGINT and SIGTERM received

ASSUME ListenerAssumption ==
  None \notin Sock /\ AllowNull \in BOOLEAN /\ MaxSignals \in Nat

VARIABLES
  ws,         \* readyState of each socket, "none" before it connects
  code,       \* the code the server closed it with, 0 if it did not
  authed,     \* authenticated_this of each connection's closure
  armed,      \* the connection's handshakeTimer is running
  auth,       \* authenticated.get(shared_key)?.ws
  quiet,      \* the entry's lastSeenAt is more than IDLE_TIMEOUT_MS ago
  connected,  \* WorkspaceManager.connectedWs
  phase,      \* of the server: listening, closing, closed
  signals     \* shutdown signals received

vars == <<ws, code, authed, armed, auth, quiet, connected, phase, signals>>

Origin == {"null", "loopback", "listed", "other"}
CloseCode == {0, 1001, 4001, 4002, 4401, 4408}

TypeOK ==
  /\ ws \in [Sock -> {"none", "open", "closing", "closed"}]
  /\ code \in [Sock -> CloseCode]
  /\ authed \in [Sock -> BOOLEAN] /\ armed \in [Sock -> BOOLEAN]
  /\ auth \in Sock \cup {None} /\ connected \in Sock \cup {None}
  /\ quiet \in BOOLEAN
  /\ phase \in {"listening", "closing", "closed"} /\ signals \in 0..MaxSignals

Init ==
  /\ ws = [s \in Sock |-> "none"] /\ code = [s \in Sock |-> 0]
  /\ authed = [s \in Sock |-> FALSE] /\ armed = [s \in Sock |-> FALSE]
  /\ auth = None /\ connected = None /\ quiet = FALSE
  /\ phase = "listening" /\ signals = 0

-----------------------------------------------------------------------------
(* Closing sockets                                                            *)

\* ws.close(n) on the sockets of S: the first close of an open socket counts.
StartClose(S, n) ==
  /\ ws' = [s \in Sock |-> IF s \in S /\ ws[s] = "open" THEN "closing" ELSE ws[s]]
  /\ code' = [s \in Sock |-> IF s \in S /\ ws[s] = "open" THEN n ELSE code[s]]

Registered == {auth} \ {None}

\* The "close" event: only the registered socket clears the registration.
Unregister(s) ==
  IF auth = s THEN auth' = None /\ connected' = None ELSE UNCHANGED <<auth, connected>>

\* The peer or the network ends the connection, or the closing handshake ends.
SocketClosed(s) ==
  /\ ws[s] \in {"open", "closing"}
  /\ ws' = [ws EXCEPT ![s] = "closed"]
  /\ armed' = [armed EXCEPT ![s] = FALSE]
  /\ Unregister(s)
  /\ UNCHANGED <<code, authed, quiet, phase, signals>>

-----------------------------------------------------------------------------
(* Connection and handshake                                                   *)

IsAllowedOrigin(o) == o \in {"loopback", "listed"} \/ (o = "null" /\ AllowNull)

Connect(s, o) ==
  /\ phase = "listening" /\ ws[s] = "none"
  /\ IsAllowedOrigin(o)
  /\ ws' = [ws EXCEPT ![s] = "open"]
  /\ armed' = [armed EXCEPT ![s] = TRUE]
  /\ UNCHANGED <<code, authed, auth, quiet, connected, phase, signals>>

HandshakeTimeout(s) ==
  /\ armed[s]
  /\ armed' = [armed EXCEPT ![s] = FALSE]
  /\ IF authed[s] THEN UNCHANGED <<ws, code>> ELSE StartClose({s}, 4408)
  /\ UNCHANGED <<authed, auth, quiet, connected, phase, signals>>

\* A frame may reach the handler of s, before or after s authenticated.
Receives(s) == ws[s] \in {"open", "closing"}

\* The first frame is no Hello, cannot be decoded, or carries the wrong key.
Reject_TimerOnly(s) == UNCHANGED <<ws, code>>
Reject(s) == StartClose({s}, 4401)

BadHello(s) ==
  /\ Receives(s) /\ ~authed[s]
  /\ armed' = [armed EXCEPT ![s] = FALSE]
  /\ Reject(s)
  /\ UNCHANGED <<authed, auth, quiet, connected, phase, signals>>

\* The older registered socket, of the same key, is replaced.
Replace_Silently(s) == UNCHANGED <<ws, code>>
Replace(s) == StartClose(Registered, 4002)

\* setClient(null) for the socket replaced, then setClient(ws).
SetClient_BeforeNull(s) == connected' = IF auth # None THEN None ELSE s
SetClient(s) == connected' = s

Hello(s) ==
  /\ Receives(s) /\ ~authed[s]
  /\ armed' = [armed EXCEPT ![s] = FALSE]
  /\ Replace(s)
  /\ auth' = s /\ quiet' = FALSE
  /\ authed' = [authed EXCEPT ![s] = TRUE]
  /\ SetClient(s)
  /\ UNCHANGED <<phase, signals>>

-----------------------------------------------------------------------------
(* An authenticated connection                                                *)

\* Any frame refreshes the entry of the key, whichever socket it came on. What
\* Send, Abort and Resume do to the session is in modules Turn and Delivery.
Frame(s) ==
  /\ Receives(s) /\ authed[s]
  /\ quiet' = FALSE
  /\ UNCHANGED <<ws, code, authed, armed, auth, connected, phase, signals>>

\* IDLE_TIMEOUT_MS pass without a frame.
Silence ==
  /\ auth # None /\ ~quiet
  /\ quiet' = TRUE
  /\ UNCHANGED <<ws, code, authed, armed, auth, connected, phase, signals>>

Forget_Later == UNCHANGED auth
Forget == auth' = None

Idle_Fresh == ~quiet
Idle == quiet

Sweep ==
  /\ phase = "listening" /\ auth # None /\ Idle
  /\ StartClose(Registered, 4001)
  /\ Forget
  /\ UNCHANGED <<authed, armed, quiet, connected, phase, signals>>

-----------------------------------------------------------------------------
(* Shutdown: each signal calls close() again                                  *)

Stops_UnderSweep == UNCHANGED <<ws, code>>
Stops == StartClose(Registered, 1001)

Shutdown ==
  /\ phase \in {"listening", "closing"} /\ signals < MaxSignals
  /\ signals' = signals + 1
  /\ phase' = "closing"
  /\ Stops /\ Forget
  /\ UNCHANGED <<authed, armed, quiet, connected>>

\* wss.close completes when no connection is left.
Closed ==
  /\ phase = "closing"
  /\ \A s \in Sock : ~Receives(s)
  /\ phase' = "closed"
  /\ UNCHANGED <<ws, code, authed, armed, auth, quiet, connected, signals>>

Next ==
  \/ Silence \/ Sweep \/ Shutdown \/ Closed
  \/ \E s \in Sock : \/ \E o \in Origin : Connect(s, o)
                     \/ SocketClosed(s) \/ HandshakeTimeout(s)
                     \/ BadHello(s) \/ Hello(s) \/ Frame(s)

Spec == Init /\ [][Next]_vars

\* Timers fire, a closing handshake ends (the library's own timer sees to it),
\* and the listener's close event follows the last connection's.
Fairness ==
  /\ WF_vars(Sweep) /\ WF_vars(Closed)
  /\ \A s \in Sock : /\ WF_vars(HandshakeTimeout(s))
                     /\ WF_vars(ws[s] = "closing" /\ SocketClosed(s))

FairSpec == Spec /\ Fairness

-----------------------------------------------------------------------------
(* Properties                                                                 *)

\* At most one client is live: an authenticated socket that the server has not
\* started to close is the registered one, also while the server shuts down.
LiveIsRegistered == \A s \in Sock : authed[s] /\ ws[s] = "open" => auth = s

\* A socket that is registered and yet closing was refused by its own handshake
\* and had its Hello read late; no other close can leave a registration behind.
ClosingRegisteredWasRefused ==
  auth # None /\ ws[auth] # "open" => ws[auth] = "closing" /\ code[auth] \in {4401, 4408}

AuthIsClient == auth # None => connected = auth
StaleClientWasDropped ==
  connected \notin {None, auth} => code[connected] \in {4001, 1001, 4401, 4408}

\* Through replacements, idle closes and late close events of older sockets, the
\* socket the manager fans events out to is the registered one. It is another one
\* only if the server itself dropped that, as idle or at shutdown; a connection
\* that ends is forgotten by the manager too.
ClientFollowsRegistry == AuthIsClient /\ StaleClientWasDropped

\* A socket nobody hears from: before its Hello the handshake timer runs against
\* it; once it is the client the sweep does, while the listener is up.
Silent(s) ==
  /\ ws[s] = "open"
  /\ authed[s] => auth = s /\ quiet /\ phase = "listening"

\* Such a socket speaks or is closed, whatever was registered or replaced meanwhile.
SilentClosed == \A s \in Sock : Silent(s) ~> ~Silent(s)

\* Once shutdown starts the listener closes, unless a connection authenticates
\* meanwhile: those open but silent are timed out, the others are closed.
ShutdownStallsOnlyByHello == phase = "closing" ~> phase = "closed" \/ auth # None
=============================================================================
