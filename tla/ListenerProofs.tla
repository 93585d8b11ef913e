--------------------------- MODULE ListenerProofs ---------------------------
(* The one-client invariants of module Listener, for any number of sockets:   *)
(* they are inductive together with the type invariant and AuthIsOwn. And     *)
(* that no open socket is without something that will close it.               *)
EXTENDS Listener, TLAPS

\* Every registered socket authenticated, and the manager's client is either
\* none or one that did.
AuthIsOwn == /\ auth # None => authed[auth]
             /\ connected # None => authed[connected]

\* A socket that authenticated has connected.
AuthedConnected == \A s \in Sock : authed[s] => ws[s] # "none"

\* A socket that is open was not closed, and one that is closing was given a
\* code: the code tells why the server dropped it.
CodeTold == \A s \in Sock : /\ ws[s] \in {"none", "open"} => code[s] = 0
                            /\ ws[s] = "closing" => code[s] # 0

IInv == /\ TypeOK /\ AuthIsClient /\ LiveIsRegistered
        /\ AuthIsOwn /\ AuthedConnected /\ CodeTold

-----------------------------------------------------------------------------
\* No handler leaves a variable outside its type (net/server.ts).
LEMMA TypeInit == Init => TypeOK
<1> SUFFICES ASSUME Init PROVE TypeOK
  OBVIOUS
<1> USE ListenerAssumption DEF Init
<1>1. /\ ws \in [Sock -> {"none", "open", "closing", "closed"}]
      /\ code \in [Sock -> CloseCode]
      /\ auth \in Sock \cup {None} /\ connected \in Sock \cup {None}
  BY DEF CloseCode
<1>2. authed \in [Sock -> BOOLEAN] /\ armed \in [Sock -> BOOLEAN] /\ quiet \in BOOLEAN
  OBVIOUS
<1>3. phase \in {"listening", "closing", "closed"} /\ signals \in 0..MaxSignals
  OBVIOUS
<1> QED
  BY <1>1, <1>2, <1>3 DEF TypeOK

\* What closing sockets does to the states of all sockets: only open ones of S
\* move, and only to closing.
LEMMA StartCloseType ==
  ASSUME NEW S, NEW n \in CloseCode, TypeOK, StartClose(S, n)
  PROVE  /\ ws' \in [Sock -> {"none", "open", "closing", "closed"}]
         /\ code' \in [Sock -> CloseCode]
         /\ \A s \in Sock : ws'[s] = "open" => ws[s] = "open" /\ s \notin S
         /\ \A s \in Sock : ws'[s] = "none" <=> ws[s] = "none"
BY DEF StartClose, TypeOK

\* What closing a socket does to the codes.
LEMMA StartCloseCode ==
  ASSUME NEW S, NEW n \in CloseCode \ {0}, TypeOK, CodeTold, StartClose(S, n)
  PROVE  CodeTold'
BY DEF StartClose, TypeOK, CodeTold, CloseCode

\* Each step keeps the types.
LEMMA TypeStep == TypeOK /\ [Next]_vars => TypeOK'
<1> SUFFICES ASSUME TypeOK, [Next]_vars PROVE TypeOK'
  OBVIOUS
<1> USE ListenerAssumption
<1>1. CASE Silence
  BY <1>1 DEF TypeOK, Silence
<1>2. CASE Sweep
  <2>1. StartClose(Registered, 4001) BY <1>2 DEF Sweep
  <2> QED BY <1>2, <2>1, StartCloseType DEF TypeOK, Sweep, Forget, CloseCode
<1>3. CASE Shutdown
  <2>1. StartClose(Registered, 1001) BY <1>3 DEF Shutdown, Stops
  <2> QED BY <1>3, <2>1, StartCloseType DEF TypeOK, Shutdown, Forget, CloseCode
<1>4. CASE Closed
  BY <1>4 DEF TypeOK, Closed
<1>5. ASSUME NEW s \in Sock, NEW o \in Origin, Connect(s, o) PROVE TypeOK'
  BY <1>5 DEF TypeOK, Connect
<1>6. ASSUME NEW s \in Sock, SocketClosed(s) PROVE TypeOK'
  BY <1>6 DEF TypeOK, SocketClosed, Unregister
<1>7. ASSUME NEW s \in Sock, HandshakeTimeout(s) PROVE TypeOK'
  <2>1. CASE authed[s]
    BY <1>7, <2>1 DEF TypeOK, HandshakeTimeout
  <2>2. CASE ~authed[s]
    <3>1. StartClose({s}, 4408) BY <1>7, <2>2 DEF HandshakeTimeout
    <3> QED BY <1>7, <3>1, StartCloseType DEF TypeOK, HandshakeTimeout, CloseCode
  <2> QED BY <2>1, <2>2
<1>8. ASSUME NEW s \in Sock, BadHello(s) PROVE TypeOK'
  <2>1. StartClose({s}, 4401) BY <1>8 DEF BadHello, Reject
  <2> QED BY <1>8, <2>1, StartCloseType DEF TypeOK, BadHello, CloseCode
<1>9. ASSUME NEW s \in Sock, Hello(s) PROVE TypeOK'
  <2>1. StartClose(Registered, 4002) BY <1>9 DEF Hello, Replace
  <2>2. /\ ws' \in [Sock -> {"none", "open", "closing", "closed"}]
        /\ code' \in [Sock -> CloseCode]
    BY <2>1, StartCloseType DEF CloseCode
  <2>3. authed' \in [Sock -> BOOLEAN] /\ armed' \in [Sock -> BOOLEAN] /\ quiet' \in BOOLEAN
    BY <1>9 DEF TypeOK, Hello
  <2>4. /\ auth' \in Sock \cup {None} /\ connected' \in Sock \cup {None}
        /\ UNCHANGED <<phase, signals>>
    BY <1>9 DEF Hello, SetClient
  <2> QED BY <2>2, <2>3, <2>4 DEF TypeOK
<1>10. ASSUME NEW s \in Sock, Frame(s) PROVE TypeOK'
  BY <1>10 DEF TypeOK, Frame
<1>11. CASE UNCHANGED vars
  BY <1>11 DEF TypeOK, vars
<1> QED
  BY <1>1, <1>2, <1>3, <1>4, <1>5, <1>6, <1>7, <1>8, <1>9, <1>10, <1>11 DEF Next

\* Type correctness of the listener.
THEOREM TypeCorrect == Spec => []TypeOK
BY TypeInit, TypeStep, PTL DEF Spec

-----------------------------------------------------------------------------
\* At the start no socket is registered.
LEMMA IInit == Init => IInv
<1> SUFFICES ASSUME Init PROVE IInv
  OBVIOUS
<1>1. TypeOK BY TypeInit
<1> QED
  BY <1>1 DEF Init, IInv, AuthIsClient, LiveIsRegistered, AuthIsOwn,
              AuthedConnected, CodeTold

\* Each step keeps who is registered, served and being closed.
LEMMA IStep == IInv /\ [Next]_vars => IInv'
<1> SUFFICES ASSUME IInv, [Next]_vars PROVE IInv'
  OBVIOUS
<1> USE ListenerAssumption
<1>0. TypeOK /\ TypeOK'
  BY TypeStep DEF IInv
<1> DEFINE Rest == /\ AuthIsClient /\ LiveIsRegistered /\ AuthIsOwn
                   /\ AuthedConnected /\ CodeTold
<1> SUFFICES Rest'
  BY <1>0 DEF IInv
<1>i. Rest
  BY DEF IInv
<1>1. CASE Silence
  BY <1>1, <1>i DEF Silence, AuthIsClient, LiveIsRegistered, AuthIsOwn,
                    AuthedConnected, CodeTold
<1>2. CASE Sweep
  <2>1. StartClose(Registered, 4001) BY <1>2 DEF Sweep
  <2>2. CodeTold' BY <1>0, <1>i, <2>1, StartCloseCode DEF CloseCode
  <2> QED
    BY <1>0, <1>i, <1>2, <2>1, <2>2, StartCloseType
    DEF Sweep, Forget, Registered, AuthIsClient, LiveIsRegistered, AuthIsOwn,
        AuthedConnected, CloseCode
<1>3. CASE Shutdown
  <2>1. StartClose(Registered, 1001) BY <1>3 DEF Shutdown, Stops
  <2>2. CodeTold' BY <1>0, <1>i, <2>1, StartCloseCode DEF CloseCode
  <2> QED
    BY <1>0, <1>i, <1>3, <2>1, <2>2, StartCloseType
    DEF Shutdown, Forget, Registered, AuthIsClient, LiveIsRegistered, AuthIsOwn,
        AuthedConnected, CloseCode
<1>4. CASE Closed
  BY <1>4, <1>i DEF Closed, AuthIsClient, LiveIsRegistered, AuthIsOwn,
                    AuthedConnected, CodeTold
<1>5. ASSUME NEW s \in Sock, NEW o \in Origin, Connect(s, o) PROVE Rest'
  BY <1>0, <1>5, <1>i DEF Connect, TypeOK, AuthIsClient, LiveIsRegistered, AuthIsOwn,
                    AuthedConnected, CodeTold
<1>6. ASSUME NEW s \in Sock, SocketClosed(s) PROVE Rest'
  BY <1>0, <1>6, <1>i DEF SocketClosed, Unregister, TypeOK, AuthIsClient,
     LiveIsRegistered, AuthIsOwn, AuthedConnected, CodeTold
<1>7. ASSUME NEW s \in Sock, HandshakeTimeout(s) PROVE Rest'
  <2>1. CASE authed[s]
    BY <1>7, <2>1, <1>i DEF HandshakeTimeout, AuthIsClient, LiveIsRegistered,
       AuthIsOwn, AuthedConnected, CodeTold
  <2>2. CASE ~authed[s]
    <3>1. StartClose({s}, 4408) BY <1>7, <2>2 DEF HandshakeTimeout
    <3>2. CodeTold' BY <1>0, <1>i, <3>1, StartCloseCode DEF CloseCode
    <3> QED
      BY <1>0, <1>i, <1>7, <3>1, <3>2, StartCloseType
      DEF HandshakeTimeout, AuthIsClient, LiveIsRegistered, AuthIsOwn,
          AuthedConnected, CloseCode
  <2> QED BY <2>1, <2>2
<1>8. ASSUME NEW s \in Sock, BadHello(s) PROVE Rest'
  <2>1. StartClose({s}, 4401) BY <1>8 DEF BadHello, Reject
  <2>2. CodeTold' BY <1>0, <1>i, <2>1, StartCloseCode DEF CloseCode
  <2> QED
    BY <1>0, <1>i, <1>8, <2>1, <2>2, StartCloseType
    DEF BadHello, AuthIsClient, LiveIsRegistered, AuthIsOwn, AuthedConnected,
        CloseCode
<1>9. ASSUME NEW s \in Sock, Hello(s) PROVE Rest'
  <2>1. StartClose(Registered, 4002) BY <1>9 DEF Hello, Replace
  <2>2. CodeTold' BY <1>0, <1>i, <2>1, StartCloseCode DEF CloseCode
  <2>3. /\ authed' = [authed EXCEPT ![s] = TRUE] /\ auth' = s /\ connected' = s
        /\ ws[s] # "none"
    BY <1>9 DEF Hello, SetClient, Receives
  <2>4. \A t \in Sock : ws'[t] = "open" => ws[t] = "open" /\ t \notin Registered
    BY <1>0, <2>1, StartCloseType DEF CloseCode
  <2>5. \A t \in Sock : ws'[t] = "none" <=> ws[t] = "none"
    BY <1>0, <2>1, StartCloseType DEF CloseCode
  <2>6. LiveIsRegistered'
    BY <1>0, <1>i, <2>3, <2>4 DEF LiveIsRegistered, Registered, TypeOK
  <2> QED
    BY <1>0, <1>i, <2>2, <2>3, <2>5, <2>6
    DEF AuthIsClient, AuthIsOwn, AuthedConnected, TypeOK
<1>10. ASSUME NEW s \in Sock, Frame(s) PROVE Rest'
  BY <1>10, <1>i DEF Frame, AuthIsClient, LiveIsRegistered, AuthIsOwn,
                    AuthedConnected, CodeTold
<1>11. CASE UNCHANGED vars
  BY <1>11, <1>i DEF vars, AuthIsClient, LiveIsRegistered, AuthIsOwn,
                    AuthedConnected, CodeTold
<1> QED
  BY <1>1, <1>2, <1>3, <1>4, <1>5, <1>6, <1>7, <1>8, <1>9, <1>10, <1>11 DEF Next

\* At most one authenticated socket is open: two would both be the registered one.
THEOREM OneLiveClient == Spec => []LiveIsRegistered
<1>1. IInv => LiveIsRegistered BY DEF IInv
<1> QED BY IInit, IStep, <1>1, PTL DEF Spec

-----------------------------------------------------------------------------
\* A socket that the server is closing before it authenticated was refused.
RefusedEarly == \A s \in Sock : ws[s] = "closing" /\ ~authed[s] => code[s] \in {4401, 4408}

JInv == IInv /\ RefusedEarly /\ ClosingRegisteredWasRefused /\ StaleClientWasDropped

\* StartClose gives its code to the sockets it moves and leaves every other alone.
LEMMA StartCloseMoves ==
  ASSUME NEW S, NEW n \in CloseCode, TypeOK, StartClose(S, n), NEW s \in Sock
  PROVE  \/ ws'[s] = ws[s] /\ code'[s] = code[s] /\ (s \notin S \/ ws[s] # "open")
         \/ s \in S /\ ws[s] = "open" /\ ws'[s] = "closing" /\ code'[s] = n
BY DEF StartClose, TypeOK

\* At the start no socket was refused.
LEMMA JInit == Init => JInv
BY IInit DEF Init, JInv, RefusedEarly, ClosingRegisteredWasRefused, StaleClientWasDropped

\* Each step keeps why a socket is being closed.
LEMMA JStep == JInv /\ [Next]_vars => JInv'
<1> SUFFICES ASSUME JInv, [Next]_vars PROVE JInv'
  OBVIOUS
<1> USE ListenerAssumption
<1> DEFINE Rest == RefusedEarly /\ ClosingRegisteredWasRefused /\ StaleClientWasDropped
<1>0. IInv /\ IInv' /\ Rest
  BY IStep DEF JInv
<1>i. /\ TypeOK /\ AuthIsClient /\ AuthIsOwn /\ CodeTold /\ AuthedConnected
      /\ RefusedEarly /\ ClosingRegisteredWasRefused /\ StaleClientWasDropped
  BY <1>0 DEF IInv
<1>t. /\ TypeOK /\ RefusedEarly /\ ClosingRegisteredWasRefused /\ StaleClientWasDropped
      /\ auth \in Sock \cup {None} /\ connected \in Sock \cup {None}
  BY <1>i DEF TypeOK
<1> SUFFICES Rest'
  BY <1>0 DEF JInv
<1>d. ASSUME NEW n \in CloseCode, StartClose(Registered, n), auth' = None,
             UNCHANGED <<authed, connected>>, n \in {4001, 1001}
      PROVE  Rest'
  \* Sweep and Shutdown: the registered socket gets code n unless it was refused.
  <2>1. RefusedEarly'
    BY <1>d, <1>i, StartCloseMoves DEF RefusedEarly, AuthIsOwn, Registered
  <2>2. ASSUME connected # None PROVE code'[connected] \in {4001, 1001, 4401, 4408}
    <3>1. connected \in Sock BY <2>2, <1>t
    <3>2. CASE connected = auth
      <4>1. connected \in Registered BY <3>2, <2>2 DEF Registered
      <4>2. \/ code'[connected] = code[connected] /\ ws[connected] # "open"
            \/ code'[connected] = n
        BY <1>d, <1>t, <3>1, <4>1, StartCloseMoves
      <4> QED BY <4>2, <1>d, <1>t, <3>2, <2>2 DEF ClosingRegisteredWasRefused
    <3>3. CASE connected # auth
      <4>1. connected \notin Registered BY <3>3 DEF Registered
      <4>2. code'[connected] = code[connected]
        BY <1>d, <1>t, <3>1, <4>1, StartCloseMoves
      <4> QED BY <4>2, <1>t, <3>3, <2>2 DEF StaleClientWasDropped
    <3> QED BY <3>2, <3>3
  <2> QED
    BY <2>1, <2>2, <1>d DEF ClosingRegisteredWasRefused, StaleClientWasDropped
<1>r. ASSUME NEW s \in Sock, NEW n \in {4401, 4408}, StartClose({s}, n), ~authed[s],
             UNCHANGED <<auth, authed, connected>>
      PROVE  Rest'
  \* A refusal: s is neither registered nor the client.
  <2>1. n \in CloseCode BY DEF CloseCode
  <2>2. RefusedEarly'
    BY <1>r, <1>t, <2>1, StartCloseMoves DEF RefusedEarly
  <2>3. \A t \in Sock : t # s => ws'[t] = ws[t] /\ code'[t] = code[t]
    BY <1>r, <1>t, <2>1, StartCloseMoves
  <2>4. (auth # None => auth # s) /\ (connected # None => connected # s)
    BY <1>i, <1>r DEF AuthIsOwn
  <2> QED
    BY <2>2, <2>3, <2>4, <1>r, <1>t
    DEF ClosingRegisteredWasRefused, StaleClientWasDropped
<1>u. ASSUME UNCHANGED <<ws, code, auth, authed, connected>> PROVE Rest'
  BY <1>u, <1>0 DEF RefusedEarly, ClosingRegisteredWasRefused, StaleClientWasDropped
<1>1. CASE Silence
  BY <1>1, <1>u DEF Silence
<1>2. CASE Sweep
  BY <1>2, <1>d DEF Sweep, Forget, CloseCode
<1>3. CASE Shutdown
  BY <1>3, <1>d DEF Shutdown, Stops, Forget, CloseCode
<1>4. CASE Closed
  BY <1>4, <1>u DEF Closed
<1>5. ASSUME NEW s \in Sock, NEW o \in Origin, Connect(s, o) PROVE Rest'
  BY <1>5, <1>t DEF Connect, TypeOK, RefusedEarly, ClosingRegisteredWasRefused,
     StaleClientWasDropped
<1>6. ASSUME NEW s \in Sock, SocketClosed(s) PROVE Rest'
  BY <1>6, <1>i DEF SocketClosed, Unregister, TypeOK, AuthIsClient, RefusedEarly,
     ClosingRegisteredWasRefused, StaleClientWasDropped
<1>7. ASSUME NEW s \in Sock, HandshakeTimeout(s) PROVE Rest'
  BY <1>7, <1>u, <1>r DEF HandshakeTimeout
<1>8. ASSUME NEW s \in Sock, BadHello(s) PROVE Rest'
  BY <1>8, <1>r DEF BadHello, Reject
<1>9. ASSUME NEW s \in Sock, Hello(s) PROVE Rest'
  <2>1. /\ StartClose(Registered, 4002) /\ ~authed[s] /\ Receives(s)
        /\ authed' = [authed EXCEPT ![s] = TRUE] /\ auth' = s /\ connected' = s
    BY <1>9 DEF Hello, Replace, SetClient
  <2>2. s \notin Registered
    BY <2>1, <1>i DEF Registered, AuthIsOwn
  <2>3. ws'[s] = ws[s] /\ code'[s] = code[s]
    BY <2>1, <2>2, <1>t, StartCloseMoves DEF CloseCode
  <2>4. RefusedEarly'
    BY <2>1, <1>i, StartCloseMoves DEF RefusedEarly, AuthIsOwn, Registered, TypeOK, CloseCode
  <2> QED
    BY <2>1, <2>3, <2>4, <1>t
    DEF Receives, RefusedEarly, ClosingRegisteredWasRefused, StaleClientWasDropped
<1>10. ASSUME NEW s \in Sock, Frame(s) PROVE Rest'
  BY <1>10, <1>u DEF Frame
<1>11. CASE UNCHANGED vars
  BY <1>11, <1>u DEF vars
<1> QED
  BY <1>1, <1>2, <1>3, <1>4, <1>5, <1>6, <1>7, <1>8, <1>9, <1>10, <1>11 DEF Next

\* A registered socket that the server is closing is one whose Hello was read
\* after its own handshake had refused it; nothing else leaves it registered.
THEOREM ClosingWasRefused == Spec => []ClosingRegisteredWasRefused
<1>1. JInv => ClosingRegisteredWasRefused BY DEF JInv
<1> QED BY JInit, JStep, <1>1, PTL DEF Spec

\* The manager sends to the registered socket; to another one only after the server
\* dropped it as idle or at shutdown, or had refused its handshake.
THEOREM ClientFollows == Spec => []ClientFollowsRegistry
<1>1. JInv => ClientFollowsRegistry BY DEF JInv, IInv, ClientFollowsRegistry
<1> QED BY JInit, JStep, <1>1, PTL DEF Spec
-----------------------------------------------------------------------------
(* Nobody is overlooked                                                       *)

\* The handshake timer runs against an open socket for as long as it has not authenticated.
OpenIsTimed == \A s \in Sock : ws[s] = "open" /\ ~authed[s] => armed[s]

\* An open socket is timed, or it is the one that the sweep and the shutdown look at. A
\* shutdown that is not over has a socket that a timer or a closing handshake will end,
\* or a client that authenticated meanwhile.
OpenIsWatched ==
  /\ \A s \in Sock : ws[s] = "open" => armed[s] \/ auth = s
  /\ phase = "closing" => \/ \A s \in Sock : ~Receives(s)
                          \/ \E s \in Sock : armed[s] \/ ws[s] = "closing"
                          \/ auth # None

\* The timer is stopped with a close, or by the Hello that authenticates.
LEMMA TimedStep == IInv /\ OpenIsTimed /\ [Next]_vars => OpenIsTimed'
<1> SUFFICES ASSUME IInv, OpenIsTimed, [Next]_vars PROVE OpenIsTimed'
  OBVIOUS
<1> USE ListenerAssumption
<1>t. /\ TypeOK /\ AuthIsOwn
      /\ authed \in [Sock -> BOOLEAN] /\ armed \in [Sock -> BOOLEAN] /\ DOMAIN ws = Sock
  BY DEF IInv, TypeOK
\* Closing sockets opens none.
<1>1. ASSUME NEW S, NEW n \in CloseCode, StartClose(S, n), UNCHANGED <<authed, armed>>
      PROVE  OpenIsTimed'
  BY <1>1, <1>t, StartCloseType DEF OpenIsTimed
<1>2. CASE UNCHANGED <<ws, authed, armed>>
  BY <1>2 DEF OpenIsTimed
<1>3. CASE Sweep \/ Shutdown
  BY <1>1, <1>3 DEF Sweep, Shutdown, Stops, CloseCode
<1>4. ASSUME NEW s \in Sock, NEW o \in Origin, Connect(s, o) PROVE OpenIsTimed'
  BY <1>4, <1>t DEF Connect, OpenIsTimed
<1>5. ASSUME NEW s \in Sock, SocketClosed(s) PROVE OpenIsTimed'
  BY <1>5, <1>t DEF SocketClosed, OpenIsTimed
<1>6. ASSUME NEW s \in Sock, HandshakeTimeout(s) PROVE OpenIsTimed'
  <2>1. /\ UNCHANGED authed /\ armed' = [armed EXCEPT ![s] = FALSE]
        /\ (authed[s] /\ UNCHANGED ws) \/ StartClose({s}, 4408)
    BY <1>6 DEF HandshakeTimeout
  <2>2. CASE authed[s] /\ UNCHANGED ws
    <3>1. ws' = ws /\ authed' = authed /\ armed' = [armed EXCEPT ![s] = FALSE] /\ authed[s]
      BY <2>1, <2>2
    <3> QED BY <3>1, <1>t DEF OpenIsTimed
  <2>3. CASE StartClose({s}, 4408)
    <3>1. 4408 \in CloseCode
      BY DEF CloseCode
    <3>2. \A t \in Sock : ws'[t] = "open" => ws[t] = "open" /\ t # s
      BY <2>3, <3>1, <1>t, StartCloseType
    <3> QED BY <2>1, <3>2, <1>t DEF OpenIsTimed
  <2> QED BY <2>1, <2>2, <2>3
<1>7. ASSUME NEW s \in Sock, BadHello(s) PROVE OpenIsTimed'
  <2>1. /\ UNCHANGED authed /\ armed' = [armed EXCEPT ![s] = FALSE] /\ StartClose({s}, 4401)
    BY <1>7 DEF BadHello, Reject
  <2>2. 4401 \in CloseCode
    BY DEF CloseCode
  <2>3. \A t \in Sock : ws'[t] = "open" => ws[t] = "open" /\ t # s
    BY <2>1, <2>2, <1>t, StartCloseType
  <2> QED BY <2>1, <2>3, <1>t DEF OpenIsTimed
<1>8. ASSUME NEW s \in Sock, Hello(s) PROVE OpenIsTimed'
  <2>1. /\ StartClose(Registered, 4002) /\ 4002 \in CloseCode
        /\ armed' = [armed EXCEPT ![s] = FALSE] /\ authed' = [authed EXCEPT ![s] = TRUE]
    BY <1>8 DEF Hello, Replace, CloseCode
  <2> QED BY <2>1, <1>t, StartCloseType DEF OpenIsTimed
<1> QED
  BY <1>2, <1>3, <1>4, <1>5, <1>6, <1>7, <1>8 DEF Next, Silence, Closed, Frame, vars

\* No socket stays open unobserved, whatever is refused, replaced or read late: each has
\* its handshake timer against it, or is the client that the sweep and the shutdown see.
\* It is what SilentClosed and ShutdownStallsOnlyByHello ask of the states.
THEOREM NobodyOverlooked == Spec => []OpenIsWatched
<1>1. Init => OpenIsTimed
  BY DEF Init, OpenIsTimed
<1>2. IInv /\ OpenIsTimed => OpenIsWatched
  <2> SUFFICES ASSUME IInv, OpenIsTimed PROVE OpenIsWatched
    OBVIOUS
  <2>1. \A s \in Sock : ws[s] = "open" => armed[s] \/ auth = s
    BY DEF IInv, LiveIsRegistered, OpenIsTimed
  <2>2. ASSUME NEW s \in Sock, Receives(s)
        PROVE  armed[s] \/ ws[s] = "closing" \/ auth # None
    BY <2>1, <2>2, ListenerAssumption DEF Receives
  <2> QED BY <2>1, <2>2 DEF OpenIsWatched
<1> QED BY <1>1, <1>2, IInit, IStep, TimedStep, PTL DEF Spec
=============================================================================
