----------------------------- MODULE TurnProofs -----------------------------
(* The promises of module Turn, for any number of runs, messages, aborts and  *)
(* connections: the session's status, and what the client gets to see of it.  *)
EXTENDS Turn, FiniteSetTheorems, SequenceTheorems, TLAPS

-----------------------------------------------------------------------------
(* Inductive invariants                                                       *)

\* What was asked for is on its way, with the SDK, or dealt with.
NumOf(m, s) == Cardinality({i \in DOMAIN s : s[i] = m})
Counted == /\ prompts + NumOf("Send", outq) <= sends
           /\ aborting + NumOf("Abort", outq) <= escapes

\* The last status under way, or else the one shown, is the session's.
LastStatus(i) == IsStatus(wire[i]) /\ \A j \in DOMAIN wire : j > i => ~IsStatus(wire[j])
LastIsCurrent == ~missed => /\ \A i \in DOMAIN wire : LastStatus(i) => wire[i].status = status
                            /\ (\A i \in DOMAIN wire : ~IsStatus(wire[i])) => shown = status

\* Events belong to runs that have started; a run announced on this connection is
\* announced among the frames sent on it, of which there are none before the first.
StartedRuns == /\ \A e \in logging : e.run <= started
               /\ \A i \in DOMAIN sent : sent[i].type = "AgentEvent" => sent[i].run <= started
AnnouncedHere == \A r \in Run : began[r] = conns /\ conns > 0 =>
                   \E j \in DOMAIN sent : sent[j] = AgentStatus("running", r)
Connections == /\ link => conns > 0
               /\ conns = 0 => sent = <<>>
               /\ \A r \in Run : began[r] <= conns

TypeInv == TypeOK /\ Counted
EventInv == EventAfterRunning /\ StartedRuns /\ AnnouncedHere /\ Connections

-----------------------------------------------------------------------------
(* How often a message is in a queue                                          *)

\* The indexes of a message are finitely many.
LEMMA IndexesFinite ==
  ASSUME NEW A, NEW s \in Seq(A), NEW m
  PROVE  /\ IsFiniteSet({i \in 1..Len(s) : s[i] = m}) /\ NumOf(m, s) \in Nat
         /\ NumOf(m, s) = Cardinality({i \in 1..Len(s) : s[i] = m})
<1>1. DOMAIN s = 1..Len(s) /\ Len(s) \in Nat
  OBVIOUS
<1>2. IsFiniteSet(1..Len(s))
  BY <1>1, FS_Interval
<1>3. IsFiniteSet({i \in 1..Len(s) : s[i] = m})
  BY <1>2, FS_Subset
<1>4. {i \in DOMAIN s : s[i] = m} = {i \in 1..Len(s) : s[i] = m}
  BY <1>1
<1> QED BY <1>3, <1>4, FS_CardinalityType DEF NumOf

\* What is left of a queue holds no more of a message, and one less if that was its head.
LEMMA SuffixCount ==
  ASSUME NEW A, NEW s \in Seq(A), NEW m, NEW j \in 0..Len(s)
  PROVE  /\ NumOf(m, SubSeq(s, j + 1, Len(s))) <= NumOf(m, s)
         /\ j > 0 /\ s[1] = m => NumOf(m, SubSeq(s, j + 1, Len(s))) + 1 <= NumOf(m, s)
<1> DEFINE t == SubSeq(s, j + 1, Len(s))
           S == {i \in 1..Len(s) : s[i] = m}
           T == {i \in 1..Len(t) : t[i] = m}
           f == [i \in T |-> i + j]
<1>1. t \in Seq(A) /\ Len(t) = Len(s) - j /\ \A i \in 1..(Len(s) - j) : t[i] = s[i + j]
  OBVIOUS
<1>2. IsFiniteSet(S) /\ NumOf(m, s) = Cardinality(S)
  BY IndexesFinite
<1>3. NumOf(m, t) = Cardinality(T) /\ NumOf(m, t) \in Nat /\ NumOf(m, s) \in Nat
  BY <1>1, IndexesFinite
<1> HIDE DEF t
<1>4. \A i \in T : i \in Nat /\ i + j \in S
  BY <1>1
<1>5. ASSUME NEW U, \A i \in T : i + j \in U PROVE f \in Injection(T, U)
  <2>1. f \in [T -> U]
    BY <1>5
  <2>2. \A a, b \in T : f[a] = f[b] => a = b
    BY <1>4
  <2> QED BY <2>1, <2>2 DEF Injection, IsInjective
<1>6. Cardinality(T) <= Cardinality(S)
  <2>1. f \in Injection(T, S)
    BY <1>4, <1>5
  <2> HIDE DEF S, T, f
  <2> QED BY <1>2, <2>1, FS_Injection
<1>7. ASSUME j > 0, s[1] = m PROVE Cardinality(T) + 1 <= Cardinality(S)
  <2>1. 1 \in S
    BY <1>7
  <2>2. \A i \in T : i + j \in S \ {1}
    BY <1>1, <1>4, <1>7
  <2>3. f \in Injection(T, S \ {1})
    BY <1>5, <2>2
  <2>4. IsFiniteSet(S \ {1}) /\ Cardinality(S \ {1}) = Cardinality(S) - 1
    BY <1>2, <2>1, FS_RemoveElement
  <2> HIDE DEF S, T, f
  <2>5. Cardinality(T) <= Cardinality(S \ {1})
    BY <2>3, <2>4, FS_Injection
  <2> QED BY <1>2, <1>3, <2>4, <2>5
<1> QED
  BY <1>2, <1>3, <1>6, <1>7 DEF t

\* A queue holds one more of what is appended to it.
LEMMA AppendCount ==
  ASSUME NEW A, NEW s \in Seq(A), NEW m, NEW x \in A
  PROVE  NumOf(m, Append(s, x)) = NumOf(m, s) + (IF x = m THEN 1 ELSE 0)
<1> DEFINE S == {i \in 1..Len(s) : s[i] = m}
           T == {i \in 1..(Len(s) + 1) : Append(s, x)[i] = m}
<1>1. Append(s, x) \in Seq(A) /\ Len(Append(s, x)) = Len(s) + 1
  OBVIOUS
<1>2. NumOf(m, Append(s, x)) = Cardinality(T)
  BY <1>1, IndexesFinite
<1>3. NumOf(m, s) = Cardinality(S) /\ IsFiniteSet(S) /\ NumOf(m, s) \in Nat
  BY IndexesFinite
<1>4. T = IF x = m THEN S \cup {Len(s) + 1} ELSE S
  OBVIOUS
<1>5. Len(s) + 1 \notin S
  OBVIOUS
<1> HIDE DEF S, T
<1>6. Cardinality(S \cup {Len(s) + 1}) = Cardinality(S) + 1
  BY <1>3, <1>5, FS_AddElement
<1> QED
  BY <1>2, <1>3, <1>4, <1>6

-----------------------------------------------------------------------------
(* Types                                                                      *)

\* The frames are of their types.
LEMMA FrameTypes ==
  /\ \A e \in Event : e \in Frame /\ e.type = "AgentEvent" /\ e.run \in Run /\ ~IsStatus(e)
  /\ \A s \in Status, r \in 0..MaxRuns :
       /\ AgentStatus(s, r) \in Frame /\ IsStatus(AgentStatus(s, r))
       /\ AgentStatus(s, r).status = s /\ AgentStatus(s, r).type # "AgentEvent"
  /\ \A s \in Status : /\ Welcome(s) \in Frame /\ ~IsStatus(Welcome(s))
                       /\ Welcome(s).type # "AgentEvent"
  /\ \A m \in Frame : /\ IsStatus(m) => m.status \in Status
                      /\ m.type = "AgentEvent" => m \in Event
<1> USE DEF IsStatus
<1>1. \A e \in Event : e \in Frame /\ e.type = "AgentEvent" /\ e.run \in Run
  BY DEF Event, Frame, AgentEvent
<1>2. \A s \in Status, r \in 0..MaxRuns :
        /\ AgentStatus(s, r) \in Frame /\ AgentStatus(s, r).type = "AgentStatus"
        /\ AgentStatus(s, r).status = s
  <2>1. \A s \in Status, r \in 0..MaxRuns : AgentStatus(s, r) \in Frame
    BY DEF Frame
  <2> QED BY <2>1 DEF AgentStatus
<1>3. \A s \in Status : Welcome(s) \in Frame /\ Welcome(s).type = "Welcome"
  <2>1. \A s \in Status : Welcome(s) \in Frame
    BY DEF Frame
  <2> QED BY <2>1 DEF Welcome
<1>4. ASSUME NEW m \in Frame
      PROVE  (m.type = "AgentStatus" => m.status \in Status) /\ (m.type = "AgentEvent" => m \in Event)
  <2>1. CASE m \in Event
    BY <1>1, <2>1
  <2>2. CASE \E s \in Status, r \in 0..MaxRuns : m = AgentStatus(s, r)
    BY <1>2, <2>2
  <2>3. CASE \E s \in Status : m = Welcome(s)
    BY <1>3, <2>3
  <2> QED BY <2>1, <2>2, <2>3 DEF Frame
<1> QED BY <1>1, <1>2, <1>3, <1>4

\* What is sent is a frame, and changes nothing else.
LEMMA SendType ==
  ASSUME TypeOK, NEW m \in Frame, SendFrame(m)
  PROVE  wire' \in Seq(Frame) /\ sent' \in Seq(Frame)
BY DEF SendFrame, TypeOK

\* Each step keeps the types, and the counts within what was asked for.
LEMMA TypeStep == TypeInv /\ [Next]_vars => TypeInv'
<1> SUFFICES ASSUME TypeInv, [Next]_vars PROVE TypeInv'
  OBVIOUS
<1>0. TypeOK /\ Counted
  BY DEF TypeInv
<1> USE TurnAssumption
<1> DEFINE Sends == NumOf("Send", outq)
           Aborts == NumOf("Abort", outq)
           Q == {"Send", "Abort"}
<1>n. /\ Sends \in Nat /\ Aborts \in Nat /\ prompts + Sends <= sends /\ aborting + Aborts <= escapes
      /\ prompts \in Nat /\ aborting \in Nat /\ outq \in Seq(Q)
      /\ sends \in 0..MaxSends /\ escapes \in 0..MaxAborts
  <2>1. /\ prompts \in Nat /\ aborting \in Nat /\ outq \in Seq(Q)
        /\ sends \in 0..MaxSends /\ escapes \in 0..MaxAborts
    BY <1>0 DEF TypeOK
  <2>2. Sends \in Nat /\ Aborts \in Nat
    BY <2>1, IndexesFinite
  <2> QED BY <1>0, <2>1, <2>2 DEF Counted
<1> HIDE DEF Sends, Aborts
\* No more is asked for, and no more in the SDK's hands.
<1>1. ASSUME prompts' \in 0..prompts, aborting' \in 0..aborting, UNCHANGED user
      PROVE  Counted' /\ prompts' \in 0..MaxSends /\ aborting' \in 0..MaxAborts
  BY <1>n, <1>1 DEF Counted, user, Sends, Aborts
<1>2. CASE RunStarts
  <2>1. prompts' \in 0..prompts /\ aborting' \in 0..aborting
    BY <1>n, <1>2 DEF RunStarts
  <2>2. AgentStatus("running", started + 1) \in Frame /\ run' = started + 1 /\ run' \in 1..MaxRuns
    BY SMTT(60), <1>0, <1>2 DEF RunStarts, TypeOK, Frame, Status
  <2>3. wire' \in Seq(Frame) /\ sent' \in Seq(Frame) /\ status' \in Status
    BY <1>0, <1>2, <2>2, SendType DEF RunStarts, EmitStatus, Status
  <2>4. began' \in [Run -> 0..MaxConns]
    <3>1. (IF link THEN conns ELSE 0) \in 0..MaxConns
      BY <1>0 DEF TypeOK
    <3>2. began' = [began EXCEPT ![run'] = IF link THEN conns ELSE 0]
      BY <1>2 DEF RunStarts
    <3> QED BY <1>0, <3>1, <3>2 DEF TypeOK
  <2>5. missed' \in BOOLEAN
    BY <1>0, <1>2 DEF RunStarts, EmitStatus, TypeOK
  <2>6. run' \in 0..started' /\ started' \in 0..MaxRuns /\ emitted' \in 0..MaxEvents
    BY <1>2, <2>2 DEF RunStarts
  <2>7. overtaken' \in BOOLEAN /\ UNCHANGED <<logging, link, conns, outq, sends, escapes, shown>>
    BY <1>2 DEF RunStarts, user
  <2>8. Counted' /\ prompts' \in 0..MaxSends /\ aborting' \in 0..MaxAborts
    BY <1>1, <1>2, <2>1 DEF RunStarts
  <2> QED BY <1>0, <2>3, <2>4, <2>5, <2>6, <2>7, <2>8 DEF TypeInv, TypeOK
<1>3. CASE RunEnds
  <2>2. AgentStatus("idle", run) \in Frame
    BY SMTT(60), <1>0, <1>3 DEF RunEnds, TypeOK, Frame, Status
  <2>3. wire' \in Seq(Frame) /\ sent' \in Seq(Frame) /\ status' \in Status
    BY <1>0, <1>3, <2>2, SendType DEF RunEnds, EmitStatus, Status
  <2>5. missed' \in BOOLEAN
    BY <1>0, <1>3 DEF RunEnds, EmitStatus, TypeOK
  <2>6. run' \in 0..started' /\ started' \in 0..MaxRuns
    BY <1>0, <1>3 DEF RunEnds, TypeOK
  <2>7. /\ overtaken' \in BOOLEAN
        /\ UNCHANGED <<emitted, logging, link, conns, outq, sends, escapes, shown, began>>
    BY <1>3 DEF RunEnds, user
  <2>8. Counted' /\ prompts' \in 0..MaxSends /\ aborting' \in 0..MaxAborts
    BY <1>1, <1>3, <1>n DEF RunEnds
  <2> QED BY <1>0, <2>3, <2>5, <2>6, <2>7, <2>8 DEF TypeInv, TypeOK
<1>4. CASE RunVanishes \/ Steered
  <2>1. prompts' \in 0..prompts /\ aborting' \in 0..aborting
    BY <1>n, <1>4 DEF RunVanishes, Steered
  <2>2. run' \in 0..started' /\ started' \in 0..MaxRuns
    BY <1>0, <1>4 DEF RunVanishes, Steered, TypeOK
  <2>3. overtaken' \in BOOLEAN
    BY <1>0, <1>4 DEF RunVanishes, Steered, TypeOK
  <2>4. UNCHANGED <<emitted, status, logging, link, conns, wire, outq, sends, escapes, shown,
                    sent, began, missed>>
    BY <1>4 DEF RunVanishes, Steered, user
  <2>5. Counted' /\ prompts' \in 0..MaxSends /\ aborting' \in 0..MaxAborts
    BY <1>1, <1>4, <2>1 DEF RunVanishes, Steered
  <2> QED BY <1>0, <2>2, <2>3, <2>4, <2>5 DEF TypeInv, TypeOK
<1>5. CASE RunEmits
  <2>1. emitted' \in 1..MaxEvents /\ run \in Run
    BY <1>0, <1>5 DEF RunEmits, Emit, TypeOK, Run
  <2>2. logging' \subseteq Event
    BY SMTT(60), <1>0, <1>5, <2>1 DEF RunEmits, TypeOK, Event
  <2> QED BY <1>0, <1>1, <1>5, <1>n, <2>1, <2>2 DEF RunEmits, TypeInv, TypeOK, user
<1>6. ASSUME NEW e \in logging, Appended(e) PROVE TypeInv'
  <2>1. e \in Frame
    BY <1>0 DEF TypeOK, Frame
  <2>2. wire' \in Seq(Frame) /\ sent' \in Seq(Frame)
    BY <1>0, <1>6, <2>1, SendType DEF Appended
  <2> QED BY <1>0, <1>1, <1>6, <1>n, <2>2 DEF Appended, TypeInv, TypeOK, user, sdk
<1>7. ASSUME NEW m \in Q, Read(m), UNCHANGED <<sends, escapes>>,
             \/ m = "Send" /\ prompts' = prompts + 1 /\ UNCHANGED aborting
             \/ m = "Abort" /\ aborting' = aborting + 1 /\ UNCHANGED prompts
      PROVE  /\ Counted' /\ prompts' \in 0..MaxSends /\ aborting' \in 0..MaxAborts
             /\ outq' \in Seq(Q)
  <2>1. /\ outq' = SubSeq(outq, 2, Len(outq)) /\ outq' \in Seq(Q)
        /\ outq[1] = m /\ 1 \in 0..Len(outq)
    BY <1>n, <1>7 DEF Read
  <2>2. /\ NumOf("Send", outq') <= Sends /\ NumOf("Abort", outq') <= Aborts
        /\ NumOf(m, outq') + 1 <= NumOf(m, outq)
    BY <1>n, <2>1, SuffixCount DEF Sends, Aborts
  <2>3. NumOf("Send", outq') \in Nat /\ NumOf("Abort", outq') \in Nat
    BY <2>1, IndexesFinite
  <2>4. Counted'
    BY SMTT(60), <1>n, <1>7, <2>2, <2>3 DEF Counted, Sends, Aborts
  <2>5. prompts' \in 0..MaxSends /\ aborting' \in 0..MaxAborts
    <3>1. /\ prompts' + NumOf("Send", outq') <= sends /\ aborting' + NumOf("Abort", outq') <= escapes
      BY <1>7, <2>4 DEF Counted
    <3>2. prompts' \in Nat /\ aborting' \in Nat
      BY <1>n, <1>7
    <3> QED BY <1>n, <2>3, <3>1, <3>2
  <2> QED BY <2>1, <2>4, <2>5
<1>8. CASE OnSend
  BY <1>0, <1>7, <1>8 DEF OnSend, TypeInv, TypeOK
<1>9. CASE OnAbort
  BY <1>0, <1>7, <1>9 DEF OnAbort, TypeInv, TypeOK, sdk
<1>10. CASE AbortSettles
  <2>1. prompts' \in 0..prompts /\ aborting' \in 0..aborting
    BY <1>n, <1>10 DEF AbortSettles, sdk
  <2>2. AgentStatus("idle", started) \in Frame
    BY <1>0 DEF TypeOK, Frame, Status
  <2>3. wire' \in Seq(Frame) /\ sent' \in Seq(Frame) /\ status' \in Status
    BY <1>0, <1>10, <2>2, SendType DEF AbortSettles, IdleAfterAbort, EmitStatus, Status
  <2>4. missed' \in BOOLEAN /\ overtaken' \in BOOLEAN
    BY <1>0, <1>10 DEF AbortSettles, IdleAfterAbort, EmitStatus, TypeOK
  <2> QED BY <1>0, <1>1, <1>10, <2>1, <2>3, <2>4 DEF AbortSettles, TypeInv, TypeOK, user, sdk
<1>11. CASE Connect
  <2>1. Welcome(status) \in Frame
    BY <1>0 DEF TypeOK, Frame
  <2>2. wire' \in Seq(Frame) /\ sent' \in Seq(Frame)
    BY <1>0, <1>11, <2>1 DEF Connect, TypeOK
  <2> QED BY <1>0, <1>1, <1>11, <1>n, <2>2 DEF Connect, TypeInv, TypeOK, user, sdk
<1>12. ASSUME NEW k \in 0..Len(wire), NEW j \in 0..Len(outq), Lose(k, j)
       PROVE  /\ wire' \in Seq(Frame) /\ outq' \in Seq(Q) /\ link' = FALSE
              /\ NumOf("Send", outq') \in 0..Sends /\ NumOf("Abort", outq') \in 0..Aborts
  <2>1. wire' \in Seq(Frame) /\ outq' \in Seq(Q) /\ link' = FALSE
    BY <1>0, <1>12 DEF Lose, TypeOK
  <2>2. NumOf("Send", outq') <= Sends /\ NumOf("Abort", outq') <= Aborts
    BY <1>12, <1>n, SuffixCount DEF Lose, Sends, Aborts
  <2>3. NumOf("Send", outq') \in Nat /\ NumOf("Abort", outq') \in Nat
    BY <2>1, IndexesFinite
  <2> QED BY <1>n, <2>1, <2>2, <2>3
<1>13. CASE Cut
  <2>1. PICK k \in 0..Len(wire), j \in 0..Len(outq) :
          Lose(k, j) /\ missed' = (missed \/ LostStatus(k))
    BY <1>13 DEF Cut
  <2>2. missed' \in BOOLEAN
    BY <2>1
  <2>3. Counted'
    <3>1. NumOf("Send", outq') \in 0..Sends /\ NumOf("Abort", outq') \in 0..Aborts
      BY <1>12, <2>1
    <3>2. UNCHANGED <<prompts, aborting, sends, escapes>>
      BY <1>13 DEF Cut, sdk
    <3> QED BY <1>n, <3>1, <3>2 DEF Counted
  <2> QED BY <1>0, <1>12, <1>13, <2>1, <2>2, <2>3 DEF Cut, TypeInv, TypeOK, sdk
<1>14. CASE Restart
  <2>1. PICK k \in 0..Len(wire), j \in 0..Len(outq) :
          /\ IF link THEN Lose(k, j) ELSE UNCHANGED <<link, wire, outq>>
          /\ missed' = (missed \/ status # "idle" \/ (link /\ LostStatus(k)))
    BY <1>14 DEF Restart
  <2>2. missed' \in BOOLEAN /\ status' \in Status /\ logging' \subseteq Event
    BY <1>14, <2>1 DEF Restart, Status
  <2>3. /\ wire' \in Seq(Frame) /\ outq' \in Seq(Q) /\ link' \in BOOLEAN
        /\ NumOf("Send", outq') \in 0..Sends /\ NumOf("Abort", outq') \in 0..Aborts
    <3>1. CASE link
      BY <1>12, <2>1, <3>1
    <3>2. CASE ~link
      <4>1. UNCHANGED <<link, wire, outq>>
        BY <2>1, <3>2
      <4>2. link' \in BOOLEAN /\ wire' \in Seq(Frame) /\ outq' \in Seq(Q)
        BY <1>0, <4>1 DEF TypeOK
      <4>3. NumOf("Send", outq') = Sends /\ NumOf("Abort", outq') = Aborts
        BY <4>1 DEF Sends, Aborts
      <4> QED BY <1>n, <4>2, <4>3
    <3> QED BY <3>1, <3>2
  <2>4. Counted'
    <3>1. prompts' = 0 /\ aborting' = 0 /\ sends' = sends /\ escapes' = escapes
      BY <1>14 DEF Restart
    <3> QED BY <1>n, <2>3, <3>1 DEF Counted
  <2>5. /\ prompts' = 0 /\ run' = 0 /\ aborting' = 0 /\ overtaken' = FALSE
        /\ UNCHANGED <<started, emitted, conns, shown, sends, escapes, sent, began>>
    BY <1>14 DEF Restart
  <2>6. /\ prompts' \in 0..MaxSends /\ aborting' \in 0..MaxAborts /\ run' \in 0..started'
        /\ started' \in 0..MaxRuns
    BY <1>0, <2>5 DEF TypeOK
  <2> QED BY <1>0, <2>2, <2>3, <2>4, <2>5, <2>6 DEF TypeInv, TypeOK
<1>15. CASE Process
  <2>1. Head(wire) \in Frame /\ wire' \in Seq(Frame)
    BY <1>0, <1>15 DEF Process, TypeOK
  <2>2. shown' \in Status
    BY <1>0, <1>15, <2>1, FrameTypes DEF Process, Show, TypeOK
  <2> QED BY <1>0, <1>1, <1>15, <1>n, <2>1, <2>2 DEF Process, TypeInv, TypeOK, user, sdk
<1>16. ASSUME NEW m \in Q, outq' = Append(outq, m), UNCHANGED <<prompts, aborting>>,
              sends' = IF m = "Send" THEN sends + 1 ELSE sends,
              escapes' = IF m = "Abort" THEN escapes + 1 ELSE escapes
       PROVE  Counted' /\ outq' \in Seq(Q)
  <2>1. NumOf("Send", outq') = Sends + (IF m = "Send" THEN 1 ELSE 0)
    BY <1>16, <1>n, AppendCount DEF Sends
  <2>2. NumOf("Abort", outq') = Aborts + (IF m = "Abort" THEN 1 ELSE 0)
    BY <1>16, <1>n, AppendCount DEF Aborts
  <2> QED BY <1>16, <1>n, <2>1, <2>2 DEF Counted
<1>17. CASE PressEnter
  BY <1>0, <1>16, <1>17, <1>n DEF PressEnter, TypeInv, TypeOK, sdk
<1>18. CASE PressEscape
  BY <1>0, <1>16, <1>18, <1>n DEF PressEscape, TypeInv, TypeOK, sdk
<1>19. CASE UNCHANGED vars
  BY <1>0, <1>19 DEF vars, sdk, user, TypeInv, TypeOK, Counted
<1> QED
  BY <1>2, <1>3, <1>4, <1>5, <1>6, <1>8, <1>9, <1>10, <1>11, <1>13, <1>14, <1>15, <1>17, <1>18,
     <1>19
  DEF Next

\* At the start nothing was asked for.
LEMMA TypeInit == Init => TypeInv
<1> SUFFICES ASSUME Init PROVE TypeInv
  OBVIOUS
<1> USE TurnAssumption
<1>1. NumOf("Send", outq) = 0 /\ NumOf("Abort", outq) = 0
  <2>1. DOMAIN outq = {}
    BY DEF Init
  <2>2. \A m : {i \in DOMAIN outq : outq[i] = m} = {}
    BY <2>1
  <2> QED BY <2>2, FS_EmptySet DEF NumOf
<1>2. Counted
  BY <1>1 DEF Init, Counted
<1>3. TypeOK
  <2>1. /\ prompts \in 0..MaxSends /\ run \in 0..started /\ started \in 0..MaxRuns
        /\ emitted \in 0..MaxEvents /\ aborting \in 0..MaxAborts /\ conns \in 0..MaxConns
        /\ sends \in 0..MaxSends /\ escapes \in 0..MaxAborts
    BY DEF Init
  <2>2. status \in Status /\ shown \in Status /\ logging \subseteq Event
    BY DEF Init, Status
  <2>3. wire \in Seq(Frame) /\ outq \in Seq({"Send", "Abort"}) /\ sent \in Seq(Frame)
    BY DEF Init
  <2>4. began \in [Run -> 0..MaxConns]
    BY DEF Init
  <2>5. link \in BOOLEAN /\ missed \in BOOLEAN /\ overtaken \in BOOLEAN
    BY DEF Init
  <2> QED BY <2>1, <2>2, <2>3, <2>4, <2>5 DEF TypeOK
<1> QED BY <1>2, <1>3 DEF TypeInv

\* No message, abort or run is taken up more often than it was asked for, and what is
\* under way stays of its type, through cuts and restarts.
THEOREM Types == Spec => [](TypeOK /\ Counted)
<1>1. TypeInv => TypeOK /\ Counted
  BY DEF TypeInv
<1> QED
  BY <1>1, TypeInit, TypeStep, PTL DEF Spec

-----------------------------------------------------------------------------
(* The session's status is that of the run                                    *)

\* The status parts from the run only where an abort ended or overtook it (queue, abort
\* and emitStatus of workspaces/session.ts).
THEOREM StatusOfRun == Spec => []StatusTracksRun
<1>1. Init => StatusTracksRun
  BY DEF Init, StatusTracksRun
<1>2. TypeInv /\ StatusTracksRun /\ [Next]_vars => StatusTracksRun'
  <2> SUFFICES ASSUME TypeInv, StatusTracksRun, [Next]_vars PROVE StatusTracksRun'
    OBVIOUS
  <2> USE DEF StatusTracksRun
  <2>0. started \in Nat /\ aborting \in Nat
    BY TurnAssumption DEF TypeInv, TypeOK
  <2>1. CASE RunStarts
    BY <2>0, <2>1 DEF RunStarts, EmitStatus
  <2>2. CASE RunEnds
    BY <2>2 DEF RunEnds, EmitStatus
  <2>3. CASE RunVanishes
    BY <2>3 DEF RunVanishes
  <2>4. CASE OnAbort
    BY <2>0, <2>4 DEF OnAbort, sdk
  <2>5. CASE AbortSettles
    BY <2>5 DEF AbortSettles, IdleAfterAbort, EmitStatus, sdk
  <2>6. CASE Restart
    BY <2>6 DEF Restart
  <2>7. CASE UNCHANGED <<run, status, overtaken, aborting>>
    BY <2>7
  <2> QED
    BY <2>1, <2>2, <2>3, <2>4, <2>5, <2>6, <2>7
    DEF Next, Steered, RunEmits, Appended, OnSend, Connect, Cut, Process, PressEnter, PressEscape,
        vars, sdk
<1> QED
  BY <1>1, <1>2, TypeInit, TypeStep, PTL DEF Spec

-----------------------------------------------------------------------------
(* What the client shows                                                      *)

\* The last status under way, or the one shown, stays the session's unless a change of
\* status is lost.
LEMMA CurrentStep == TypeInv /\ LastIsCurrent /\ [Next]_vars => LastIsCurrent'
<1> SUFFICES ASSUME TypeInv, LastIsCurrent, [Next]_vars PROVE LastIsCurrent'
  OBVIOUS
<1>0. TypeOK /\ wire \in Seq(Frame) /\ status \in Status
  BY DEF TypeInv, TypeOK
<1> USE TurnAssumption
\* A status is sent.
<1>1. ASSUME NEW s \in Status, NEW r \in 0..MaxRuns, EmitStatus(s, r) PROVE LastIsCurrent'
  <2> SUFFICES ASSUME ~missed' PROVE LastIsCurrent'
    BY DEF LastIsCurrent
  <2>1. wire' = Append(wire, AgentStatus(s, r)) /\ status' = s
    BY <1>1 DEF EmitStatus, SendFrame
  <2>2. IsStatus(AgentStatus(s, r)) /\ AgentStatus(s, r).status = s
    BY FrameTypes
  <2>3. /\ Len(wire') = Len(wire) + 1 /\ DOMAIN wire' = 1..Len(wire')
        /\ wire'[Len(wire')] = AgentStatus(s, r) /\ Len(wire') \in DOMAIN wire'
    BY <1>0, <2>1
  <2>4. ASSUME NEW i \in DOMAIN wire', LastStatus(i)' PROVE wire'[i].status = status'
    <3>1. i = Len(wire')
      BY <2>2, <2>3, <2>4 DEF LastStatus
    <3> QED BY <2>1, <2>2, <2>3, <3>1
  <2>5. ~(\A i \in DOMAIN wire' : ~IsStatus(wire'[i]))
    BY <2>2, <2>3
  <2> QED BY <2>4, <2>5 DEF LastIsCurrent
\* Another frame is sent, or none.
<1>2. ASSUME NEW m \in Frame, ~IsStatus(m), wire' = wire \/ wire' = Append(wire, m),
             UNCHANGED <<missed, status, shown>>
      PROVE  LastIsCurrent'
  <2>1. /\ DOMAIN wire \subseteq DOMAIN wire' /\ DOMAIN wire \subseteq Nat
        /\ \A i \in DOMAIN wire : wire'[i] = wire[i]
        /\ \A i \in DOMAIN wire' : IsStatus(wire'[i]) => i \in DOMAIN wire
    BY <1>0, <1>2
  <2> QED BY <1>2, <2>1 DEF LastIsCurrent, LastStatus
\* The end of what is under way is lost, or nothing.
<1>3. ASSUME NEW k \in 0..Len(wire), wire' = SubSeq(wire, 1, k), ~missed' => ~missed /\ ~LostStatus(k),
             ~missed' => status' = status, UNCHANGED shown
      PROVE  LastIsCurrent'
  <2> SUFFICES ASSUME ~missed' PROVE LastIsCurrent'
    BY DEF LastIsCurrent
  <2>1. /\ DOMAIN wire' \subseteq DOMAIN wire /\ DOMAIN wire \subseteq Nat
        /\ \A i \in DOMAIN wire' : wire'[i] = wire[i]
    BY <1>0, <1>3
  <2>2. \A i \in DOMAIN wire : IsStatus(wire[i]) => i \in DOMAIN wire'
    BY <1>0, <1>3 DEF LostStatus
  <2> QED BY <1>3, <2>1, <2>2 DEF LastIsCurrent, LastStatus
<1>4. CASE UNCHANGED <<wire, status, missed, shown>>
  BY <1>4 DEF LastIsCurrent, LastStatus
<1>5. CASE RunStarts
  BY <1>0, <1>1, <1>5 DEF RunStarts, TypeOK, Status
<1>6. CASE RunEnds
  BY <1>0, <1>1, <1>6 DEF RunEnds, TypeOK, Status
<1>7. CASE AbortSettles
  BY <1>0, <1>1, <1>7 DEF AbortSettles, IdleAfterAbort, TypeOK, Status
<1>8. ASSUME NEW e \in logging, Appended(e) PROVE LastIsCurrent'
  <2>1. e \in Frame /\ ~IsStatus(e)
    BY <1>0, FrameTypes DEF TypeOK
  <2> QED BY <1>2, <1>8, <2>1 DEF Appended, SendFrame
<1>9. CASE Connect
  BY <1>0, <1>2, <1>9, FrameTypes DEF Connect
<1>10. CASE Cut
  BY <1>3, <1>10 DEF Cut, Lose
<1>11. CASE Restart
  <2>1. PICK k \in 0..Len(wire), j \in 0..Len(outq) :
          /\ IF link THEN Lose(k, j) ELSE UNCHANGED <<link, wire, outq>>
          /\ missed' = (missed \/ status # "idle" \/ (link /\ LostStatus(k)))
    BY <1>11 DEF Restart
  <2>2. status' = "idle" /\ UNCHANGED shown
    BY <1>11 DEF Restart
  <2>3. CASE link
    BY <1>3, <2>1, <2>2, <2>3 DEF Lose
  <2>4. CASE ~link
    BY <2>1, <2>2, <2>4 DEF LastIsCurrent, LastStatus
  <2> QED BY <2>3, <2>4
<1>12. CASE Process
  <2>1. /\ wire # <<>> /\ UNCHANGED <<status, missed>>
        /\ shown' = IF IsStatus(wire[1]) THEN wire[1].status ELSE shown
    BY <1>0, <1>12 DEF Process, Show
  <2>2. /\ Len(wire) \in Nat /\ DOMAIN wire = 1..Len(wire) /\ DOMAIN wire' = 1..(Len(wire) - 1)
        /\ 1 \in DOMAIN wire
        /\ \A i \in 1..(Len(wire) - 1) : wire'[i] = wire[i + 1]
    BY <1>0, <1>12 DEF Process
  <2> SUFFICES ASSUME ~missed PROVE LastIsCurrent'
    BY <2>1 DEF LastIsCurrent
  <2>3. ASSUME NEW i \in DOMAIN wire', LastStatus(i)' PROVE wire'[i].status = status'
    <3>1. i + 1 \in DOMAIN wire /\ IsStatus(wire[i + 1]) /\ wire'[i] = wire[i + 1]
      BY <2>2, <2>3 DEF LastStatus
    <3>2. ASSUME NEW j \in DOMAIN wire, j > i + 1 PROVE ~IsStatus(wire[j])
      <4>1. j - 1 \in DOMAIN wire' /\ j - 1 > i /\ wire'[j - 1] = wire[j]
        BY <2>2, <2>3, <3>2
      <4> QED BY <2>3, <4>1 DEF LastStatus
    <3>3. LastStatus(i + 1)
      BY <3>1, <3>2 DEF LastStatus
    <3> QED BY <2>1, <3>1, <3>3 DEF LastIsCurrent
  <2>4. ASSUME \A i \in DOMAIN wire' : ~IsStatus(wire'[i]) PROVE shown' = status'
    <3>1. \A j \in DOMAIN wire : j > 1 => ~IsStatus(wire[j])
      <4> SUFFICES ASSUME NEW j \in DOMAIN wire, j > 1 PROVE ~IsStatus(wire[j])
        OBVIOUS
      <4>1. j - 1 \in DOMAIN wire' /\ wire'[j - 1] = wire[j]
        BY <2>2
      <4> QED BY <2>4, <4>1
    <3>2. CASE IsStatus(wire[1])
      <4>1. LastStatus(1)
        BY <3>1, <3>2 DEF LastStatus
      <4> QED BY <2>1, <2>2, <3>2, <4>1 DEF LastIsCurrent
    <3>3. CASE ~IsStatus(wire[1])
      <4>1. \A j \in DOMAIN wire : ~IsStatus(wire[j])
        BY <2>2, <3>1, <3>3
      <4> QED BY <2>1, <3>3, <4>1 DEF LastIsCurrent
    <3> QED BY <3>2, <3>3
  <2> QED BY <2>3, <2>4 DEF LastIsCurrent
<1> QED
  BY <1>4, <1>5, <1>6, <1>7, <1>8, <1>9, <1>10, <1>11, <1>12
  DEF Next, RunVanishes, Steered, RunEmits, OnSend, OnAbort, PressEnter, PressEscape, vars

\* A client that has processed what it was sent shows the session's status, unless a
\* change of it was sent to nobody (process_msg of main.rs, onStatus of manager.ts).
THEOREM ShowsStatus == Spec => []ShownUnlessMissed
<1>1. Init => LastIsCurrent
  BY DEF Init, LastIsCurrent
<1>2. TypeInv /\ LastIsCurrent /\ [Next]_vars => (TypeInv /\ LastIsCurrent)'
  BY TypeStep, CurrentStep
<1>3. LastIsCurrent => ShownUnlessMissed
  BY DEF LastIsCurrent, ShownUnlessMissed
<1> QED
  BY <1>1, <1>2, <1>3, TypeInit, PTL DEF Spec

-----------------------------------------------------------------------------
(* A run is announced before its events                                       *)

\* Every step keeps announcements before events.
LEMMA EventStep == TypeInv /\ EventInv /\ [Next]_vars => EventInv'
<1> SUFFICES ASSUME TypeInv, EventInv, [Next]_vars PROVE EventInv'
  OBVIOUS
<1>0. TypeOK /\ EventAfterRunning /\ StartedRuns /\ AnnouncedHere /\ Connections
  BY DEF TypeInv, EventInv
<1> USE TurnAssumption
<1>t. /\ sent \in Seq(Frame) /\ Len(sent) \in Nat /\ DOMAIN sent = 1..Len(sent)
      /\ conns \in Nat /\ started \in Nat /\ logging \subseteq Event
      /\ began \in [Run -> Nat] /\ link \in BOOLEAN
  BY <1>0 DEF TypeOK
\* A frame is sent that is no event of a run announced here without its announcement.
<1>1. ASSUME NEW m \in Frame, SendFrame(m), UNCHANGED <<link, conns>>,
             m.type = "AgentEvent" => m.run \in Run /\ m.run <= started'
                                      /\ began'[m.run] = began[m.run],
             started <= started', started' \in Nat,
             \A e \in logging' : e \in logging \/ e.run <= started',
             \A r \in Run : \/ began'[r] = began[r]
                            \/ /\ r > started /\ m = AgentStatus("running", r)
                               /\ began'[r] = IF link THEN conns ELSE 0
      PROVE  EventInv'
  <2>1. /\ link => sent' = Append(sent, m) /\ conns > 0
        /\ ~link => sent' = sent
        /\ sent' \in Seq(Frame) /\ Len(sent') \in Nat /\ DOMAIN sent' = 1..Len(sent')
        /\ DOMAIN sent \subseteq DOMAIN sent'
        /\ \A i \in DOMAIN sent : sent'[i] = sent[i]
        /\ \A i \in DOMAIN sent' : i \in DOMAIN sent \/ (link /\ i = Len(sent) + 1 /\ sent'[i] = m)
    <3>1. CASE link
      <4>1. sent' = Append(sent, m) /\ conns > 0
        BY SMTT(60), <1>0, <1>1, <3>1 DEF SendFrame, Connections
      <4> QED BY <1>1, <1>t, <3>1, <4>1
    <3>2. CASE ~link
      <4>1. sent' = sent
        BY <1>1, <3>2 DEF SendFrame
      <4> QED BY <1>t, <3>2, <4>1
    <3> QED BY <3>1, <3>2
  <2>2. ASSUME NEW i \in DOMAIN sent', sent'[i].type = "AgentEvent"
        PROVE  sent'[i].run \in Run /\ sent'[i].run <= started'
    <3>1. CASE i \in DOMAIN sent
      <4>0. sent[i] \in Frame /\ sent'[i] = sent[i]
        <5>1. sent'[i] = sent[i]
          BY <2>1, <3>1
        <5>2. sent[i] \in Frame
          BY <1>t, <3>1
        <5> QED BY <5>1, <5>2
      <4>1. sent[i] \in Event /\ sent'[i] = sent[i]
        BY <2>2, <4>0, FrameTypes
      <4>2. sent[i].run \in Run /\ sent[i].run <= started /\ sent[i].run \in Nat
        BY SMTT(60), <1>0, <3>1, <4>1, FrameTypes DEF StartedRuns, Run
      <4> QED BY SMTT(60), <1>1, <1>t, <4>1, <4>2
    <3>2. CASE i \notin DOMAIN sent
      BY <1>1, <2>1, <2>2, <3>2
    <3> QED BY <3>1, <3>2
  <2>3. StartedRuns'
    <3> SUFFICES ASSUME NEW e \in logging' PROVE e.run <= started'
      BY <2>2 DEF StartedRuns
    <3>1. CASE e \in logging
      <4>1. e.run \in Nat /\ e.run <= started
        BY <1>0, <1>t, <3>1, FrameTypes DEF StartedRuns, Run
      <4> QED BY <1>1, <1>t, <4>1
    <3> QED BY <1>1, <3>1
  <2>4. ASSUME NEW r \in Run, began'[r] = conns', conns' > 0
        PROVE  \E j \in DOMAIN sent' : sent'[j] = AgentStatus("running", r)
    <3>1. CASE began'[r] = began[r]
      <4>1. PICK j \in DOMAIN sent : sent[j] = AgentStatus("running", r)
        BY <1>0, <1>1, <2>4, <3>1 DEF AnnouncedHere
      <4> QED BY <2>1, <4>1
    <3>2. CASE began'[r] # began[r]
      <4>1. link /\ m = AgentStatus("running", r)
        BY <1>1, <1>t, <2>4, <3>2
      <4>2. sent' = Append(sent, m) /\ Len(sent) + 1 \in DOMAIN sent'
        BY <1>t, <2>1, <4>1
      <4> QED BY <1>t, <4>1, <4>2
    <3> QED BY SMTT(60), <3>1, <3>2
  <2>5. Connections'
    <3>1. conns' = 0 => sent' = <<>>
      BY <1>0, <1>1, <2>1 DEF Connections
    <3>2. \A r \in Run : began'[r] <= conns'
      BY <1>0, <1>1, <1>t DEF Connections
    <3> QED BY <1>0, <1>1, <3>1, <3>2 DEF Connections
  <2>6. EventAfterRunning'
    <3> SUFFICES ASSUME NEW i \in DOMAIN sent', sent'[i].type = "AgentEvent",
                        began'[sent'[i].run] = conns'
                 PROVE  \E j \in 1..(i - 1) : sent'[j] = AgentStatus("running", sent'[i].run)
      BY DEF EventAfterRunning
    <3> DEFINE r == sent'[i].run
    <3>0. r \in Run /\ r \in Nat /\ i \in Nat
      <4>1. i \in 1..Len(sent') /\ Len(sent') \in Nat
        BY <2>1
      <4>2. r \in Run
        BY SMTT(60), <2>2
      <4> QED BY SMTT(60), <4>1, <4>2 DEF Run
    <3>1. CASE i \in DOMAIN sent
      <4>0. sent'[i] = sent[i]
        BY ZenonT(60), <2>1, <3>1
      <4>1. sent'[i] = sent[i] /\ r <= started /\ r \in Nat
        BY <1>0, <3>0, <3>1, <4>0 DEF StartedRuns
      <4>2. began'[r] = began[r]
        BY <1>1, <1>t, <3>0, <4>1
      <4>3. PICK j \in 1..(i - 1) : sent[j] = AgentStatus("running", r)
        BY <1>0, <1>1, <3>1, <4>1, <4>2 DEF EventAfterRunning
      <4>4. j \in DOMAIN sent
        BY <1>t, <3>1
      <4> QED BY ZenonT(60), <2>1, <4>3, <4>4
    <3>2. CASE i \notin DOMAIN sent
      <4>1. link /\ i = Len(sent) + 1 /\ sent'[i] = m /\ began'[r] = began[r]
        BY ZenonT(60), <1>1, <2>1, <3>2
      <4>2. PICK j \in DOMAIN sent : sent[j] = AgentStatus("running", r)
        BY <1>0, <1>1, <2>1, <3>0, <4>1 DEF AnnouncedHere
      <4> QED BY SMTT(60), <1>t, <2>1, <4>1, <4>2
    <3> QED BY <3>1, <3>2
  <2> QED BY <2>3, <2>4, <2>5, <2>6 DEF EventInv, AnnouncedHere
\* Nothing is sent.
<1>2. ASSUME UNCHANGED <<sent, began, conns, started>>, link' => link,
             \A e \in logging' : e \in logging \/ e.run <= started
      PROVE  EventInv'
  <2>1. EventAfterRunning'
    BY <1>0, <1>2 DEF EventAfterRunning
  <2>2. StartedRuns'
    BY <1>0, <1>2 DEF StartedRuns
  <2>3. AnnouncedHere'
    BY <1>0, <1>2 DEF AnnouncedHere
  <2>4. Connections'
    BY <1>0, <1>2 DEF Connections
  <2> QED BY <2>1, <2>2, <2>3, <2>4 DEF EventInv
<1>3. CASE RunStarts
  <2>1. /\ SendFrame(AgentStatus("running", started + 1)) /\ started' = started + 1
        /\ began' = [began EXCEPT ![started + 1] = IF link THEN conns ELSE 0]
        /\ UNCHANGED <<link, conns, logging>> /\ started + 1 \in Run
    BY <1>3, <1>t DEF RunStarts, EmitStatus, Run
  <2>2. /\ AgentStatus("running", started + 1) \in Frame
        /\ AgentStatus("running", started + 1).type # "AgentEvent"
    BY <2>1, FrameTypes DEF Status, Run
  <2>3. \A r \in Run : \/ began'[r] = began[r]
                       \/ r = started + 1 /\ began'[r] = IF link THEN conns ELSE 0
    BY <1>t, <2>1
  <2>4. \A r \in Run : \/ began'[r] = began[r]
                       \/ /\ r > started /\ AgentStatus("running", started + 1) = AgentStatus("running", r)
                          /\ began'[r] = IF link THEN conns ELSE 0
    BY <1>t, <2>3
  <2> QED BY <1>1, <1>t, <2>1, <2>2, <2>4
<1>4. ASSUME NEW r \in 0..MaxRuns, EmitStatus("idle", r),
             UNCHANGED <<link, conns, started, began, logging>>
      PROVE  EventInv'
  <2>1. AgentStatus("idle", r) \in Frame /\ AgentStatus("idle", r).type # "AgentEvent"
    BY FrameTypes DEF Status
  <2> QED BY <1>1, <1>4, <1>t, <2>1 DEF EmitStatus
<1>5. CASE RunEnds
  BY <1>0, <1>4, <1>5 DEF RunEnds, TypeOK
<1>6. CASE AbortSettles
  BY <1>0, <1>4, <1>6 DEF AbortSettles, IdleAfterAbort, sdk, TypeOK
<1>7. ASSUME NEW e \in logging, Appended(e) PROVE EventInv'
  <2>1. e \in Frame /\ e.run \in Run /\ e.run <= started
    BY <1>0, <1>t, FrameTypes DEF StartedRuns
  <2> QED BY <1>1, <1>7, <1>t, <2>1 DEF Appended, sdk
<1>8. CASE RunEmits
  <2>1. AgentEvent(run, emitted').run = run /\ run <= started
    BY <1>0 DEF AgentEvent, TypeOK
  <2> QED BY <1>2, <1>8, <2>1 DEF RunEmits
<1>9. CASE Connect
  <2>1. /\ sent' = <<Welcome(status)>> /\ conns' = conns + 1
        /\ UNCHANGED <<started, logging, began>>
    BY <1>9 DEF Connect, sdk
  <2>2. Welcome(status).type # "AgentEvent"
    BY <1>0, FrameTypes DEF TypeOK
  <2>3. DOMAIN sent' = {1} /\ sent'[1] = Welcome(status)
    BY <2>1
  <2>4. \A r \in Run : began'[r] <= conns' /\ began'[r] # conns'
    BY <1>0, <1>t, <2>1 DEF Connections
  <2>5. EventAfterRunning'
    BY <2>2, <2>3 DEF EventAfterRunning
  <2>6. StartedRuns'
    BY <1>0, <2>1, <2>2, <2>3 DEF StartedRuns
  <2>7. AnnouncedHere'
    BY <2>4 DEF AnnouncedHere
  <2>8. Connections'
    BY <1>t, <2>1, <2>4 DEF Connections
  <2> QED BY <2>5, <2>6, <2>7, <2>8 DEF EventInv
<1>10. CASE Cut
  BY <1>2, <1>10 DEF Cut, Lose, sdk
<1>11. CASE Restart
  <2>1. link' => link
    BY <1>11 DEF Restart, Lose
  <2> QED BY <1>2, <1>11, <2>1 DEF Restart
<1>12. CASE UNCHANGED <<sent, began, conns, started, link, logging>>
  BY <1>2, <1>12
<1> QED
  BY <1>3, <1>5, <1>6, <1>7, <1>8, <1>9, <1>10, <1>11, <1>12
  DEF Next, RunVanishes, Steered, OnSend, OnAbort, Process, PressEnter, PressEscape, vars, sdk

\* On the connection on which a run was announced its events come after the announcement
\* (emitEvent awaits its append, emitStatus does not; connectedWs of manager.ts).
THEOREM AnnouncedFirst == Spec => []EventAfterRunning
<1>1. Init => EventInv
  <2> SUFFICES ASSUME Init PROVE EventInv
    OBVIOUS
  <2>1. sent = <<>> /\ conns = 0 /\ logging = {} /\ link = FALSE /\ began = [r \in Run |-> 0]
    BY DEF Init
  <2>2. EventAfterRunning /\ StartedRuns
    BY <2>1 DEF EventAfterRunning, StartedRuns
  <2>3. AnnouncedHere /\ Connections
    BY <2>1 DEF AnnouncedHere, Connections
  <2> QED BY <2>2, <2>3 DEF EventInv
<1>2. TypeInv /\ EventInv /\ [Next]_vars => (TypeInv /\ EventInv)'
  BY TypeStep, EventStep
<1>3. EventInv => EventAfterRunning
  BY DEF EventInv
<1> QED
  BY <1>1, <1>2, <1>3, TypeInit, PTL DEF Spec
=============================================================================
