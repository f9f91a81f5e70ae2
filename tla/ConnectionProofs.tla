-------------------------- MODULE ConnectionProofs --------------------------
(***************************************************************************)
(* Proofs about a connection.  First Sessions, for any devices,            *)
(* connections, frames, failures and installations; then, from the heading *)
(* "Induction and recursion" on, Codecs: how what travels on a connection  *)
(* is cut into packets, and how the packets are read.                      *)
(***************************************************************************)
EXTENDS Sessions, Codecs, FiniteSetTheorems, SequenceTheorems, TLAPS

-----------------------------------------------------------------------------
(***************************************************************************)
(* Type correctness, with the terminal ID that each statement is about     *)
(***************************************************************************)

Steps == {"idle", "logging"} \cup Statements \cup Identifying \cup Leaving

\* While a frame is processed its terminal ID is known, and once it has been
\* identified so is the device.
TidKnown ==
  \A s \in Sessions :
    /\ step[s] \in {"finding", "inserting", "found", "attaching", "attributing",
                    "logging", "seeing"} => tid[s] \in Devices
    /\ step[s] = "attributing" => device[s] \in Devices

Typed == TypeOK /\ TidKnown

\* Taking a task off a queue, and putting one on it.
LEMMA DequeueTypes ==
  ASSUME TypeOK, NEW s \in Sessions, NEW kind, Dequeue(s, kind)
  PROVE  /\ queue' \in [Sessions -> Seq(Task)]
         /\ Head(queue[s]) \in Task /\ Head(queue[s]).kind = kind
         /\ step[s] = "idle"
         /\ 1 \in 1..Len(queue[s]) /\ Head(queue[s]) = queue[s][1]
         /\ \A t \in Sessions : t # s => queue'[t] = queue[t]
         /\ \A i \in 1..Len(queue'[s]) :
              i + 1 \in 1..Len(queue[s]) /\ queue'[s][i] = queue[s][i + 1]
<1>1. queue \in [Sessions -> Seq(Task)] /\ queue[s] \in Seq(Task) /\ queue[s] # << >>
  BY DEF TypeOK, Dequeue
<1>2. /\ Head(queue[s]) \in Task /\ Tail(queue[s]) \in Seq(Task)
      /\ Len(queue[s]) \in Nat /\ Len(queue[s]) # 0
      /\ Head(queue[s]) = queue[s][1]
      /\ Len(Tail(queue[s])) = Len(queue[s]) - 1
      /\ \A i \in 1..Len(Tail(queue[s])) : Tail(queue[s])[i] = queue[s][i + 1]
  BY <1>1, HeadTailProperties, LenProperties, EmptySeq
<1>3. queue'[s] = Tail(queue[s]) /\ \A t \in Sessions : t # s => queue'[t] = queue[t]
  BY <1>1 DEF Dequeue
<1>4. QED
  BY <1>1, <1>2, <1>3 DEF Dequeue

LEMMA EnqueueTypes ==
  ASSUME TypeOK, NEW s \in Sessions, NEW t \in Task, Enqueue(s, t)
  PROVE  /\ queue' \in [Sessions -> Seq(Task)]
         /\ \A r \in Sessions : r # s => queue'[r] = queue[r]
         /\ \A i \in 1..Len(queue'[s]) :
              \/ i \in 1..Len(queue[s]) /\ queue'[s][i] = queue[s][i]
              \/ queue'[s][i] = t
<1>1. queue \in [Sessions -> Seq(Task)] /\ queue[s] \in Seq(Task)
  BY DEF TypeOK
<1>2. /\ Append(queue[s], t) \in Seq(Task)
      /\ Len(queue[s]) \in Nat /\ Len(Append(queue[s], t)) = Len(queue[s]) + 1
      /\ \A i \in 1..Len(queue[s]) : Append(queue[s], t)[i] = queue[s][i]
      /\ Append(queue[s], t)[Len(queue[s]) + 1] = t
  BY <1>1, AppendProperties, LenProperties
<1>3. queue'[s] = Append(queue[s], t)
  BY <1>1 DEF Enqueue
<1>4. QED
  BY <1>1, <1>2, <1>3 DEF Enqueue

LEMMA TypeInit == Init => Typed
<1> SUFFICES ASSUME Init PROVE Typed
  OBVIOUS
<1>1. << >> \in Seq(Task)
  BY EmptySeq
<1>2. setup.known \subseteq Devices
  BY SessionsAssumption DEF Init, Setup
<1>3. QED
  BY <1>1, <1>2 DEF Init, Typed, TypeOK, TidKnown, DeviceOrNone

\* The events of the sockets, and shutdown.
LEMMA TypeSockets ==
  ASSUME Typed,
         \/ \E s \in Sessions : OnConnection(s) \/ OnData(s) \/ OnClose(s)
         \/ Sweep \/ StopBegins \/ StopEnds
  PROVE  Typed'
<1> USE DEF Typed, TypeOK, TidKnown, session, manager, tables, ending, used
<1>1. ASSUME NEW s \in Sessions, OnConnection(s) PROVE Typed'
  <2>1. [kind |-> "create", tid |-> NoDevice] \in Task
    BY DEF Task
  <2>2. queue' \in [Sessions -> Seq(Task)]
    BY <1>1, <2>1, EnqueueTypes DEF OnConnection
  <2>3. QED
    BY <1>1, <2>2 DEF OnConnection
<1>2. ASSUME NEW s \in Sessions, OnData(s) PROVE Typed'
  <2>1. PICK d \in setup.ids[s] : Enqueue(s, [kind |-> "frame", tid |-> d])
    BY <1>2 DEF OnData
  <2>2. d \in Devices
    BY SessionsAssumption DEF Setup
  <2>3. [kind |-> "frame", tid |-> d] \in Task
    BY <2>2 DEF Task
  <2>4. queue' \in [Sessions -> Seq(Task)]
    BY <2>1, <2>3, EnqueueTypes
  <2>5. received' \in [Sessions -> Nat]
    BY <1>2 DEF OnData
  <2>6. UNCHANGED <<conn, step, tid, session, manager, tables, ending, failures, setup>>
    BY <1>2 DEF OnData
  <2>7. QED
    BY <2>4, <2>5, <2>6
<1>3. ASSUME NEW s \in Sessions, OnClose(s) PROVE Typed'
  <2>1. [kind |-> "disconnect", tid |-> NoDevice] \in Task
    BY DEF Task
  <2>2. queue' \in [Sessions -> Seq(Task)]
    BY <1>3, <2>1, EnqueueTypes DEF OnClose
  <2>3. QED
    BY <1>3, <2>2 DEF OnClose
<1>4. CASE Sweep
  BY <1>4 DEF Sweep, Destroyed
<1>5. CASE StopBegins
  BY <1>5 DEF StopBegins, Destroyed
<1>6. CASE StopEnds
  BY <1>6 DEF StopEnds
<1>7. QED
  BY <1>1, <1>2, <1>3, <1>4, <1>5, <1>6

\* The tasks.
LEMMA TypeTasks ==
  ASSUME Typed, NEW s \in Sessions, TaskStep(s) \/ StoreFails(s)
  PROVE  Typed'
<1> USE DEF Typed, TypeOK, TidKnown, session, manager, tables, ending, used, Goto,
        DeviceOrNone
<1>1. CASE Create(s)
  BY <1>1, DequeueTypes DEF Create, Statements
<1>2. CASE Created(s)
  BY <1>2 DEF Created
<1>3. CASE HandleItem(s)
  <2>0. /\ Head(queue[s]) \in Task /\ Head(queue[s]).kind = "frame"
        /\ queue' \in [Sessions -> Seq(Task)] /\ step[s] = "idle"
    BY <1>3, DequeueTypes DEF HandleItem
  <2>1. Head(queue[s]).tid \in Devices
    BY <2>0 DEF Task
  <2>2. QED
    BY <1>3, <2>0, <2>1 DEF HandleItem, Identified, Statements, Identifying
<1>4. CASE DeviceLookedUp(s)
  BY <1>4 DEF DeviceLookedUp, Statements, Identifying
<1>5. CASE DeviceCreated(s)
  BY <1>5 DEF DeviceCreated, Statements, Identifying
<1>6. CASE Bind(s)
  BY <1>6 DEF Bind, Destroyed, Statements, Identifying
<1>7. CASE Attached(s)
  BY <1>7 DEF Attached, Statements, Identifying
<1>8. CASE Attributed(s) \/ Logged(s)
  <2>1. CASE Attributed(s)
    BY <2>1 DEF Attributed, Statements, Identifying
  <2>2. CASE Logged(s)
    BY <2>2 DEF Logged, Statements, Identifying
  <2>3. QED
    BY <1>8, <2>1, <2>2
<1>9. CASE Seen(s)
  BY <1>9 DEF Seen, Statements, Identifying
<1>10. CASE OnDisconnect(s)
  <2>1. queue' \in [Sessions -> Seq(Task)] /\ step[s] = "idle"
    BY <1>10, DequeueTypes DEF OnDisconnect
  <2>2. QED
    BY <1>10, <2>1 DEF OnDisconnect, Released, Leaving, Statements
<1>11. CASE SessionEnded(s)
  BY <1>11 DEF SessionEnded, Leaving, Statements
<1>12. CASE Checked(s)
  BY <1>12 DEF Checked, OfflineDue, Leaving, Statements
<1>13. CASE SetOffline(s)
  BY <1>13 DEF SetOffline, Leaving, Statements
<1>14. CASE StoreFails(s)
  BY <1>14 DEF StoreFails, Fails, FinishedByFailure, Leaving, Statements
<1>15. QED
  BY <1>1, <1>2, <1>3, <1>4, <1>5, <1>6, <1>7, <1>8, <1>9, <1>10, <1>11, <1>12, <1>13,
     <1>14 DEF TaskStep

LEMMA TypeStep == Typed /\ [Next]_vars => Typed'
<1>1. ASSUME Typed, UNCHANGED vars PROVE Typed'
  BY <1>1 DEF Typed, TypeOK, TidKnown, vars, session, manager, tables, ending, used
<1>2. QED
  BY <1>1, TypeSockets, TypeTasks DEF Next

\* In every behaviour the variables have the values their declarations say; in
\* particular a frame is logged and seen, and a device marked offline, only by
\* a session that has a device.
THEOREM TypeCorrect == Spec => []TypeOK
<1>1. Typed => TypeOK
  BY DEF Typed
<1>2. QED
  BY TypeInit, TypeStep, <1>1, PTL DEF Spec

-----------------------------------------------------------------------------
(***************************************************************************)
(* The tasks of a session come to an end in order.                         *)
(***************************************************************************)

\* The disconnection is the last task of a closed connection: it is to be run,
\* or running, or the session is finished.
Phase(s) ==
  /\ \A i \in 1..Len(queue[s]) :
       queue[s][i].kind = "disconnect" => conn[s] = "closed" /\ i = Len(queue[s])
  /\ step[s] \in Leaving \/ s \in finished => conn[s] = "closed" /\ queue[s] = << >>
  /\ s \in finished => step[s] = "idle"
  /\ conn[s] = "closed" /\ step[s] \notin Leaving /\ s \notin finished =>
       queue[s] # << >> /\ queue[s][Len(queue[s])].kind = "disconnect"
  /\ conn[s] = "none" => /\ queue[s] = << >> /\ step[s] = "idle"
                         /\ terminal[s] = NoDevice

Phases == \A s \in Sessions : Phase(s)

\* A session that the step is not about, though its socket may be destroyed.
Bystander(r) ==
  /\ queue'[r] = queue[r] /\ step'[r] = step[r] /\ terminal'[r] = terminal[r]
  /\ (r \in finished') <=> (r \in finished)
  /\ \/ conn'[r] = conn[r]
     \/ conn[r] = "open" /\ conn'[r] = "destroyed"

LEMMA BystanderPhase ==
  ASSUME NEW r \in Sessions, Phase(r), Bystander(r)
  PROVE  Phase(r)'
BY DEF Phase, Bystander

\* Taking a task off the queue shows what kind it was.
LEMMA DequeuePhase ==
  ASSUME TypeOK, NEW s \in Sessions, NEW kind, Phase(s), Dequeue(s, kind)
  PROVE  /\ kind = "disconnect" => conn[s] = "closed" /\ queue'[s] = << >>
         /\ kind # "disconnect" /\ conn[s] = "closed" =>
              queue'[s] # << >> /\ queue'[s][Len(queue'[s])].kind = "disconnect"
         /\ \A i \in 1..Len(queue'[s]) :
              queue'[s][i].kind = "disconnect" =>
                conn[s] = "closed" /\ i = Len(queue'[s])
         /\ s \notin finished /\ conn[s] # "none" /\ step[s] = "idle"
<1>1. /\ queue[s] \in Seq(Task) /\ queue[s] # << >> /\ step[s] = "idle"
      /\ queue'[s] = Tail(queue[s]) /\ Head(queue[s]).kind = kind
  BY DEF TypeOK, Dequeue
<1>2. /\ Tail(queue[s]) \in Seq(Task)
      /\ Len(queue[s]) \in Nat /\ Len(queue[s]) # 0
      /\ Head(queue[s]) = queue[s][1]
      /\ Len(Tail(queue[s])) = Len(queue[s]) - 1
      /\ \A i \in 1..Len(Tail(queue[s])) : Tail(queue[s])[i] = queue[s][i + 1]
      /\ (Len(Tail(queue[s])) = 0) <=> (Tail(queue[s]) = << >>)
  <2>1. Tail(queue[s]) \in Seq(Task)
    BY <1>1, HeadTailProperties
  <2>2. (Len(Tail(queue[s])) = 0) <=> (Tail(queue[s]) = << >>)
    BY <2>1, EmptySeq
  <2>3. QED
    BY <1>1, <2>1, <2>2, HeadTailProperties, LenProperties, EmptySeq
<1>3. \A i \in 1..Len(queue[s]) :
        queue[s][i].kind = "disconnect" => conn[s] = "closed" /\ i = Len(queue[s])
  BY DEF Phase
<1>4. s \notin finished /\ conn[s] # "none" /\ step[s] \notin Leaving
  BY <1>1 DEF Phase, Leaving
<1>5. kind = "disconnect" => conn[s] = "closed" /\ Len(queue[s]) = 1
  BY <1>1, <1>2, <1>3
<1>6. kind # "disconnect" /\ conn[s] = "closed" =>
        Len(queue[s]) > 1 /\ queue[s][Len(queue[s])].kind = "disconnect"
  BY <1>1, <1>2, <1>4 DEF Phase
<1>7. kind # "disconnect" /\ conn[s] = "closed" =>
        queue'[s] # << >> /\ queue'[s][Len(queue'[s])].kind = "disconnect"
  BY <1>1, <1>2, <1>6
<1>8. \A i \in 1..Len(queue'[s]) :
        queue'[s][i].kind = "disconnect" => conn[s] = "closed" /\ i = Len(queue'[s])
  BY <1>1, <1>2, <1>3
<1>9. kind = "disconnect" => queue'[s] = << >>
  BY <1>1, <1>2, <1>5
<1>10. QED
  BY <1>1, <1>4, <1>5, <1>7, <1>8, <1>9

LEMMA PhaseSockets ==
  ASSUME TypeOK, Phases,
         \/ \E s \in Sessions : OnConnection(s) \/ OnData(s) \/ OnClose(s)
         \/ Sweep \/ StopBegins \/ StopEnds
  PROVE  Phases'
<1> USE DEF session, manager, tables, ending, used
<1>1. ASSUME NEW s \in Sessions, NEW t \in Task, Enqueue(s, t),
             conn' = [conn EXCEPT ![s] = conn'[s]],
             conn[s] # "closed", conn'[s] # "none", conn'[s] # conn[s] \/ conn[s] = "open",
             (conn'[s] = "closed") <=> (t.kind = "disconnect"),
             UNCHANGED <<step, terminal, finished>>
      PROVE  Phases'
  <2>1. /\ queue[s] \in Seq(Task) /\ queue'[s] = Append(queue[s], t)
        /\ \A r \in Sessions : r # s => queue'[r] = queue[r] /\ conn'[r] = conn[r]
    BY <1>1 DEF TypeOK, Enqueue
  <2>2. /\ Len(queue[s]) \in Nat /\ Len(queue'[s]) = Len(queue[s]) + 1
        /\ \A i \in 1..Len(queue[s]) : queue'[s][i] = queue[s][i]
        /\ queue'[s][Len(queue[s]) + 1] = t
        /\ queue'[s] # << >>
    BY <2>1, AppendProperties, LenProperties
  <2>3. \A i \in 1..Len(queue[s]) : queue[s][i].kind # "disconnect"
    BY <1>1 DEF Phases, Phase
  <2>4. \A i \in 1..Len(queue'[s]) :
          queue'[s][i].kind = "disconnect" => conn'[s] = "closed" /\ i = Len(queue'[s])
    BY <1>1, <2>2, <2>3
  <2>5. step[s] \notin Leaving /\ s \notin finished
    BY <1>1 DEF Phases, Phase
  <2>6. Phase(s)'
    BY <1>1, <2>2, <2>4, <2>5 DEF Phase
  <2>7. \A r \in Sessions : r # s => Phase(r)'
    BY <1>1, <2>1, BystanderPhase DEF Phases, Bystander
  <2>8. QED
    BY <2>6, <2>7 DEF Phases
<1>2. ASSUME NEW s \in Sessions, OnConnection(s) PROVE Phases'
  <2>1. [kind |-> "create", tid |-> NoDevice] \in Task
    BY DEF Task
  <2>2. conn' = [conn EXCEPT ![s] = "open"] /\ conn'[s] = "open" /\ conn[s] = "none"
    BY <1>2 DEF OnConnection, TypeOK
  <2>3. QED
    BY <1>1, <1>2, <2>1, <2>2 DEF OnConnection
<1>3. ASSUME NEW s \in Sessions, OnData(s) PROVE Phases'
  <2>1. PICK d \in setup.ids[s] : Enqueue(s, [kind |-> "frame", tid |-> d])
    BY <1>3 DEF OnData
  <2>2. [kind |-> "frame", tid |-> d] \in Task
    BY SessionsAssumption DEF TypeOK, Setup, Task
  <2>3. UNCHANGED <<conn, step, terminal, finished>> /\ conn[s] = "open"
    BY <1>3 DEF OnData
  <2>4. conn' = [conn EXCEPT ![s] = conn'[s]]
    BY <2>3 DEF TypeOK
  <2>5. QED
    BY <1>1, <2>1, <2>2, <2>3, <2>4
<1>4. ASSUME NEW s \in Sessions, OnClose(s) PROVE Phases'
  <2>1. [kind |-> "disconnect", tid |-> NoDevice] \in Task
    BY DEF Task
  <2>2. /\ conn' = [conn EXCEPT ![s] = "closed"] /\ conn'[s] = "closed"
        /\ conn[s] \in {"open", "destroyed"}
    BY <1>4 DEF OnClose, TypeOK
  <2>3. QED
    BY <1>1, <1>4, <2>1, <2>2 DEF OnClose
<1>5. ASSUME NEW S, conn' = Destroyed(S), UNCHANGED <<queue, step, terminal, finished>>
      PROVE  Phases'
  <2>1. \A r \in Sessions : Bystander(r)
    BY <1>5 DEF Bystander, Destroyed
  <2>2. QED
    BY <2>1, BystanderPhase DEF Phases
<1>6. CASE Sweep
  BY <1>5, <1>6 DEF Sweep
<1>7. CASE StopBegins
  BY <1>5, <1>7 DEF StopBegins
<1>8. CASE StopEnds
  <2>1. \A r \in Sessions : Bystander(r)
    BY <1>8 DEF Bystander, StopEnds
  <2>2. QED
    BY <2>1, BystanderPhase DEF Phases
<1>9. QED
  BY <1>2, <1>3, <1>4, <1>6, <1>7, <1>8

LEMMA PhaseTasks ==
  ASSUME TypeOK, Phases, NEW s \in Sessions, TaskStep(s) \/ StoreFails(s)
  PROVE  Phases'
<1> USE DEF session, manager, tables, ending, used, Goto
<1>0. Phase(s)
  BY DEF Phases
<1>1. ASSUME \A r \in Sessions : r # s => Bystander(r), Phase(s)' PROVE Phases'
  BY <1>1, BystanderPhase DEF Phases
<1>2. ASSUME NEW kind, Dequeue(s, kind), kind # "disconnect", UNCHANGED <<conn, terminal, finished>>,
             NEW label \in Steps \ Leaving, step' = [step EXCEPT ![s] = label]
      PROVE  Phases'
  <2>1. step'[s] = label /\ \A r \in Sessions : r # s => step'[r] = step[r]
    BY <1>2 DEF TypeOK
  <2>2. \A r \in Sessions : r # s => queue'[r] = queue[r]
    BY <1>2, DequeueTypes
  <2>3. Phase(s)'
    BY <1>0, <1>2, <2>1, DequeuePhase DEF Phase
  <2>4. QED
    BY <1>1, <1>2, <2>1, <2>2, <2>3 DEF Bystander
<1>3. ASSUME step[s] \notin Leaving, step[s] # "idle",
             NEW label \in Steps \ Leaving, step' = [step EXCEPT ![s] = label],
             UNCHANGED <<queue, finished>>,
             \A r \in Sessions : \/ conn'[r] = conn[r]
                                 \/ conn[r] = "open" /\ conn'[r] = "destroyed",
             \A r \in Sessions : r # s => terminal'[r] = terminal[r]
      PROVE  Phases'
  <2>1. step'[s] = label /\ \A r \in Sessions : r # s => step'[r] = step[r]
    BY <1>3 DEF TypeOK
  <2>2. Phase(s)'
    BY <1>0, <1>3, <2>1 DEF Phase
  <2>3. QED
    BY <1>1, <1>3, <2>1, <2>2 DEF Bystander
<1>4. ASSUME step[s] \in Leaving, UNCHANGED <<queue, conn, terminal>>,
             \/ /\ \E label \in Leaving : step' = [step EXCEPT ![s] = label]
                /\ finished' = finished
             \/ step' = [step EXCEPT ![s] = "idle"] /\ finished' = finished \cup {s}
      PROVE  Phases'
  <2>1. \A r \in Sessions : r # s => step'[r] = step[r]
    BY <1>4 DEF TypeOK
  <2>2. Phase(s)'
    BY <1>0, <1>4 DEF Phase, TypeOK, Leaving
  <2>3. QED
    BY <1>1, <1>4, <2>1, <2>2 DEF Bystander
<1> USE DEF Steps, Statements, Identifying, Leaving
<1>5. CASE Create(s)
  BY <1>2, <1>5 DEF Create
<1>6. CASE HandleItem(s)
  <2>1. \E label \in {"logging", "finding"} : step' = [step EXCEPT ![s] = label]
    BY <1>6 DEF HandleItem
  <2>2. Dequeue(s, "frame") /\ UNCHANGED <<conn, terminal, finished>>
    BY <1>6 DEF HandleItem
  <2>3. QED
    BY <1>2, <2>1, <2>2
<1>7. CASE Created(s)
  BY <1>3, <1>7 DEF Created
<1>8. CASE DeviceLookedUp(s)
  BY <1>3, <1>8 DEF DeviceLookedUp
<1>9. CASE DeviceCreated(s)
  BY <1>3, <1>9 DEF DeviceCreated
<1>10. CASE Bind(s)
  BY <1>3, <1>10 DEF Bind, Destroyed, TypeOK
<1>11. CASE Attached(s)
  BY <1>3, <1>11 DEF Attached
<1>12. CASE Attributed(s)
  BY <1>3, <1>12 DEF Attributed
<1>13. CASE Logged(s)
  BY <1>3, <1>13 DEF Logged
<1>14. CASE Seen(s)
  BY <1>3, <1>14 DEF Seen
<1>15. CASE OnDisconnect(s)
  <2>1. /\ queue'[s] = << >> /\ conn[s] = "closed" /\ s \notin finished
        /\ UNCHANGED <<conn, terminal, finished>>
        /\ step'[s] \in Leaving /\ \A r \in Sessions : r # s => step'[r] = step[r]
    BY <1>0, <1>15, DequeuePhase DEF OnDisconnect, TypeOK
  <2>2. \A r \in Sessions : r # s => queue'[r] = queue[r]
    BY <1>15, DequeueTypes DEF OnDisconnect
  <2>3. Phase(s)'
    BY <2>1 DEF Phase
  <2>4. QED
    BY <1>1, <2>1, <2>2, <2>3 DEF Bystander
<1>16. CASE SessionEnded(s)
  BY <1>4, <1>16 DEF SessionEnded
<1>17. CASE Checked(s)
  BY <1>4, <1>17 DEF Checked
<1>18. CASE SetOffline(s)
  BY <1>4, <1>18 DEF SetOffline
<1>19. CASE StoreFails(s)
  <2>1. CASE step[s] \in Leaving
    BY <1>4, <1>19, <2>1 DEF StoreFails, Fails, FinishedByFailure
  <2>2. CASE step[s] \notin Leaving
    BY <1>3, <1>19, <2>2 DEF StoreFails, Fails, FinishedByFailure
  <2>3. QED
    BY <2>1, <2>2
<1>20. QED
  BY <1>5, <1>6, <1>7, <1>8, <1>9, <1>10, <1>11, <1>12, <1>13, <1>14, <1>15, <1>16, <1>17,
     <1>18, <1>19 DEF TaskStep

LEMMA PhaseInit == Init => Phases
BY DEF Init, Phases, Phase, Leaving

LEMMA PhaseStep == Typed /\ Phases /\ [Next]_vars => Phases'
<1> SUFFICES ASSUME Typed, Phases, [Next]_vars PROVE Phases'
  OBVIOUS
<1>1. CASE UNCHANGED vars
  BY <1>1 DEF Phases, Phase, vars, session, ending
<1>2. QED
  BY <1>1, PhaseSockets, PhaseTasks DEF Typed, Next

-----------------------------------------------------------------------------
(***************************************************************************)
(* The session of a device.                                                *)
(***************************************************************************)

\* A step closes or destroys sockets; it opens one only of a new session.
LEMMA ConnStep ==
  ASSUME Typed, Phases, [Next]_vars
  PROVE  \A s \in Sessions :
           conn'[s] = "open" => conn[s] = "open" \/ terminal'[s] = NoDevice
<1> USE DEF session, manager, tables, ending, used, Typed, TypeOK, Phases, Phase
<1>1. ASSUME NEW s \in Sessions,
             OnConnection(s) \/ OnData(s) \/ OnClose(s) \/ TaskStep(s) \/ StoreFails(s)
      PROVE  \A r \in Sessions :
               conn'[r] = "open" => conn[r] = "open" \/ terminal'[r] = NoDevice
  <2>1. CASE OnConnection(s)  BY <2>1 DEF OnConnection
  <2>2. CASE OnData(s)        BY <2>2 DEF OnData
  <2>3. CASE OnClose(s)       BY <2>3 DEF OnClose
  <2>4. CASE TaskStep(s)
    <3>1. CASE Bind(s)  BY <3>1 DEF Bind, Destroyed
    <3>2. CASE ~Bind(s)
      <4>1. conn' = conn
        BY <2>4, <3>2 DEF TaskStep, Create, Created, HandleItem, DeviceLookedUp,
           DeviceCreated, Attached, Attributed, Logged, Seen, OnDisconnect,
           SessionEnded, Checked, SetOffline
      <4>2. QED BY <4>1
    <3>3. QED BY <3>1, <3>2
  <2>5. CASE StoreFails(s)    BY <2>5 DEF StoreFails, Fails
  <2>6. QED BY <1>1, <2>1, <2>2, <2>3, <2>4, <2>5
<1>2. CASE Sweep       BY <1>2 DEF Sweep, Destroyed
<1>3. CASE StopBegins  BY <1>3 DEF StopBegins, Destroyed
<1>4. CASE StopEnds    BY <1>4 DEF StopEnds
<1>5. CASE UNCHANGED vars  BY <1>5 DEF vars
<1>6. QED BY <1>1, <1>2, <1>3, <1>4, <1>5 DEF Next

\* The steps that leave the terminals and byDevice alone are all but these two.
LEMMA BindingStep ==
  ASSUME [Next]_vars
  PROVE  \/ terminal' = terminal /\ byDevice' = byDevice
         \/ \E s \in Sessions : Bind(s) \/ OnDisconnect(s)
<1>1. ASSUME NEW s \in Sessions,
             OnConnection(s) \/ OnData(s) \/ OnClose(s) \/ TaskStep(s) \/ StoreFails(s),
             ~Bind(s), ~OnDisconnect(s)
      PROVE  terminal' = terminal /\ byDevice' = byDevice
  BY <1>1 DEF OnConnection, OnData, OnClose, StoreFails, Fails, TaskStep, Create, Created,
     HandleItem, DeviceLookedUp, DeviceCreated, Attached, Attributed, Logged, Seen,
     SessionEnded, Checked, SetOffline, session, manager
<1>2. CASE Sweep \/ StopBegins \/ StopEnds \/ UNCHANGED vars
  BY <1>2 DEF Sweep, StopBegins, StopEnds, vars, session, manager
<1>3. QED
  BY <1>1, <1>2 DEF Next

LEMMA BoundStep == Typed /\ Phases /\ OpenIsBound /\ [Next]_vars => OpenIsBound'
<1> SUFFICES ASSUME Typed, Phases, OpenIsBound, [Next]_vars PROVE OpenIsBound'
  OBVIOUS
<1>0. \A s \in Sessions :
        conn'[s] = "open" => conn[s] = "open" \/ terminal'[s] = NoDevice
  BY ConnStep
<1>1. CASE terminal' = terminal /\ byDevice' = byDevice
  BY <1>0, <1>1 DEF OpenIsBound
<1>2. ASSUME NEW s \in Sessions, Bind(s) PROVE OpenIsBound'
  <2> DEFINE d == tid[s]
  <2>1. d \in Devices
    BY <1>2 DEF Bind, Typed, TidKnown
  <2>2. /\ terminal'[s] = d /\ \A r \in Sessions : r # s => terminal'[r] = terminal[r]
        /\ byDevice'[d] = s /\ \A e \in Devices : e # d => byDevice'[e] = byDevice[e]
        /\ \A r \in Sessions : r # s /\ r = byDevice[d] => conn'[r] # "open"
    BY <1>2, <2>1 DEF Bind, Destroyed, Typed, TypeOK
  <2>3. ASSUME NEW r \in Sessions, conn'[r] = "open", terminal'[r] # NoDevice, r # s
        PROVE  byDevice'[terminal'[r]] = r
    <3>1. terminal[r] \in Devices /\ byDevice[terminal[r]] = r
      BY <1>0, <2>2, <2>3 DEF OpenIsBound, Typed, TypeOK, DeviceOrNone
    <3>2. QED
      BY <2>2, <2>3, <3>1
  <2>4. QED
    BY <2>2, <2>3 DEF OpenIsBound
<1>3. ASSUME NEW s \in Sessions, OnDisconnect(s) PROVE OpenIsBound'
  <2>1. /\ conn[s] = "closed" /\ conn' = conn /\ terminal' = terminal
        /\ byDevice' = Released(s)
    BY <1>3, DequeuePhase DEF OnDisconnect, session, Phases, Typed
  <2>2. \A d \in Devices : byDevice[d] # s => byDevice'[d] = byDevice[d]
    BY <2>1 DEF Released, Typed, TypeOK, DeviceOrNone
  <2>3. QED
    BY <2>1, <2>2 DEF OpenIsBound, Typed, TypeOK, DeviceOrNone
<1>4. QED
  BY <1>1, <1>2, <1>3, BindingStep

\* A connection that is open and identified is the one that commands to its
\* device go to.
THEOREM OpenSessionIsBound == Spec => []OpenIsBound
<1> DEFINE Inv == Typed /\ Phases /\ OpenIsBound
<1>1. Init => Inv
  BY TypeInit, PhaseInit DEF Init, OpenIsBound
<1>2. Inv /\ [Next]_vars => Inv'
  BY TypeStep, PhaseStep, BoundStep
<1>3. Inv => OpenIsBound
  OBVIOUS
<1> HIDE DEF Inv
<1>4. QED
  BY <1>1, <1>2, <1>3, PTL DEF Spec

-----------------------------------------------------------------------------
(***************************************************************************)
(* Frames go to their device.                                              *)
(***************************************************************************)

\* Until a statement fails, a session whose terminal is not being attached has
\* the device of its terminal.
IdentifiedOK ==
  failures = 0 => \A s \in Sessions :
    /\ terminal[s] = IF step[s] = "attaching" THEN tid[s] ELSE device[s]
    /\ step[s] \in {"attributing", "logging", "seeing"} => device[s] = tid[s]

\* A task step at session s, for the invariants about terminals.
LEMMA IdentifiedStep == Typed /\ IdentifiedOK /\ [Next]_vars => IdentifiedOK'
<1> SUFFICES ASSUME Typed, IdentifiedOK, [Next]_vars PROVE IdentifiedOK'
  OBVIOUS
<1> USE DEF IdentifiedOK, Typed, TypeOK, session, manager, tables, ending, used, Goto
<1>1. ASSUME NEW s \in Sessions, TaskStep(s) PROVE IdentifiedOK'
  <2>1. CASE Create(s)
    BY <2>1, DequeueTypes DEF Create
  <2>2. CASE Created(s)
    BY <2>2 DEF Created
  <2>3. CASE HandleItem(s)
    <3> DEFINE d == Head(queue[s]).tid
    <3>1. /\ tid' = [tid EXCEPT ![s] = d] /\ step[s] = "idle"
          /\ step' = [step EXCEPT ![s] = IF Identified(s, d) THEN "logging" ELSE "finding"]
          /\ UNCHANGED <<terminal, device, failures>>
      BY <2>3, DequeueTypes DEF HandleItem
    <3>2. Identified(s, d) => terminal[s] = d
      BY DEF Identified
    <3> HIDE DEF d
    <3>3. QED
      BY <3>1, <3>2
  <2>4. CASE DeviceLookedUp(s)
    BY <2>4 DEF DeviceLookedUp
  <2>5. CASE DeviceCreated(s)
    BY <2>5 DEF DeviceCreated
  <2>6. CASE Bind(s)
    BY <2>6 DEF Bind
  <2>7. CASE Attached(s)
    BY <2>7 DEF Attached
  <2>8. CASE Attributed(s)
    BY <2>8 DEF Attributed
  <2>9. CASE Logged(s)
    BY <2>9 DEF Logged
  <2>10. CASE Seen(s)
    BY <2>10 DEF Seen
  <2>11. CASE OnDisconnect(s)
    BY <2>11, DequeueTypes DEF OnDisconnect
  <2>12. CASE SessionEnded(s)
    BY <2>12 DEF SessionEnded
  <2>13. CASE Checked(s)
    BY <2>13 DEF Checked
  <2>14. CASE SetOffline(s)
    BY <2>14 DEF SetOffline
  <2>15. QED
    BY <1>1, <2>1, <2>2, <2>3, <2>4, <2>5, <2>6, <2>7, <2>8, <2>9, <2>10, <2>11, <2>12,
       <2>13, <2>14 DEF TaskStep
<1>2. ASSUME NEW s \in Sessions, StoreFails(s) PROVE IdentifiedOK'
  BY <1>2 DEF StoreFails
<1>3. ASSUME UNCHANGED <<step, tid, terminal, device, failures>> PROVE IdentifiedOK'
  BY <1>3
<1>4. ASSUME NEW s \in Sessions, OnConnection(s) \/ OnData(s) \/ OnClose(s)
      PROVE  IdentifiedOK'
  BY <1>3, <1>4 DEF OnConnection, OnData, OnClose
<1>5. CASE Sweep \/ StopBegins \/ StopEnds \/ UNCHANGED vars
  BY <1>3, <1>5 DEF Sweep, StopBegins, StopEnds, vars
<1>6. QED
  BY <1>1, <1>2, <1>4, <1>5 DEF Next

LEMMA IdentifiedInit == Init => IdentifiedOK
BY DEF Init, IdentifiedOK

\* Unless a statement fails, a frame is logged and processed for the device whose
\* terminal ID it carries, also on a connection that changes its terminal ID.
THEOREM FramesReachTheirDevice == Spec => []FramesGoToTheirDevice
<1> DEFINE Inv == Typed /\ IdentifiedOK
<1>1. Init => Inv
  BY TypeInit, IdentifiedInit
<1>2. Inv /\ [Next]_vars => Inv'
  BY TypeStep, IdentifiedStep
<1>3. Inv => FramesGoToTheirDevice
  BY DEF IdentifiedOK, FramesGoToTheirDevice
<1> HIDE DEF Inv
<1>4. QED
  BY <1>1, <1>2, <1>3, PTL DEF Spec

-----------------------------------------------------------------------------
(***************************************************************************)
(* A device is online if and only if it is connected.                      *)
(***************************************************************************)

\* Everything a session knows of comes from its own frames.
IdsOK ==
  /\ \A s \in Sessions :
       /\ terminal[s] # NoDevice => terminal[s] \in setup.ids[s]
       /\ tid[s] # NoDevice => tid[s] \in setup.ids[s]
       /\ \A i \in 1..Len(queue[s]) :
            queue[s][i].kind = "frame" => queue[s][i].tid \in setup.ids[s]
  /\ \A d \in Devices : byDevice[d] # NoSession =>
       d \in setup.ids[byDevice[d]] /\ terminal[byDevice[d]] # NoDevice

\* A device that is marked online has a session whose disconnection is not
\* finished.
OnlineHasSession ==
  failures = 0 /\ OneTerminalEach =>
    \A d \in Devices : online[d] =>
      \E s \in Sessions : terminal[s] = d /\ s \notin finished

LEMMA IdsStep == Typed /\ IdsOK /\ [Next]_vars => IdsOK'
<1> SUFFICES ASSUME Typed, IdsOK, [Next]_vars PROVE IdsOK'
  OBVIOUS
<1> USE DEF IdsOK, Typed, TypeOK, session, manager, tables, ending, used, Goto
<1>1. ASSUME UNCHANGED <<tid, terminal, queue, byDevice, setup>> PROVE IdsOK'
  BY <1>1
<1>2. ASSUME NEW s \in Sessions, NEW t \in Task, Enqueue(s, t),
             t.kind = "frame" => t.tid \in setup.ids[s],
             UNCHANGED <<tid, terminal, byDevice, setup>>
      PROVE  IdsOK'
  <2>1. /\ \A r \in Sessions : r # s => queue'[r] = queue[r]
        /\ \A i \in 1..Len(queue'[s]) :
             \/ i \in 1..Len(queue[s]) /\ queue'[s][i] = queue[s][i]
             \/ queue'[s][i] = t
    BY <1>2, EnqueueTypes
  <2>2. QED
    BY <1>2, <2>1
<1>3. ASSUME NEW s \in Sessions, NEW kind, Dequeue(s, kind)
      PROVE  /\ \A r \in Sessions : \A i \in 1..Len(queue'[r]) :
                  queue'[r][i].kind = "frame" => queue'[r][i].tid \in setup.ids[r]
             /\ kind = "frame" => Head(queue[s]).tid \in setup.ids[s]
  <2>1. /\ 1 \in 1..Len(queue[s]) /\ Head(queue[s]) = queue[s][1]
        /\ Head(queue[s]).kind = kind
        /\ \A t \in Sessions : t # s => queue'[t] = queue[t]
        /\ \A i \in 1..Len(queue'[s]) :
             i + 1 \in 1..Len(queue[s]) /\ queue'[s][i] = queue[s][i + 1]
    BY <1>3, DequeueTypes
  <2>2. \A r \in Sessions : \A i \in 1..Len(queue[r]) :
          queue[r][i].kind = "frame" => queue[r][i].tid \in setup.ids[r]
    BY DEF IdsOK
  <2>3. kind = "frame" => Head(queue[s]).tid \in setup.ids[s]
    BY <2>1, <2>2
  <2>4. \A i \in 1..Len(queue'[s]) :
          queue'[s][i].kind = "frame" => queue'[s][i].tid \in setup.ids[s]
    <3>1. ASSUME NEW i \in 1..Len(queue'[s])
          PROVE  queue'[s][i].kind = "frame" => queue'[s][i].tid \in setup.ids[s]
      <4>1. i + 1 \in 1..Len(queue[s]) /\ queue'[s][i] = queue[s][i + 1]
        BY <2>1
      <4>2. queue[s][i + 1].kind = "frame" => queue[s][i + 1].tid \in setup.ids[s]
        BY <2>2, <4>1
      <4>3. QED
        BY <4>1, <4>2
    <3>2. QED
      BY <3>1
  <2>5. QED
    BY <2>1, <2>2, <2>3, <2>4
<1>4. ASSUME NEW s \in Sessions, OnConnection(s) \/ OnData(s) \/ OnClose(s) PROVE IdsOK'
  <2>1. CASE OnConnection(s)
    <3>1. [kind |-> "create", tid |-> NoDevice] \in Task
      BY DEF Task
    <3>2. QED BY <1>2, <2>1, <3>1 DEF OnConnection
  <2>2. CASE OnData(s)
    <3>1. PICK d \in setup.ids[s] : Enqueue(s, [kind |-> "frame", tid |-> d])
      BY <2>2 DEF OnData
    <3>2. [kind |-> "frame", tid |-> d] \in Task
      BY SessionsAssumption DEF Setup, Task
    <3>3. UNCHANGED <<tid, terminal, byDevice, setup>>
      BY <2>2 DEF OnData
    <3>4. QED BY <1>2, <3>1, <3>2, <3>3
  <2>3. CASE OnClose(s)
    <3>1. [kind |-> "disconnect", tid |-> NoDevice] \in Task
      BY DEF Task
    <3>2. QED BY <1>2, <2>3, <3>1 DEF OnClose
  <2>4. QED BY <1>4, <2>1, <2>2, <2>3
<1>5. ASSUME NEW s \in Sessions, Create(s) \/ HandleItem(s) \/ OnDisconnect(s) PROVE IdsOK'
  <2>1. CASE Create(s)
    BY <1>3, <2>1 DEF Create
  <2>2. CASE HandleItem(s)
    BY <1>3, <2>2 DEF HandleItem
  <2>3. CASE OnDisconnect(s)
    <3>1. \A d \in Devices : byDevice'[d] \in {byDevice[d], NoSession}
      BY <2>3 DEF OnDisconnect, Released
    <3>2. UNCHANGED <<tid, terminal, setup>> /\ Dequeue(s, "disconnect")
      BY <2>3 DEF OnDisconnect
    <3>3. QED BY <1>3, <3>1, <3>2
  <2>4. QED BY <1>5, <2>1, <2>2, <2>3
<1>6. ASSUME NEW s \in Sessions, Bind(s) PROVE IdsOK'
  <2>1. tid[s] \in Devices /\ s # NoSession
    BY <1>6, SessionsAssumption DEF Bind, TidKnown, Sessions, NoSession
  <2>2. QED
    BY <1>6, <2>1, SessionsAssumption DEF Bind
<1>7. ASSUME NEW s \in Sessions, TaskStep(s) \/ StoreFails(s),
             ~ (Create(s) \/ HandleItem(s) \/ OnDisconnect(s) \/ Bind(s))
      PROVE  IdsOK'
  BY <1>1, <1>7 DEF TaskStep, StoreFails, Fails, Created, DeviceLookedUp, DeviceCreated,
     Attached, Attributed, Logged, Seen, SessionEnded, Checked, SetOffline
<1>8. CASE Sweep \/ StopBegins \/ StopEnds \/ UNCHANGED vars
  BY <1>1, <1>8 DEF Sweep, StopBegins, StopEnds, vars
<1>9. QED
  BY <1>4, <1>5, <1>6, <1>7, <1>8 DEF Next

LEMMA IdsInit == Init => IdsOK
BY DEF Init, IdsOK

\* With one terminal ID per connection, the session that byDevice names has the
\* terminal of that device.
LEMMA BoundTerminal ==
  ASSUME Typed, IdsOK, OneTerminalEach, NEW d \in Devices, byDevice[d] # NoSession
  PROVE  terminal[byDevice[d]] = d
<1>1. byDevice[d] \in Sessions
  BY DEF Typed, TypeOK
<1>2. PICK e \in Devices : setup.ids[byDevice[d]] = {e}
  BY <1>1 DEF OneTerminalEach
<1>3. d = e /\ terminal[byDevice[d]] = e
  BY <1>1, <1>2 DEF IdsOK
<1>4. QED
  BY <1>3

LEMMA OnlineStep ==
  ASSUME Typed, Phases, IdsOK, IdentifiedOK, OnlineHasSession, [Next]_vars
  PROVE  OnlineHasSession'
<1> SUFFICES ASSUME failures' = 0, OneTerminalEach'
             PROVE  (\A d \in Devices : online[d] =>
                       \E s \in Sessions : terminal[s] = d /\ s \notin finished)'
  BY DEF OnlineHasSession
<1> DEFINE Live(d) == \E s \in Sessions : terminal[s] = d /\ s \notin finished
           Goal == (\A d \in Devices : online[d] => Live(d))'
<1> SUFFICES Goal
  OBVIOUS
<1> USE DEF session, manager, tables, ending, used, Goto
<1>1. ASSUME NEW s \in Sessions, StoreFails(s) PROVE FALSE
  BY <1>1 DEF StoreFails, Typed, TypeOK
<1>2. setup' = setup /\ failures = 0
  <2>1. ASSUME NEW s \in Sessions, TaskStep(s) PROVE UNCHANGED <<setup, failures>>
    BY <2>1 DEF TaskStep, Create, Created, HandleItem, DeviceLookedUp, DeviceCreated, Bind,
       Attached, Attributed, Logged, Seen, OnDisconnect, SessionEnded, Checked, SetOffline
  <2>2. ASSUME NEW s \in Sessions, OnConnection(s) \/ OnData(s) \/ OnClose(s)
        PROVE  UNCHANGED <<setup, failures>>
    BY <2>2 DEF OnConnection, OnData, OnClose
  <2>3. CASE Sweep \/ StopBegins \/ StopEnds \/ UNCHANGED vars
    BY <2>3 DEF Sweep, StopBegins, StopEnds, vars
  <2>4. QED
    BY <1>1, <2>1, <2>2, <2>3 DEF Next
<1>3. OneTerminalEach /\ \A d \in Devices : online[d] => Live(d)
  BY <1>2 DEF OneTerminalEach, OnlineHasSession
<1>4. \A s \in Sessions :
        /\ terminal[s] = IF step[s] = "attaching" THEN tid[s] ELSE device[s]
        /\ step[s] \in {"attributing", "logging", "seeing"} => device[s] = tid[s]
  BY <1>2 DEF IdentifiedOK
<1>5. ASSUME UNCHANGED <<online, terminal, finished>> PROVE Goal
  BY <1>3, <1>5
<1>6. ASSUME NEW s \in Sessions, Bind(s) PROVE Goal
  <2>1. /\ terminal' = [terminal EXCEPT ![s] = tid[s]] /\ tid[s] \in Devices
        /\ UNCHANGED <<online, finished>>
    BY <1>6 DEF Bind, Typed, TidKnown
  <2>2. terminal[s] \in {NoDevice, tid[s]}
    BY <1>3, <2>1, SessionsAssumption DEF IdsOK, OneTerminalEach
  <2>3. QED
    BY <1>3, <2>1, <2>2, SessionsAssumption DEF Typed, TypeOK
<1>7. ASSUME NEW s \in Sessions, NEW d \in Devices, online' = [online EXCEPT ![d] = TRUE],
             terminal[s] = d, s \notin finished, UNCHANGED <<terminal, finished>>
      PROVE  Goal
  BY <1>3, <1>7 DEF Typed, TypeOK
<1>8. ASSUME NEW s \in Sessions, Attached(s) PROVE Goal
  <2>1. tid[s] \in Devices /\ terminal[s] = tid[s] /\ s \notin finished
    BY <1>4, <1>8 DEF Attached, Typed, TidKnown, Phases, Phase
  <2>2. QED
    BY <1>7, <1>8, <2>1 DEF Attached
<1>9. ASSUME NEW s \in Sessions, Seen(s) PROVE Goal
  <2>1. device[s] \in Devices /\ terminal[s] = device[s] /\ s \notin finished
    BY <1>4, <1>9 DEF Seen, Typed, TypeOK, Phases, Phase
  <2>2. QED
    BY <1>7, <1>9, <2>1 DEF Seen
<1>10. ASSUME NEW s \in Sessions, Checked(s) PROVE Goal
  <2>1. /\ step[s] = "checking" /\ UNCHANGED <<online, terminal>>
        /\ finished' = IF OfflineDue(s) THEN finished ELSE finished \cup {s}
    BY <1>10 DEF Checked
  <2>2. terminal[s] = device[s] /\ conn[s] = "closed"
    BY <1>4, <2>1 DEF Phases, Phase, Leaving
  <2>3. CASE OfflineDue(s)
    BY <1>5, <2>1, <2>3
  <2>4. CASE device[s] = NoDevice
    <3>1. \A d \in Devices : d # NoDevice
      BY SessionsAssumption
    <3>2. QED
      BY <1>3, <2>1, <2>2, <2>4, <3>1
  <2>5. CASE device[s] # NoDevice /\ ~OfflineDue(s)
    <3>1. device[s] \in Devices /\ GetByDeviceId(device[s]) # NoSession
      BY <2>5 DEF OfflineDue, Typed, TypeOK, DeviceOrNone
    <3> DEFINE t == byDevice[device[s]]
    <3>2. t \in Sessions /\ t # NoSession /\ conn[t] # "closed"
      BY <3>1 DEF GetByDeviceId, Typed, TypeOK
    <3>3. terminal[t] = device[s] /\ t # s /\ t \notin finished
      BY <1>3, <2>2, <3>1, <3>2, BoundTerminal DEF Phases, Phase
    <3> HIDE DEF t
    <3>4. QED
      BY <1>3, <2>1, <2>2, <3>2, <3>3
  <2>6. QED
    BY <2>3, <2>4, <2>5
<1>11. ASSUME NEW s \in Sessions, SetOffline(s) PROVE Goal
  <2>1. /\ step[s] = "offline" /\ online' = [online EXCEPT ![device[s]] = FALSE]
        /\ finished' = finished \cup {s} /\ terminal' = terminal
    BY <1>11 DEF SetOffline
  <2>2. terminal[s] = device[s] /\ device[s] \in Devices
    BY <1>4, <2>1 DEF Typed, TypeOK
  <2>3. \A d \in Devices : d # device[s] => online'[d] = online[d]
    BY <2>1 DEF Typed, TypeOK
  <2>4. ~online'[device[s]]
    BY <2>1, <2>2 DEF Typed, TypeOK
  <2>5. QED
    BY <1>3, <2>1, <2>2, <2>3, <2>4
<1>12. ASSUME NEW s \in Sessions, TaskStep(s), ~Bind(s), ~Attached(s), ~Seen(s), ~Checked(s),
              ~SetOffline(s)
       PROVE  Goal
  <2>1. UNCHANGED <<online, terminal, finished>>
    BY <1>12 DEF TaskStep, Create, Created, HandleItem, DeviceLookedUp, DeviceCreated,
       Attributed, Logged, OnDisconnect, SessionEnded
  <2>2. QED BY <1>5, <2>1
<1>13. ASSUME NEW s \in Sessions, OnConnection(s) \/ OnData(s) \/ OnClose(s) PROVE Goal
  <2>1. UNCHANGED <<online, terminal, finished>>
    BY <1>13 DEF OnConnection, OnData, OnClose
  <2>2. QED BY <1>5, <2>1
<1>14. CASE Sweep \/ StopBegins \/ StopEnds \/ UNCHANGED vars
  <2>1. UNCHANGED <<online, terminal, finished>>
    BY <1>14 DEF Sweep, StopBegins, StopEnds, vars
  <2>2. QED BY <1>5, <2>1
<1> HIDE DEF Goal
<1>15. QED
  BY <1>1, <1>6, <1>8, <1>9, <1>10, <1>11, <1>12, <1>13, <1>14 DEF Next

\* With the in-memory store one callback runs at a time: no other session is
\* half way, and none of its statements fails.
Busy(s) == step[s] # "idle" \/ queue[s] # << >>

Exclusive ==
  setup.instant =>
    /\ \A s, t \in Sessions : Busy(s) /\ Busy(t) => s = t
    /\ failures = 0 /\ setup.failures = 0

\* Then the device of a connection is marked online, or about to be; and nobody
\* has taken over a device that is about to be marked offline.
Marked ==
  setup.instant =>
    /\ \A d \in Devices : GetByDeviceId(d) # NoSession /\ ~online[d] =>
         \E s \in Sessions : step[s] = "attaching" /\ tid[s] = d
    /\ \A s \in Sessions, d \in Devices :
         step[s] = "offline" /\ device[s] = d => GetByDeviceId(d) = NoSession

LEMMA ExclusiveInit == Init => Exclusive /\ Marked
<1> SUFFICES ASSUME Init PROVE Exclusive /\ Marked
  OBVIOUS
<1>1. setup.instant => setup.failures = 0
  BY SessionsAssumption DEF Init
<1>2. QED
  BY <1>1 DEF Init, Exclusive, Marked, Busy, GetByDeviceId

\* Only the session of a task, or the one an event is about, gets busy.
LEMMA ExclusiveStep == Typed /\ Exclusive /\ [Next]_vars => Exclusive'
<1> SUFFICES ASSUME Typed, Exclusive, [Next]_vars, setup'.instant
             PROVE  /\ \A s, t \in Sessions : Busy(s)' /\ Busy(t)' => s = t
                    /\ failures' = 0 /\ setup'.failures = 0
  BY DEF Exclusive
<1> USE DEF session, manager, tables, ending, used, Goto
<1>1. ASSUME NEW s \in Sessions,
             \A r \in Sessions : r # s => step'[r] = step[r] /\ queue'[r] = queue[r],
             Busy(s) \/ LoopFree, UNCHANGED <<setup, failures>>
      PROVE  /\ \A r, t \in Sessions : Busy(r)' /\ Busy(t)' => r = t
             /\ failures' = 0 /\ setup'.failures = 0
  <2>1. /\ \A r, t \in Sessions : Busy(r) /\ Busy(t) => r = t
        /\ failures = 0 /\ setup.failures = 0
    BY <1>1 DEF Exclusive
  <2>2. \A r \in Sessions : r # s => ~Busy(r)
    BY <1>1, <2>1 DEF LoopFree, Busy
  <2>3. \A r \in Sessions : r # s => ~Busy(r)'
    BY <1>1, <2>2 DEF Busy
  <2>4. QED
    BY <1>1, <2>1, <2>3
<1>2. ASSUME NEW s \in Sessions, OnConnection(s) \/ OnData(s) \/ OnClose(s)
      PROVE  /\ \A r, t \in Sessions : Busy(r)' /\ Busy(t)' => r = t
             /\ failures' = 0 /\ setup'.failures = 0
  <2>1. UNCHANGED <<step, setup, failures>> /\ LoopFree
    BY <1>2 DEF OnConnection, OnData, OnClose
  <2>2. \A r \in Sessions : r # s => queue'[r] = queue[r]
    BY <1>2 DEF OnConnection, OnData, OnClose, Enqueue, Typed, TypeOK
  <2>3. QED
    BY <1>1, <2>1, <2>2
<1>3. ASSUME NEW s \in Sessions, TaskStep(s)
      PROVE  /\ \A r, t \in Sessions : Busy(r)' /\ Busy(t)' => r = t
             /\ failures' = 0 /\ setup'.failures = 0
  <2>1. UNCHANGED <<setup, failures>>
    BY <1>3 DEF TaskStep, Create, Created, HandleItem, DeviceLookedUp, DeviceCreated, Bind,
       Attached, Attributed, Logged, Seen, OnDisconnect, SessionEnded, Checked, SetOffline
  <2>2. Busy(s)
    BY <1>3 DEF TaskStep, Create, Created, HandleItem, DeviceLookedUp, DeviceCreated, Bind,
       Attached, Attributed, Logged, Seen, OnDisconnect, SessionEnded, Checked, SetOffline,
       Dequeue, Busy
  <2>3. \A r \in Sessions : r # s => step'[r] = step[r]
    BY <1>3 DEF TaskStep, Create, Created, HandleItem, DeviceLookedUp, DeviceCreated, Bind,
       Attached, Attributed, Logged, Seen, OnDisconnect, SessionEnded, Checked, SetOffline,
       Typed, TypeOK
  <2>4. \A r \in Sessions : r # s => queue'[r] = queue[r]
    BY <1>3 DEF TaskStep, Create, Created, HandleItem, DeviceLookedUp, DeviceCreated, Bind,
       Attached, Attributed, Logged, Seen, OnDisconnect, SessionEnded, Checked, SetOffline,
       Dequeue, Typed, TypeOK
  <2>5. QED
    BY <1>1, <2>1, <2>2, <2>3, <2>4
<1>4. ASSUME NEW s \in Sessions, StoreFails(s) PROVE FALSE
  BY <1>4 DEF StoreFails, Fails, Exclusive
<1>5. CASE Sweep \/ StopBegins \/ StopEnds \/ UNCHANGED vars
  <2>1. UNCHANGED <<step, queue, setup, failures>>
    BY <1>5 DEF Sweep, StopBegins, StopEnds, vars
  <2>2. QED
    BY <2>1 DEF Exclusive, Busy
<1>6. QED
  BY <1>2, <1>3, <1>4, <1>5 DEF Next

\* What a step may do to the session of a device without a mark going wrong: it
\* may only lose it.
LEMMA MarkedFewer ==
  ASSUME Typed, Marked, setup' = setup,
         \A d \in Devices : GetByDeviceId(d)' \in {GetByDeviceId(d), NoSession},
         \A d \in Devices : online[d] => online'[d],
         \A r \in Sessions : step[r] = "attaching" =>
           step'[r] = "attaching" /\ tid'[r] = tid[r],
         \A r \in Sessions : step'[r] = "offline" =>
           step[r] = "offline" /\ device'[r] = device[r]
  PROVE  Marked'
<1> SUFFICES ASSUME setup.instant
             PROVE  /\ \A d \in Devices : GetByDeviceId(d)' # NoSession /\ ~online'[d] =>
                         \E s \in Sessions : step'[s] = "attaching" /\ tid'[s] = d
                    /\ \A s \in Sessions, d \in Devices :
                         step'[s] = "offline" /\ device'[s] = d => GetByDeviceId(d)' = NoSession
  BY DEF Marked
<1>1. ASSUME NEW d \in Devices, GetByDeviceId(d)' # NoSession, ~online'[d]
      PROVE  \E s \in Sessions : step'[s] = "attaching" /\ tid'[s] = d
  <2>1. GetByDeviceId(d) # NoSession /\ ~online[d]
    BY <1>1
  <2>2. QED
    BY <2>1 DEF Marked
<1>2. ASSUME NEW s \in Sessions, NEW d \in Devices, step'[s] = "offline", device'[s] = d
      PROVE  GetByDeviceId(d)' = NoSession
  <2>1. step[s] = "offline" /\ device[s] = d
    BY <1>2
  <2>2. GetByDeviceId(d) = NoSession
    BY <2>1 DEF Marked
  <2>3. QED
    BY <2>2
<1>3. QED
  BY <1>1, <1>2

LEMMA MarkedSockets ==
  ASSUME Typed, Marked,
         \/ \E s \in Sessions : OnConnection(s) \/ OnData(s) \/ OnClose(s)
         \/ Sweep \/ StopBegins \/ StopEnds
  PROVE  Marked'
<1>1. /\ UNCHANGED <<byDevice, online, step, tid, device, setup>>
      /\ \A r \in Sessions : conn[r] = "closed" => conn'[r] = "closed"
  BY DEF OnConnection, OnData, OnClose, Sweep, StopBegins, StopEnds, Destroyed, Typed,
     TypeOK, session, manager, tables, ending, used
<1>2. \A d \in Devices : GetByDeviceId(d)' \in {GetByDeviceId(d), NoSession}
  BY <1>1 DEF GetByDeviceId, Typed, TypeOK
<1>3. QED
  BY <1>1, <1>2, MarkedFewer

\* A step of a task; by Exclusive no other session is half way.
LEMMA MarkedTasks ==
  ASSUME Typed, Exclusive, Marked, NEW s \in Sessions, TaskStep(s)
  PROVE  Marked'
<1> USE DEF session, manager, tables, ending, used, Goto
<1>0. /\ setup' = setup
      /\ \A r \in Sessions : r # s => step'[r] = step[r] /\ tid'[r] = tid[r]
                                      /\ device'[r] = device[r]
  BY DEF TaskStep, Create, Created, HandleItem, DeviceLookedUp, DeviceCreated, Bind,
     Attached, Attributed, Logged, Seen, OnDisconnect, SessionEnded, Checked, SetOffline,
     Typed, TypeOK
<1>1. ASSUME ~Bind(s), ~Attached(s), ~Checked(s), ~SetOffline(s) PROVE Marked'
  <2>1. conn' = conn /\ \A d \in Devices : byDevice'[d] \in {byDevice[d], NoSession}
    BY <1>1 DEF TaskStep, Create, Created, HandleItem, DeviceLookedUp, DeviceCreated,
       Attached, Attributed, Logged, Seen, OnDisconnect, SessionEnded, Released, Typed, TypeOK
  <2>2. \A d \in Devices : online[d] => online'[d]
    BY <1>1 DEF TaskStep, Create, Created, HandleItem, DeviceLookedUp, DeviceCreated,
       Attached, Attributed, Logged, Seen, OnDisconnect, SessionEnded, Typed, TypeOK
  <2>3. step[s] # "attaching" /\ step'[s] # "offline"
    BY <1>1 DEF TaskStep, Create, Created, HandleItem, DeviceLookedUp, DeviceCreated,
       Attributed, Logged, Seen, OnDisconnect, SessionEnded, Dequeue, Typed, TypeOK
  <2>4. \A d \in Devices : GetByDeviceId(d)' \in {GetByDeviceId(d), NoSession}
    BY <2>1 DEF GetByDeviceId
  <2>5. QED
    BY <1>0, <2>2, <2>3, <2>4, MarkedFewer
<1>2. SUFFICES ASSUME setup.instant, Bind(s) \/ Attached(s) \/ Checked(s) \/ SetOffline(s)
               PROVE  /\ \A d \in Devices : GetByDeviceId(d)' # NoSession /\ ~online'[d] =>
                           \E t \in Sessions : step'[t] = "attaching" /\ tid'[t] = d
                      /\ \A t \in Sessions, d \in Devices :
                           step'[t] = "offline" /\ device'[t] = d => GetByDeviceId(d)' = NoSession
  BY <1>0, <1>1 DEF Marked
<1>3. /\ \A d \in Devices : GetByDeviceId(d) # NoSession /\ ~online[d] =>
           \E t \in Sessions : step[t] = "attaching" /\ tid[t] = d
      /\ \A t \in Sessions, d \in Devices :
           step[t] = "offline" /\ device[t] = d => GetByDeviceId(d) = NoSession
  BY <1>2 DEF Marked
<1>4. step[s] # "idle" /\ \A r \in Sessions : r # s => step[r] = "idle"
  BY <1>2 DEF Exclusive, Busy, Bind, Attached, Checked, SetOffline
<1>5. CASE Bind(s)
  <2>1. /\ step[s] = "found" /\ step'[s] = "attaching" /\ tid'[s] = tid[s]
        /\ online' = online
        /\ \A d \in Devices : d # tid[s] => byDevice'[d] = byDevice[d]
        /\ \A r \in Sessions : (conn'[r] = "closed") <=> (conn[r] = "closed")
    BY <1>5 DEF Bind, Destroyed, Typed, TypeOK
  <2>2. \A d \in Devices : d # tid[s] =>
          (GetByDeviceId(d)' # NoSession) <=> (GetByDeviceId(d) # NoSession)
    BY <2>1 DEF GetByDeviceId, Typed, TypeOK
  <2>3. ASSUME NEW d \in Devices, GetByDeviceId(d)' # NoSession, ~online'[d]
        PROVE  d = tid'[s]
    BY <1>3, <1>4, <2>1, <2>2, <2>3
  <2>4. \A t \in Sessions : step'[t] # "offline"
    BY <1>0, <1>4, <2>1
  <2>5. QED
    BY <2>1, <2>3, <2>4
<1>6. CASE Attached(s)
  <2>1. /\ step[s] = "attaching" /\ step'[s] # "offline" /\ tid[s] \in Devices
        /\ conn' = conn /\ byDevice' = byDevice
        /\ online' = [online EXCEPT ![tid[s]] = TRUE]
    BY <1>6 DEF Attached, Typed, TypeOK, TidKnown
  <2>2. online'[tid[s]] /\ \A d \in Devices : d # tid[s] => online'[d] = online[d]
    BY <2>1 DEF Typed, TypeOK
  <2>3. ASSUME NEW d \in Devices, GetByDeviceId(d)' # NoSession, ~online'[d] PROVE FALSE
    <3>1. d # tid[s] /\ GetByDeviceId(d) # NoSession /\ ~online[d]
      BY <2>1, <2>2, <2>3 DEF GetByDeviceId
    <3>2. QED
      BY <1>3, <1>4, <3>1
  <2>4. \A t \in Sessions : step'[t] # "offline"
    BY <1>0, <1>4, <2>1
  <2>5. QED
    BY <2>3, <2>4
<1>7. CASE Checked(s)
  <2>1. /\ step[s] = "checking" /\ conn' = conn /\ byDevice' = byDevice
        /\ online' = online /\ device' = device
        /\ step'[s] = "offline" => OfflineDue(s)
    BY <1>7 DEF Checked, Typed, TypeOK
  <2>2. \A d \in Devices : GetByDeviceId(d)' = GetByDeviceId(d)
    BY <2>1 DEF GetByDeviceId
  <2>3. \A t \in Sessions : step[t] # "attaching"
    BY <1>4, <2>1
  <2>4. ASSUME NEW t \in Sessions, step'[t] = "offline" PROVE t = s /\ OfflineDue(s)
    BY <1>0, <1>4, <2>1, <2>4
  <2>5. QED
    BY <1>3, <2>1, <2>2, <2>3, <2>4 DEF OfflineDue
<1>8. CASE SetOffline(s)
  <2>1. /\ step[s] = "offline" /\ step'[s] = "idle" /\ device[s] \in Devices
        /\ conn' = conn /\ byDevice' = byDevice
        /\ online' = [online EXCEPT ![device[s]] = FALSE]
    BY <1>8 DEF SetOffline, Typed, TypeOK
  <2>2. \A d \in Devices : d # device[s] => online'[d] = online[d]
    BY <2>1 DEF Typed, TypeOK
  <2>3. \A d \in Devices : GetByDeviceId(d)' = GetByDeviceId(d)
    BY <2>1 DEF GetByDeviceId
  <2>4. \A t \in Sessions : step[t] # "attaching" /\ step'[t] # "offline"
    BY <1>0, <1>4, <2>1
  <2>5. QED
    BY <1>3, <2>1, <2>2, <2>3, <2>4
<1>9. QED
  BY <1>2, <1>5, <1>6, <1>7, <1>8

LEMMA MarkedStep == Typed /\ Exclusive /\ Marked /\ [Next]_vars => Marked'
<1> SUFFICES ASSUME Typed, Exclusive, Marked, [Next]_vars PROVE Marked'
  OBVIOUS
<1>1. ASSUME NEW s \in Sessions, StoreFails(s) PROVE Marked'
  <2>1. ~setup.instant /\ setup' = setup
    BY <1>1 DEF StoreFails, Fails, Exclusive, Typed, TypeOK
  <2>2. QED
    BY <2>1 DEF Marked
<1>2. CASE UNCHANGED vars
  BY <1>2 DEF Marked, GetByDeviceId, vars, session, manager, tables, used
<1>3. QED
  BY <1>1, <1>2, MarkedSockets, MarkedTasks DEF Next

\* When nothing is half way, a device is online if and only if it has a session
\* that is not closed: what is left of Phases and the marks when every queue is
\* empty.
THEOREM OnlineMeansConnected == Spec => []OnlineIsConnected
<1> DEFINE Inv == /\ Typed /\ Phases /\ OpenIsBound /\ IdentifiedOK /\ IdsOK
                  /\ OnlineHasSession /\ Exclusive /\ Marked
<1>1. Init => Inv
  <2>1. Init => OpenIsBound /\ OnlineHasSession
    BY DEF Init, OpenIsBound, OnlineHasSession
  <2>2. QED
    BY <2>1, TypeInit, PhaseInit, IdentifiedInit, IdsInit, ExclusiveInit
<1>2. Inv /\ [Next]_vars => Inv'
  <2> SUFFICES ASSUME Inv, [Next]_vars PROVE Inv'
    OBVIOUS
  <2>1. Typed' /\ Phases' /\ OpenIsBound'
    BY TypeStep, PhaseStep, BoundStep
  <2>2. IdentifiedOK' /\ IdsOK' /\ OnlineHasSession'
    BY IdentifiedStep, IdsStep, OnlineStep
  <2>3. Exclusive' /\ Marked'
    BY ExclusiveStep, MarkedStep
  <2>4. QED
    BY <2>1, <2>2, <2>3
<1>3. Inv => OnlineIsConnected
  <2> SUFFICES ASSUME Inv, Quiet, NEW d \in Devices
               PROVE  /\ failures = 0 /\ OneTerminalEach /\ online[d]
                           => GetByDeviceId(d) # NoSession
                      /\ setup.instant /\ GetByDeviceId(d) # NoSession => online[d]
    BY DEF OnlineIsConnected
  <2>1. ASSUME failures = 0, OneTerminalEach, online[d] PROVE GetByDeviceId(d) # NoSession
    <3>1. PICK s \in Sessions : terminal[s] = d /\ s \notin finished
      BY <2>1 DEF OnlineHasSession
    <3>2. conn[s] = "open"
      BY <3>1, SessionsAssumption DEF Quiet, Phases, Phase, Leaving, Typed, TypeOK
    <3>3. byDevice[d] = s /\ s # NoSession
      BY <3>1, <3>2, SessionsAssumption DEF OpenIsBound, Sessions, NoSession
    <3>4. QED
      BY <3>2, <3>3 DEF GetByDeviceId
  <2>2. ASSUME setup.instant, GetByDeviceId(d) # NoSession PROVE online[d]
    BY <2>2 DEF Marked, Quiet
  <2>3. QED
    BY <2>1, <2>2
<1> HIDE DEF Inv
<1>4. QED
  BY <1>1, <1>2, <1>3, PTL DEF Spec

-----------------------------------------------------------------------------
(***************************************************************************)
(* Induction and recursion over the natural numbers, by sets and functions: a *)
(* set that contains each number whose predecessors it contains is all of Nat *)
(***************************************************************************)

\* A set of natural numbers that is not empty has a least one.
LEMMA Smallest ==
  ASSUME NEW S \in SUBSET Nat, S # {}
  PROVE  \E m \in S : \A k \in S : m <= k
<1> DEFINE Upto == {0..k : k \in S}
<1>1. Upto \subseteq FiniteSubsetsOf(Nat)
  <2>1. \A k \in S : 0..k \subseteq Nat /\ IsFiniteSet(0..k) BY FS_Interval
  <2> QED BY <2>1 DEF FiniteSubsetsOf
<1>2. \E x \in Upto : \A y \in Upto : <<y, x>> \notin StrictSubsetOrdering(Nat)
  <2>1. Upto # {} OBVIOUS
  <2> HIDE DEF Upto
  <2> QED BY <1>1, <2>1, WFMin, FS_StrictSubsetOrderingWellFounded
<1>3. PICK m \in S : \A k \in S : <<0..k, 0..m>> \notin StrictSubsetOrdering(Nat) BY <1>2
<1>4. ASSUME NEW k \in S, k < m PROVE FALSE
  <2>1. 0..k \subseteq 0..m /\ 0..k # 0..m /\ 0..k \subseteq Nat /\ 0..m \subseteq Nat
    <3>1. m \in 0..m /\ m \notin 0..k BY <1>4
    <3> QED BY <3>1, <1>4
  <2>2. <<0..k, 0..m>> \in StrictSubsetOrdering(Nat)
    BY <2>1 DEF StrictSubsetOrdering
  <2> QED BY <2>2, <1>3
<1> QED BY <1>3, <1>4

\* Induction on the predecessors of a number, for a set instead of a predicate.
LEMMA Induction ==
  ASSUME NEW S, \A n \in Nat : (\A k \in Nat : k < n => k \in S) => n \in S
  PROVE  Nat \subseteq S
<1> DEFINE T == Nat \ S
<1> SUFFICES ASSUME T # {} PROVE FALSE OBVIOUS
<1>1. PICK m \in T : \A k \in T : m <= k
  <2>1. T \in SUBSET Nat OBVIOUS
  <2> HIDE DEF T
  <2> QED BY <2>1, Smallest
<1>2. \A k \in Nat : k < m => k \in S BY <1>1
<1> QED BY <1>1, <1>2

\* A recursion over D in which each element refers to at most one of lower rank.
IsRecursion(D, V, rank, final, next, base, comb) ==
  /\ rank \in [D -> Nat] /\ final \in SUBSET D /\ next \in [D -> D]
  /\ base \in [D -> V] /\ comb \in [D \X V -> V]
  /\ \A d \in D : d \notin final => rank[next[d]] < rank[d]

\* A function by such a recursion exists.  (Where the definition is a function
\* f[d \in D] == ..., what f is follows: CHOOSE finds one.)
LEMMA Recursion ==
  ASSUME NEW D, NEW V, NEW rank, NEW final, NEW next, NEW base, NEW comb,
         IsRecursion(D, V, rank, final, next, base, comb)
  PROVE  \E f \in [D -> V] :
           \A d \in D : f[d] = IF d \in final THEN base[d] ELSE comb[<<d, f[next[d]]>>]
<1>0. /\ rank \in [D -> Nat] /\ final \in SUBSET D /\ next \in [D -> D]
      /\ base \in [D -> V] /\ comb \in [D \X V -> V]
      /\ \A d \in D : d \notin final => rank[next[d]] < rank[d]
  BY DEF IsRecursion
<1> USE <1>0
<1> DEFINE Below(n) == {d \in D : rank[d] < n}
           Step(g, d) == IF d \in final THEN base[d] ELSE comb[<<d, g[next[d]]>>]
           Sat(g, n) == g \in [Below(n) -> V] /\ \A d \in Below(n) : g[d] = Step(g, d)
<1>1. ASSUME NEW n \in Nat, NEW m \in Nat, NEW g, NEW h, Sat(g, n), Sat(h, m)
      PROVE  \A d \in D : rank[d] < n /\ rank[d] < m => g[d] = h[d]
  <2> DEFINE S == {k \in Nat : \A d \in D : rank[d] = k /\ k < n /\ k < m => g[d] = h[d]}
  <2>1. ASSUME NEW k \in Nat, \A j \in Nat : j < k => j \in S PROVE k \in S
    <3> SUFFICES ASSUME NEW d \in D, rank[d] = k, k < n, k < m PROVE g[d] = h[d]
      OBVIOUS
    <3>1. g[d] = Step(g, d) /\ h[d] = Step(h, d) BY <1>1
    <3>2. CASE d \in final BY <3>1, <3>2
    <3>3. CASE d \notin final
      <4>1. next[d] \in D /\ rank[next[d]] \in Nat /\ rank[next[d]] < k BY <3>3
      <4>2. g[next[d]] = h[next[d]] BY <4>1, <2>1
      <4> QED BY <3>1, <3>3, <4>2
    <3> QED BY <3>2, <3>3
  <2>2. Nat \subseteq S
    <3> HIDE DEF S
    <3> QED BY <2>1, Induction
  <2> QED BY <2>2
<1>2. \A n \in Nat : \E g : Sat(g, n)
  <2> DEFINE S == {n \in Nat : \E g : Sat(g, n)}
  <2>1. ASSUME NEW n \in Nat, \A k \in Nat : k < n => k \in S PROVE n \in S
    <3>1. CASE n = 0
      <4>1. Below(0) = {} OBVIOUS
      <4>2. Sat([d \in {} |-> d], 0) BY <4>1
      <4> QED BY <4>2, <3>1
    <3>2. CASE n # 0
      <4>1. n - 1 \in Nat /\ n - 1 < n BY <3>2
      <4>2. PICK g : Sat(g, n - 1) BY <2>1, <4>1
      <4> DEFINE h == [d \in Below(n) |-> IF rank[d] < n - 1 THEN g[d] ELSE Step(g, d)]
      <4>3. ASSUME NEW d \in Below(n) PROVE h[d] \in V /\ h[d] = Step(h, d)
        <5>1. ASSUME d \notin final
              PROVE /\ next[d] \in Below(n - 1) /\ next[d] \in Below(n)
                    /\ h[next[d]] = g[next[d]] /\ g[next[d]] \in V
          BY <5>1, <4>2, <4>1
        <5>2. Step(h, d) = Step(g, d) BY <5>1
        <5>3. Step(g, d) \in V BY <5>1
        <5>4. rank[d] < n - 1 => g[d] = Step(g, d) BY <4>2
        <5> QED BY <5>2, <5>3, <5>4
      <4>4. Sat(h, n) BY <4>3
      <4> QED BY <4>4
    <3> QED BY <3>1, <3>2
  <2>2. Nat \subseteq S
    <3> HIDE DEF S
    <3> QED BY <2>1, Induction
  <2> QED BY <2>2
<1> DEFINE G(n) == CHOOSE g : Sat(g, n)
           f == [d \in D |-> G(rank[d] + 1)[d]]
<1>3. \A n \in Nat : Sat(G(n), n) BY <1>2
<1>4. ASSUME NEW d \in D PROVE f[d] \in V /\ f[d] = Step(f, d)
  <2>1. rank[d] \in Nat /\ rank[d] + 1 \in Nat OBVIOUS
  <2>2. Sat(G(rank[d] + 1), rank[d] + 1) BY <2>1, <1>3
  <2>3. f[d] = G(rank[d] + 1)[d] OBVIOUS
  <2>4. ASSUME d \notin final
        PROVE  f[next[d]] = G(rank[d] + 1)[next[d]]
    <3>1. next[d] \in D /\ rank[next[d]] \in Nat /\ rank[next[d]] < rank[d] BY <2>4
    <3>2. Sat(G(rank[next[d]] + 1), rank[next[d]] + 1)
      <4>1. rank[next[d]] + 1 \in Nat BY <3>1
      <4> HIDE DEF Sat, G
      <4> QED BY <4>1, <1>3
    <3>3. G(rank[next[d]] + 1)[next[d]] = G(rank[d] + 1)[next[d]]
      <4> HIDE DEF Sat, G
      <4> QED BY <1>1, <2>1, <2>2, <3>1, <3>2
    <3> QED BY <3>1, <3>3
  <2>5. d \in Below(rank[d] + 1) BY <2>1
  <2>6. f[d] \in V BY <2>2, <2>3, <2>5
  <2>7. f[d] = Step(G(rank[d] + 1), d) BY <2>2, <2>3, <2>5
  <2>8. Step(f, d) = Step(G(rank[d] + 1), d)
    <3> HIDE DEF f, G
    <3> QED BY <2>4
  <2> HIDE DEF f, G, Step
  <2> QED BY <2>6, <2>7, <2>8
<1>5. f \in [D -> V] BY <1>4
<1> HIDE DEF f
<1> QED BY <1>4, <1>5

-----------------------------------------------------------------------------
(***************************************************************************)
(* Lists of elements: what FlattenSeq makes of a list of encoded elements  *)
(* (buildParamList and the additional items of a report), which bytes each *)
(* element takes, and what Walk, the loop of decodeAdditionalItems and     *)
(* decodeParamList, reads of the first n of them                           *)
(***************************************************************************)

\* g[k] is the concatenation of the first k sequences.
Concatenates(g, seqs) ==
  \A k \in 1..Len(seqs) : g[k] = IF k = 1 THEN seqs[1] ELSE g[k - 1] \o seqs[k]

\* FlattenSeq is such a concatenation.
LEMMA FlattenFunction ==
  ASSUME NEW S, NEW seqs \in Seq(Seq(S)), seqs # << >>
  PROVE  \E g \in [1..Len(seqs) -> Seq(S)] :
           Concatenates(g, seqs) /\ FlattenSeq(seqs) = g[Len(seqs)]
<1> DEFINE D == 1..Len(seqs)
           V == Seq(S)
           R(g) == [k \in D |-> IF k = 1 THEN seqs[k] ELSE g[k - 1] \o seqs[k]]
           rank == [k \in D |-> k]
           final == {k \in D : k = 1}
           next == [k \in D |-> IF k = 1 THEN 1 ELSE k - 1]
           base == [k \in D |-> seqs[k]]
           comb == [x \in D \X V |-> x[2] \o seqs[x[1]]]
<1>1. Len(seqs) \in Nat \ {0} /\ \A k \in D : seqs[k] \in V
  BY EmptySeq, ElementOfSeq
<1>2. IsRecursion(D, V, rank, final, next, base, comb)
  <2>1. \A u \in V, w \in V : u \o w \in V BY ConcatProperties
  <2> HIDE DEF V
  <2>2. comb \in [D \X V -> V] BY <1>1, <2>1
  <2>3. rank \in [D -> Nat] /\ final \in SUBSET D /\ base \in [D -> V] BY <1>1
  <2>4. next \in [D -> D] /\ \A d \in D : d \notin final => rank[next[d]] < rank[d] BY <1>1
  <2> HIDE DEF comb, rank, final, base, next, D
  <2> QED BY <2>2, <2>3, <2>4 DEF IsRecursion
<1>3. PICK g \in [D -> V] :
        \A d \in D : g[d] = IF d \in final THEN base[d] ELSE comb[<<d, g[next[d]]>>]
  <2> HIDE DEF D, V, rank, final, next, base, comb
  <2> QED BY <1>2, Recursion
<1>4. ASSUME NEW d \in D PROVE g[d] = R(g)[d]
  <2>1. CASE d = 1
    <3>1. d \in final /\ base[d] = seqs[d] BY <2>1
    <3> HIDE DEF final, base, comb, next
    <3> QED BY <3>1, <2>1, <1>3
  <2>2. CASE d # 1
    <3>1. d \notin final /\ next[d] = d - 1 /\ d - 1 \in D BY <2>2, <1>1
    <3>2. g[d - 1] \in V
      <4> HIDE DEF V
      <4> QED BY <3>1
    <3>3. comb[<<d, g[d - 1]>>] = g[d - 1] \o seqs[d]
      <4> HIDE DEF V, D
      <4> QED BY <3>2
    <3> HIDE DEF final, base, comb, next
    <3> QED BY <3>1, <3>3, <2>2, <1>3
  <2> QED BY <2>1, <2>2
<1>5. g = R(g)
  <2>1. g = [d \in D |-> g[d]] OBVIOUS
  <2> QED BY <1>4, <2>1
<1> DEFINE flatten == CHOOSE f : f = R(f)
<1>6. flatten = R(flatten)
  <2> HIDE DEF R
  <2> QED BY <1>5
<1>7. FlattenSeq(seqs) = flatten[Len(seqs)]
  BY <1>1 DEF FlattenSeq
<1> HIDE DEF flatten
<1>8. Concatenates(flatten, seqs)
  BY <1>6, <1>1 DEF Concatenates
<1> DEFINE T == {k \in Nat : k \in D => flatten[k] \in V}
<1>9. ASSUME NEW k \in Nat, \A j \in Nat : j < k => j \in T PROVE k \in T
  <2> SUFFICES ASSUME k \in D PROVE flatten[k] \in V
    OBVIOUS
  <2>1. CASE k = 1 BY <2>1, <1>1, <1>8 DEF Concatenates
  <2>2. CASE k # 1
    <3>1. k - 1 \in Nat /\ k - 1 \in D /\ k - 1 < k BY <2>2
    <3>2. flatten[k - 1] \in V /\ seqs[k] \in V
      <4> HIDE DEF V
      <4> QED BY <3>1, <1>9, <1>1
    <3>3. flatten[k] = flatten[k - 1] \o seqs[k]
      BY <2>2, <1>8 DEF Concatenates
    <3> QED BY <3>2, <3>3, ConcatProperties
  <2> QED BY <2>1, <2>2
<1>10. Nat \subseteq T
  <2> HIDE DEF T
  <2> QED BY <1>9, Induction
<1>11. flatten \in [D -> V]
  <2>1. \A k \in D : k \in Nat /\ flatten[k] \in V
    <3> HIDE DEF V
    <3> QED BY <1>10
  <2>2. flatten = [k \in D |-> flatten[k]]
    <3> HIDE DEF V
    <3> QED BY <1>6
  <2> HIDE DEF V, D
  <2> QED BY <2>1, <2>2
<1> QED BY <1>7, <1>8, <1>11

\* No sequences.
LEMMA FlattenEmpty == FlattenSeq(<< >>) = << >>
BY DEF FlattenSeq

\* s is the beginning of t.
Begins(s, t) == Len(s) <= Len(t) /\ \A i \in 1..Len(s) : s[i] = t[i]

\* Sequences that begin alike have concatenations that begin alike.
LEMMA ConcatenatesAgree ==
  ASSUME NEW S, NEW s \in Seq(Seq(S)), NEW t \in Seq(Seq(S)), NEW g, NEW h,
         Concatenates(g, s), Concatenates(h, t), Begins(s, t)
  PROVE  \A i \in 1..Len(s) : g[i] = h[i]
<1> DEFINE T == {k \in Nat : k \in 1..Len(s) => g[k] = h[k]}
<1>1. ASSUME NEW k \in Nat, \A j \in Nat : j < k => j \in T PROVE k \in T
  <2> SUFFICES ASSUME k \in 1..Len(s) PROVE g[k] = h[k]
    OBVIOUS
  <2>0. Len(s) \in Nat /\ Len(t) \in Nat BY LenProperties
  <2>1. k \in 1..Len(t) /\ s[k] = t[k] BY <2>0 DEF Begins
  <2>2. g[k] = IF k = 1 THEN s[1] ELSE g[k - 1] \o s[k] BY DEF Concatenates
  <2>3. h[k] = IF k = 1 THEN t[1] ELSE h[k - 1] \o t[k] BY <2>1 DEF Concatenates
  <2>4. CASE k = 1 BY <2>1, <2>2, <2>3, <2>4
  <2>5. CASE k # 1
    <3>1. k - 1 \in Nat /\ k - 1 < k /\ k - 1 \in 1..Len(s) BY <2>5, <2>0
    <3>2. g[k - 1] = h[k - 1] BY <3>1, <1>1
    <3> QED BY <2>1, <2>2, <2>3, <2>5, <3>2
  <2> QED BY <2>4, <2>5
<1>2. Nat \subseteq T
  <2> HIDE DEF T
  <2> QED BY <1>1, Induction
<1>3. Len(s) \in Nat BY LenProperties
<1> QED BY <1>2, <1>3

\* The concatenation of sequences over S is one.
LEMMA FlattenType ==
  ASSUME NEW S, NEW seqs \in Seq(Seq(S))
  PROVE  FlattenSeq(seqs) \in Seq(S)
<1>1. CASE seqs = << >>
  BY <1>1, FlattenEmpty, EmptySeq
<1>2. CASE seqs # << >>
  <2>1. PICK g \in [1..Len(seqs) -> Seq(S)] : FlattenSeq(seqs) = g[Len(seqs)]
    BY <1>2, FlattenFunction
  <2>2. Len(seqs) \in 1..Len(seqs) BY <1>2, EmptySeq
  <2> QED BY <2>1, <2>2
<1> QED BY <1>1, <1>2

\* One more sequence.
LEMMA FlattenAppend ==
  ASSUME NEW S, NEW seqs \in Seq(Seq(S)), NEW last \in Seq(S)
  PROVE  FlattenSeq(Append(seqs, last)) = FlattenSeq(seqs) \o last
<1> DEFINE joined == Append(seqs, last)
<1>1. /\ joined \in Seq(Seq(S)) /\ joined # << >> /\ Len(joined) = Len(seqs) + 1
      /\ Len(seqs) \in Nat
      /\ \A i \in 1..Len(seqs) : joined[i] = seqs[i]
      /\ joined[Len(joined)] = last
  BY AppendProperties, LenProperties
<1> HIDE DEF joined
<1>2. PICK h \in [1..Len(joined) -> Seq(S)] :
        Concatenates(h, joined) /\ FlattenSeq(joined) = h[Len(joined)]
  BY <1>1, FlattenFunction
<1>3. Len(joined) \in 1..Len(joined) BY <1>1
<1>4. CASE seqs = << >>
  <2>1. Len(seqs) = 0 BY <1>4, EmptySeq
  <2>2. h[1] = joined[1] BY <1>2, <1>3, <1>1, <2>1 DEF Concatenates
  <2>3. FlattenSeq(joined) = last BY <1>1, <1>2, <2>1, <2>2
  <2>4. FlattenSeq(seqs) \o last = last BY <1>4, FlattenEmpty, ConcatEmptySeq
  <2> QED BY <2>3, <2>4 DEF joined
<1>5. CASE seqs # << >>
  <2>1. PICK g \in [1..Len(seqs) -> Seq(S)] :
          Concatenates(g, seqs) /\ FlattenSeq(seqs) = g[Len(seqs)]
    BY <1>5, FlattenFunction
  <2>2. Len(seqs) # 0 BY <1>5, EmptySeq
  <2>3. \A i \in 1..Len(seqs) : g[i] = h[i]
    <3>1. Begins(seqs, joined) BY <1>1 DEF Begins
    <3>2. Concatenates(g, seqs) /\ Concatenates(h, joined) /\ joined \in Seq(Seq(S))
      BY <1>1, <1>2, <2>1
    <3> QED BY <3>1, <3>2, ConcatenatesAgree, SMTT(20)
  <2>4. Len(joined) # 1 /\ Len(joined) - 1 = Len(seqs) /\ Len(seqs) \in 1..Len(seqs) BY <1>1, <2>2
  <2>5. h[Len(joined)] = h[Len(seqs)] \o last BY <1>1, <1>2, <1>3, <2>4 DEF Concatenates
  <2> QED BY <1>2, <2>1, <2>3, <2>4, <2>5 DEF joined
<1> QED BY <1>4, <1>5

\* The concatenation of two lists of sequences.
LEMMA FlattenConcat ==
  ASSUME NEW S, NEW s \in Seq(Seq(S)), NEW t \in Seq(Seq(S))
  PROVE  FlattenSeq(s \o t) = FlattenSeq(s) \o FlattenSeq(t)
<1> DEFINE T == {n \in Nat : \A u \in Seq(Seq(S)) : Len(u) = n =>
                   FlattenSeq(s \o u) = FlattenSeq(s) \o FlattenSeq(u)}
<1>1. ASSUME NEW n \in Nat, \A k \in Nat : k < n => k \in T PROVE n \in T
  <2> SUFFICES ASSUME NEW u \in Seq(Seq(S)), Len(u) = n
               PROVE  FlattenSeq(s \o u) = FlattenSeq(s) \o FlattenSeq(u)
    OBVIOUS
  <2>1. CASE u = << >>
    <3>1. s \o u = s BY <2>1, ConcatEmptySeq
    <3>2. FlattenSeq(s) \o << >> = FlattenSeq(s) BY FlattenType, ConcatEmptySeq
    <3> QED BY <2>1, <3>1, <3>2, FlattenEmpty
  <2>2. CASE u # << >>
    <3>1. PICK v \in Seq(Seq(S)), e \in Seq(S) : u = Append(v, e)
      BY <2>2, SequenceEmptyOrAppend
    <3>2. Len(v) \in Nat /\ Len(v) < n
      <4>1. Len(u) = Len(v) + 1 BY <3>1, AppendProperties
      <4>2. Len(v) \in Nat BY LenProperties
      <4> QED BY <4>1, <4>2
    <3>3. FlattenSeq(s \o v) = FlattenSeq(s) \o FlattenSeq(v)
      BY <1>1, <3>2
    <3>4. s \o u = Append(s \o v, e)
      <4>1. u = v \o <<e>> /\ <<e>> \in Seq(Seq(S)) BY <3>1, AppendIsConcat
      <4>2. s \o v \in Seq(Seq(S)) BY ConcatProperties
      <4>3. Append(s \o v, e) = (s \o v) \o <<e>> BY <4>2, AppendIsConcat
      <4>4. (s \o v) \o <<e>> = s \o (v \o <<e>>) BY <4>1, ConcatAssociative, SMTT(20)
      <4> QED BY <4>1, <4>3, <4>4
    <3>5. FlattenSeq(s \o u) = FlattenSeq(s \o v) \o e
      <4>1. s \o v \in Seq(Seq(S)) BY ConcatProperties
      <4> QED BY <3>4, <4>1, FlattenAppend
    <3>6. FlattenSeq(u) = FlattenSeq(v) \o e
      BY <3>1, FlattenAppend
    <3>7. /\ FlattenSeq(s) \in Seq(S) /\ FlattenSeq(v) \in Seq(S) BY FlattenType
    <3>8. (FlattenSeq(s) \o FlattenSeq(v)) \o e = FlattenSeq(s) \o (FlattenSeq(v) \o e)
      BY <3>7, ConcatAssociative, SMTT(20)
    <3> QED BY <3>3, <3>5, <3>6, <3>8
  <2> QED BY <2>1, <2>2
<1>2. Nat \subseteq T
  <2> HIDE DEF T
  <2> QED BY <1>1, Induction
<1>3. Len(t) \in Nat BY LenProperties
<1> QED BY <1>2, <1>3

\* One sequence.
LEMMA FlattenOne ==
  ASSUME NEW S, NEW e \in Seq(S)
  PROVE  FlattenSeq(<<e>>) = e
<1>1. <<e>> = Append(<< >>, e) /\ << >> \in Seq(Seq(S)) BY EmptySeq, AppendProperties
<1>2. FlattenSeq(Append(<< >>, e)) = FlattenSeq(<< >>) \o e BY <1>1, FlattenAppend
<1>3. FlattenSeq(<< >>) \o e = e BY FlattenEmpty, ConcatEmptySeq
<1> QED BY <1>1, <1>2, <1>3

\* A function on 1..n is a sequence.
LEMMA FunctionIsSeq ==
  ASSUME NEW S, NEW n \in Nat, NEW f \in [1..n -> S]
  PROVE  f \in Seq(S) /\ Len(f) = n
<1>1. f \in Seq(S) BY SeqDef
<1>2. DOMAIN f = 1..n /\ DOMAIN f = 1..Len(f) /\ Len(f) \in Nat BY <1>1, LenProperties
<1>3. Len(f) = n
  <2>1. CASE Len(f) < n
    <3>1. n \in 1..n /\ n \notin 1..Len(f) BY <2>1, <1>2
    <3> QED BY <3>1, <1>2
  <2>2. CASE Len(f) > n
    <3>1. Len(f) \in 1..Len(f) /\ Len(f) \notin 1..n BY <2>2, <1>2
    <3> QED BY <3>1, <1>2
  <2> QED BY <2>1, <2>2, <1>2
<1> QED BY <1>1, <1>3

\* The bytes of one element.
Chunk(e) == e.id \o <<Len(e.value) % 256>> \o e.value

\* The bytes of each element of a list.
Chunks(items) == [i \in DOMAIN items |-> Chunk(items[i])]

\* A list whose headers, of h bytes, say how long its values are.
IsList(items, h) ==
  /\ items \in Seq(Elements) /\ h \in Nat \ {0}
  /\ \A i \in 1..Len(items) : Len(items[i].id) + 1 = h /\ Len(items[i].value) < 256

\* A length below 256 is its own byte.
LEMMA ByteOfLength ==
  ASSUME NEW n \in 0..255
  PROVE  n % 256 = n
OBVIOUS

\* Which byte of an element's chunk is which.
LEMMA ChunkShape ==
  ASSUME NEW e \in Elements, Len(e.value) < 256
  PROVE  /\ Chunk(e) \in Seq(Byte) /\ Len(Chunk(e)) = Len(e.id) + 1 + Len(e.value)
         /\ Len(e.id) \in Nat /\ Len(e.value) \in Nat
         /\ \A j \in 1..Len(e.id) : Chunk(e)[j] = e.id[j]
         /\ Chunk(e)[Len(e.id) + 1] = Len(e.value)
         /\ \A j \in 1..Len(e.value) : Chunk(e)[Len(e.id) + 1 + j] = e.value[j]
<1> DEFINE id == e.id
           value == e.value
           one == <<Len(value) % 256>>
<1>1. /\ id \in Seq(Byte) /\ value \in Seq(Byte) /\ Len(id) \in Nat
      /\ Len(value) \in Nat /\ Len(value) \in 0..255
  <2>1. e.id \in Seq(Byte) /\ e.value \in Seq(Byte) BY DEF Elements
  <2>2. Len(e.id) \in Nat /\ Len(e.value) \in Nat BY <2>1, LenProperties
  <2>3. \A n \in Nat : n < 256 => n \in 0..255 OBVIOUS
  <2> QED BY <2>1, <2>2, <2>3
<1>2. Chunk(e) = (id \o one) \o value BY DEF Chunk
<1> HIDE DEF id, value
<1>3. Len(value) % 256 = Len(value) /\ Len(value) \in Byte
  <2>1. Len(value) \in 0..255 BY <1>1
  <2> QED BY <2>1, ByteOfLength DEF Byte
<1>4. one \in Seq(Byte) /\ Len(one) = 1 /\ one[1] = Len(value) BY <1>3
<1> HIDE DEF one
<1>5. /\ id \o one \in Seq(Byte) /\ Len(id \o one) = Len(id) + 1
      /\ \A i \in 1..Len(id) : (id \o one)[i] = id[i]
      /\ (id \o one)[Len(id) + 1] = Len(value)
  <2>1. /\ id \o one \in Seq(Byte) /\ Len(id \o one) = Len(id) + 1
        /\ \A i \in 1..(Len(id) + 1) : (id \o one)[i] = IF i <= Len(id) THEN id[i] ELSE one[i - Len(id)]
    <3>1. /\ id \o one \in Seq(Byte) /\ Len(id \o one) = Len(id) + Len(one)
          /\ \A i \in 1..(Len(id) + Len(one)) :
               (id \o one)[i] = IF i <= Len(id) THEN id[i] ELSE one[i - Len(id)]
      <4>1. id \in Seq(Byte) /\ one \in Seq(Byte) BY <1>1, <1>4
      <4> QED BY <4>1, ConcatProperties
    <3> QED BY <3>1, <1>4
  <2>2. Len(id) + 1 \in 1..(Len(id) + 1) /\ ~(Len(id) + 1 <= Len(id)) /\ Len(id) + 1 - Len(id) = 1
    BY <1>1
  <2>3. (id \o one)[Len(id) + 1] = one[1] BY <2>1, <2>2
  <2> QED BY <2>1, <2>3, <1>4, <1>1
<1> DEFINE head == id \o one
<1> HIDE DEF head
<1>6. /\ head \o value \in Seq(Byte) /\ Len(head \o value) = Len(head) + Len(value)
      /\ \A i \in 1..(Len(head) + Len(value)) :
           (head \o value)[i] = IF i <= Len(head) THEN head[i] ELSE value[i - Len(head)]
  BY <1>1, <1>5, ConcatProperties DEF head
<1>7. \A i \in 1..(Len(id) + 1) : (head \o value)[i] = head[i]
  BY <1>6, <1>5, <1>1 DEF head
<1>8. \A j \in 1..Len(value) : (head \o value)[Len(id) + 1 + j] = value[j]
  <2> SUFFICES ASSUME NEW j \in 1..Len(value)
               PROVE  (head \o value)[Len(id) + 1 + j] = value[j]
    OBVIOUS
  <2> DEFINE i == Len(id) + 1 + j
  <2>1. /\ i \in 1..(Len(head) + Len(value)) /\ ~(i <= Len(head)) /\ i - Len(head) = j
    BY <1>1, <1>5 DEF head
  <2> HIDE DEF i
  <2>2. (head \o value)[i] = value[j] BY <2>1, <1>6
  <2> QED BY <2>2 DEF i
<1>9. Chunk(e) = head \o value BY <1>2 DEF head
<1>10. Len(head) = Len(id) + 1 BY <1>5 DEF head
<1>11. \A i \in 1..Len(id) : (head \o value)[i] = id[i]
  BY <1>7, <1>5, <1>1 DEF head
<1>12. (head \o value)[Len(id) + 1] = Len(value)
  BY <1>7, <1>5, <1>1 DEF head
<1> HIDE DEF head
<1> QED
  BY <1>1, <1>6, <1>8, <1>9, <1>10, <1>11, <1>12 DEF id, value

\* Encoded concatenates the chunks.
LEMMA ChunksShape ==
  ASSUME NEW h, NEW items, IsList(items, h)
  PROVE  /\ Chunks(items) \in Seq(Seq(Byte)) /\ Len(Chunks(items)) = Len(items)
         /\ \A i \in 1..Len(items) : Chunks(items)[i] = Chunk(items[i])
         /\ Encoded(items) = FlattenSeq(Chunks(items))
<1>1. items \in Seq(Elements) /\ Len(items) \in Nat /\ DOMAIN items = 1..Len(items)
  BY LenProperties DEF IsList
<1>2. \A i \in 1..Len(items) : items[i] \in Elements /\ Len(items[i].value) < 256
  BY <1>1, ElementOfSeq DEF IsList
<1>3. \A i \in 1..Len(items) : Chunk(items[i]) \in Seq(Byte)
  BY <1>2, ChunkShape
<1>4. Chunks(items) = [i \in 1..Len(items) |-> Chunk(items[i])]
  BY <1>1 DEF Chunks
<1>5. Chunks(items) \in [1..Len(items) -> Seq(Byte)]
  BY <1>3, <1>4
<1>6. Encoded(items) = FlattenSeq(Chunks(items))
  BY DEF Encoded, Chunks, Chunk
<1>7. Chunks(items) \in Seq(Seq(Byte)) /\ Len(Chunks(items)) = Len(items)
  BY <1>1, <1>5, FunctionIsSeq
<1>8. \A i \in 1..Len(items) : Chunks(items)[i] = Chunk(items[i])
  BY <1>4
<1> QED BY <1>6, <1>7, <1>8

\* The first k of a sequence.
LEMMA CutShape ==
  ASSUME NEW S, NEW s \in Seq(S), NEW k \in 0..Len(s)
  PROVE  /\ Cut(s, k) \in Seq(S) /\ Len(Cut(s, k)) = k
         /\ \A i \in 1..k : Cut(s, k)[i] = s[i]
<1>1. Len(s) \in Nat /\ \A i \in 1..k : s[i] \in S
  BY LenProperties, ElementOfSeq
<1>2. k \in Int /\ 1 \in Int /\ k - 1 + 1 = k /\ k \in Nat BY <1>1
<1>3. /\ SubSeq(s, 1, k) \in Seq(S) /\ Len(SubSeq(s, 1, k)) = (IF 1 <= k THEN k - 1 + 1 ELSE 0)
      /\ \A i \in 1..(k - 1 + 1) : SubSeq(s, 1, k)[i] = s[1 + i - 1]
  BY <1>1, <1>2, SubSeqProperties
<1>4. Len(SubSeq(s, 1, k)) = k BY <1>2, <1>3
<1>5. \A i \in 1..k : 1 + i - 1 = i BY <1>2
<1> QED BY <1>2, <1>3, <1>4, <1>5 DEF Cut

\* The first k elements of a list are a list.
LEMMA CutList ==
  ASSUME NEW h, NEW items, IsList(items, h), NEW k \in 0..Len(items)
  PROVE  IsList(Cut(items, k), h) /\ Len(Cut(items, k)) = k
<1>1. items \in Seq(Elements) /\ Len(items) \in Nat BY LenProperties DEF IsList
<1>2. /\ Cut(items, k) \in Seq(Elements) /\ Len(Cut(items, k)) = k
      /\ \A i \in 1..k : Cut(items, k)[i] = items[i] /\ i \in 1..Len(items)
  BY <1>1, CutShape
<1> QED BY <1>2 DEF IsList

\* The encoding of a list is the encoding of its first elements and more.
LEMMA EncodedBegins ==
  ASSUME NEW h, NEW items, IsList(items, h), NEW k \in 0..Len(items)
  PROVE  /\ Encoded(Cut(items, k)) \in Seq(Byte)
         /\ \E rest \in Seq(Byte) : Encoded(items) = Encoded(Cut(items, k)) \o rest
<1> DEFINE n == Len(items)
           joined == Chunks(items)
           first == SubSeq(joined, 1, k)
           last == SubSeq(joined, k + 1, n)
<1>1. n \in Nat /\ k \in Nat /\ k <= n
  <2>1. Len(items) \in Nat BY LenProperties DEF IsList
  <2> QED BY <2>1
<1>2. /\ joined \in Seq(Seq(Byte)) /\ Len(joined) = n
      /\ \A i \in 1..n : joined[i] = Chunk(items[i])
      /\ Encoded(items) = FlattenSeq(joined)
  BY ChunksShape
<1> HIDE DEF joined
<1>3. first \o last = joined
  <2>1. 1 \in 1..(Len(joined) + 1) /\ k \in (1 - 1)..Len(joined) /\ n \in k..Len(joined) BY <1>1, <1>2
  <2>2. first \o last = SubSeq(joined, 1, n) BY <1>2, <2>1, ConcatAdjacentSubSeq
  <2> QED BY <2>2, <1>2, SubSeqFull
<1>4. /\ first \in Seq(Seq(Byte)) /\ Len(first) = k /\ \A i \in 1..k : first[i] = joined[i]
  <2>1. k \in 0..Len(joined) BY <1>1, <1>2
  <2> QED BY <2>1, <1>2, CutShape DEF Cut
<1>5. last \in Seq(Seq(Byte))
  <2>1. \A i \in (k + 1)..n : joined[i] \in Seq(Byte)
    <3>1. \A i \in (k + 1)..n : i \in 1..Len(joined) BY <1>1, <1>2
    <3> QED BY <3>1, <1>2, ElementOfSeq
  <2>2. k + 1 \in Int /\ n \in Int BY <1>1
  <2> HIDE DEF n
  <2> QED BY <2>1, <2>2, SubSeqProperties
<1>6. IsList(Cut(items, k), h) /\ Len(Cut(items, k)) = k
  BY <1>1, CutList
<1>7. Chunks(Cut(items, k)) = first
  <2>1. /\ Chunks(Cut(items, k)) \in Seq(Seq(Byte)) /\ Len(Chunks(Cut(items, k))) = k
        /\ \A i \in 1..k : Chunks(Cut(items, k))[i] = Chunk(Cut(items, k)[i])
    BY <1>6, ChunksShape
  <2>2. \A i \in 1..k : Cut(items, k)[i] = items[i]
    <3>1. items \in Seq(Elements) BY DEF IsList
    <3> QED BY <3>1, <1>1, CutShape
  <2>3. \A i \in 1..k : Chunks(Cut(items, k))[i] = first[i]
    <3> SUFFICES ASSUME NEW i \in 1..k PROVE Chunks(Cut(items, k))[i] = first[i]
      OBVIOUS
    <3>1. i \in 1..n BY <1>1
    <3>2. Chunks(Cut(items, k))[i] = Chunk(items[i]) BY <2>1, <2>2
    <3>3. first[i] = Chunk(items[i]) BY <3>1, <1>2, <1>4
    <3> QED BY <3>2, <3>3
  <2> HIDE DEF first
  <2> QED BY <2>1, <2>3, <1>4, SeqEqual
<1>8. Encoded(Cut(items, k)) = FlattenSeq(first)
  BY <1>6, <1>7, ChunksShape
<1> HIDE DEF first, last
<1>9. FlattenSeq(first) \in Seq(Byte) /\ FlattenSeq(last) \in Seq(Byte)
  BY <1>4, <1>5, FlattenType
<1>10. FlattenSeq(joined) = FlattenSeq(first) \o FlattenSeq(last)
  BY <1>3, <1>4, <1>5, FlattenConcat
<1> QED BY <1>2, <1>8, <1>9, <1>10

\* The encoding of one more element.
LEMMA EncodedNext ==
  ASSUME NEW h, NEW items, IsList(items, h), NEW k \in 1..Len(items)
  PROVE  Encoded(Cut(items, k)) = Encoded(Cut(items, k - 1)) \o Chunk(items[k])
<1>1. Len(items) \in Nat /\ items \in Seq(Elements) BY LenProperties DEF IsList
<1>2. k \in 0..Len(items) /\ k - 1 \in 0..Len(items) /\ k - 1 \in Nat BY <1>1
<1>3. /\ IsList(Cut(items, k), h) /\ Len(Cut(items, k)) = k
      /\ IsList(Cut(items, k - 1), h) /\ Len(Cut(items, k - 1)) = k - 1
  BY <1>2, CutList
<1> DEFINE s == Chunks(Cut(items, k))
           t == Chunks(Cut(items, k - 1))
<1>4. /\ s \in Seq(Seq(Byte)) /\ Len(s) = k
      /\ \A i \in 1..k : s[i] = Chunk(Cut(items, k)[i])
      /\ Encoded(Cut(items, k)) = FlattenSeq(s)
  BY <1>3, ChunksShape
<1>5. /\ t \in Seq(Seq(Byte)) /\ Len(t) = k - 1
      /\ \A i \in 1..(k - 1) : t[i] = Chunk(Cut(items, k - 1)[i])
      /\ Encoded(Cut(items, k - 1)) = FlattenSeq(t)
  BY <1>3, ChunksShape
<1>6. /\ \A i \in 1..k : Cut(items, k)[i] = items[i]
      /\ \A i \in 1..(k - 1) : Cut(items, k - 1)[i] = items[i]
  BY <1>1, <1>2, CutShape
<1>7. Chunk(items[k]) \in Seq(Byte)
  <2>1. items[k] \in Elements /\ Len(items[k].value) < 256 BY <1>1, ElementOfSeq DEF IsList
  <2> QED BY <2>1, ChunkShape
<1> HIDE DEF s, t
<1>8. s = Append(t, Chunk(items[k]))
  <2> DEFINE u == Append(t, Chunk(items[k]))
  <2>1. /\ u \in Seq(Seq(Byte)) /\ Len(u) = k
        /\ \A i \in 1..(k - 1) : u[i] = t[i]
        /\ u[k] = Chunk(items[k])
    <3>1. /\ u \in Seq(Seq(Byte)) /\ Len(u) = Len(t) + 1
          /\ \A i \in 1..Len(t) : u[i] = t[i]
          /\ u[Len(t) + 1] = Chunk(items[k])
      BY <1>5, <1>7, AppendProperties
    <3>2. Len(t) + 1 = k BY <1>2, <1>5
    <3> HIDE DEF u
    <3> QED BY <3>1, <3>2, <1>5
  <2> HIDE DEF u
  <2>2. \A i \in 1..k : s[i] = u[i]
    <3> SUFFICES ASSUME NEW i \in 1..k PROVE s[i] = u[i]
      OBVIOUS
    <3>1. s[i] = Chunk(items[i]) BY <1>4, <1>6
    <3>2. CASE i = k BY <3>1, <3>2, <2>1
    <3>3. CASE i # k
      <4>1. i \in 1..(k - 1) BY <3>3, <1>2
      <4> QED BY <3>1, <4>1, <2>1, <1>5, <1>6
    <3> QED BY <3>2, <3>3
  <2>3. s = u BY <2>1, <2>2, <1>4, SeqEqual
  <2> QED BY <2>3 DEF u
<1>9. FlattenSeq(Append(t, Chunk(items[k]))) = FlattenSeq(t) \o Chunk(items[k])
  BY <1>5, <1>7, FlattenAppend
<1> QED BY <1>4, <1>5, <1>8, <1>9

\* What Walk may return.
Walked == [whole : Seq(Elements), error : BOOLEAN]

\* The byte after the header of h bytes that follows i bytes, and its value.
EndOf(buf, i, h) == i + h + buf[i + h]

\* The element that follows i bytes.
Piece(buf, i, h) == [id |-> SubSeq(buf, i + 1, i + h - 1),
                     value |-> SubSeq(buf, i + h + 1, EndOf(buf, i, h))]

\* The element that follows i bytes is not there as a whole.
Broken(buf, i, h) == i + h > Len(buf) \/ EndOf(buf, i, h) > Len(buf)

\* from[i] is what Walk reads behind the first i bytes.
Walks(from, buf, h) ==
  \A i \in 0..Len(buf) :
    /\ i = Len(buf) => from[i] = [whole |-> << >>, error |-> FALSE]
    /\ i # Len(buf) /\ Broken(buf, i, h) => from[i] = [whole |-> << >>, error |-> TRUE]
    /\ i # Len(buf) /\ ~Broken(buf, i, h) =>
         from[i] = [whole |-> <<Piece(buf, i, h)>> \o from[EndOf(buf, i, h)].whole,
                    error |-> from[EndOf(buf, i, h)].error]

\* An element that is there is one, and ends behind where it starts.
LEMMA PieceShape ==
  ASSUME NEW buf \in Seq(Byte), NEW h \in Nat \ {0}, NEW i \in 0..Len(buf),
         ~Broken(buf, i, h)
  PROVE  /\ Piece(buf, i, h) \in Elements
         /\ EndOf(buf, i, h) \in 0..Len(buf) /\ EndOf(buf, i, h) > i
<1>1. Len(buf) \in Nat /\ \A j \in 1..Len(buf) : buf[j] \in Nat /\ buf[j] \in Byte
  <2>1. Len(buf) \in Nat /\ \A j \in 1..Len(buf) : buf[j] \in Byte
    BY LenProperties, ElementOfSeq
  <2>2. \A b \in Byte : b \in Nat BY DEF Byte
  <2> QED BY <2>1, <2>2
<1>2. i + h \in 1..Len(buf) /\ i + h <= Len(buf) /\ i \in Nat
  BY <1>1 DEF Broken
<1>3. /\ EndOf(buf, i, h) \in 0..Len(buf) /\ EndOf(buf, i, h) > i
      /\ EndOf(buf, i, h) <= Len(buf) /\ EndOf(buf, i, h) \in Int
  BY <1>1, <1>2 DEF Broken, EndOf
<1> DEFINE end == EndOf(buf, i, h)
<1> HIDE DEF end
<1>4. SubSeq(buf, i + 1, i + h - 1) \in Seq(Byte)
  <2>1. \A j \in (i + 1)..(i + h - 1) : buf[j] \in Byte
    <3>1. \A j \in (i + 1)..(i + h - 1) : j \in 1..Len(buf) BY <1>1, <1>2
    <3> QED BY <3>1, <1>1
  <2>2. i + 1 \in Int /\ i + h - 1 \in Int BY <1>2
  <2> QED BY <2>1, <2>2, SubSeqProperties
<1>5. SubSeq(buf, i + h + 1, end) \in Seq(Byte)
  <2>1. \A j \in (i + h + 1)..end : buf[j] \in Byte
    <3>1. \A j \in (i + h + 1)..end : j \in 1..Len(buf) BY <1>1, <1>2, <1>3 DEF end
    <3> QED BY <3>1, <1>1
  <2>2. i + h + 1 \in Int /\ end \in Int BY <1>2, <1>3 DEF end
  <2> QED BY <2>1, <2>2, SubSeqProperties
<1> QED BY <1>3, <1>4, <1>5 DEF Piece, Elements, end

\* Walk, as an equation.
LEMMA WalkEquation ==
  ASSUME NEW buf \in Seq(Byte), NEW h \in Nat \ {0}
  PROVE  \E from \in [0..Len(buf) -> Walked] : Walk(buf, h) = from[0] /\ Walks(from, buf, h)
<1> DEFINE D == 0..Len(buf)
           V == Walked
           final == {i \in D : i = Len(buf) \/ Broken(buf, i, h)}
           rank == [i \in D |-> Len(buf) - i]
           next == [i \in D |-> IF i \in final THEN i ELSE EndOf(buf, i, h)]
           base == [i \in D |-> [whole |-> << >>, error |-> i # Len(buf)]]
           longer(i, v) == [whole |-> <<Piece(buf, i, h)>> \o v.whole, error |-> v.error]
           comb == [x \in D \X V |-> IF x[1] \in final THEN x[2] ELSE longer(x[1], x[2])]
           R(g) == [i \in D |->
                      IF i = Len(buf) THEN [whole |-> << >>, error |-> FALSE]
                      ELSE IF Beyond(i + h, buf) THEN [whole |-> << >>, error |-> TRUE]
                      ELSE LET end == i + h + buf[i + h]
                           IN  IF Beyond(end, buf) THEN [whole |-> << >>, error |-> TRUE]
                               ELSE [whole |-> << [id |-> SubSeq(buf, i + 1, i + h - 1),
                                                   value |-> SubSeq(buf, i + h + 1, end)] >>
                                               \o g[end].whole,
                                     error |-> g[end].error]]
<1>1. Len(buf) \in Nat BY LenProperties
<1>2. ASSUME NEW i \in D, i \notin final
      PROVE  Piece(buf, i, h) \in Elements /\ EndOf(buf, i, h) \in D /\ EndOf(buf, i, h) > i
  BY <1>2, PieceShape
<1>3. ASSUME NEW i \in D, NEW v \in V, i \notin final PROVE longer(i, v) \in V
  <2>1. v.whole \in Seq(Elements) /\ v.error \in BOOLEAN BY DEF Walked
  <2>2. <<Piece(buf, i, h)>> \in Seq(Elements) BY <1>2, <1>3
  <2>3. <<Piece(buf, i, h)>> \o v.whole \in Seq(Elements) BY <2>1, <2>2, ConcatProperties
  <2> QED BY <2>1, <2>3 DEF Walked
<1>4. IsRecursion(D, V, rank, final, next, base, comb)
  <2>1. \A x \in D \X V : x[1] \in D /\ x[2] \in V OBVIOUS
  <2>2. comb \in [D \X V -> V]
    <3> HIDE DEF D, V, final, longer
    <3> QED BY <2>1, <1>3
  <2>3. base \in [D -> V]
    <3>1. << >> \in Seq(Elements) BY EmptySeq
    <3> QED BY <3>1 DEF Walked
  <2>4. rank \in [D -> Nat] /\ final \in SUBSET D
    BY <1>1
  <2>5. next \in [D -> D] /\ \A d \in D : d \notin final => rank[next[d]] < rank[d]
    BY <1>1, <1>2
  <2> HIDE DEF comb, rank, final, base, next, D, V
  <2> QED BY <2>2, <2>3, <2>4, <2>5 DEF IsRecursion
<1>5. PICK g \in [D -> V] :
        \A d \in D : g[d] = IF d \in final THEN base[d] ELSE comb[<<d, g[next[d]]>>]
  <2> HIDE DEF D, V, rank, final, next, base, comb
  <2> QED BY <1>4, Recursion
<1>6. ASSUME NEW i \in D PROVE g[i] = R(g)[i]
  <2>1. CASE i \in final
    <3>1. g[i] = [whole |-> << >>, error |-> i # Len(buf)]
      <4>1. g[i] = base[i] BY <1>5, <2>1
      <4> QED BY <4>1
    <3>2. i = Len(buf) \/ Broken(buf, i, h) BY <2>1
    <3>3. CASE i = Len(buf)
      BY <3>1, <3>3
    <3>4. CASE i # Len(buf) /\ i + h > Len(buf)
      BY <3>1, <3>4 DEF Beyond
    <3>5. CASE i # Len(buf) /\ ~(i + h > Len(buf)) /\ EndOf(buf, i, h) > Len(buf)
      BY <3>1, <3>5 DEF Beyond, EndOf
    <3> QED BY <3>2, <3>3, <3>4, <3>5 DEF Broken
  <2>2. CASE i \notin final
    <3>1. i # Len(buf) /\ ~(i + h > Len(buf)) /\ ~(EndOf(buf, i, h) > Len(buf))
      BY <2>2 DEF Broken
    <3>2. next[i] = EndOf(buf, i, h) /\ EndOf(buf, i, h) \in D BY <2>2, <1>2
    <3>3. g[EndOf(buf, i, h)] \in V
      <4> HIDE DEF D, V
      <4> QED BY <3>2
    <3>4. g[i] = longer(i, g[EndOf(buf, i, h)])
      <4>1. g[i] = comb[<<i, g[EndOf(buf, i, h)]>>]
        <5> HIDE DEF comb, base, final, next, D, V
        <5> QED BY <3>2, <2>2, <1>5
      <4> HIDE DEF longer, final, D, V
      <4> QED BY <4>1, <3>3, <2>2
    <3>5. R(g)[i] = longer(i, g[EndOf(buf, i, h)])
      BY <3>1 DEF Beyond, EndOf, Piece
    <3> QED BY <3>4, <3>5
  <2> QED BY <2>1, <2>2
<1>7. g = R(g)
  <2>1. g = [i \in D |-> g[i]] OBVIOUS
  <2> QED BY <1>6, <2>1
<1> DEFINE walk == CHOOSE f : f = R(f)
<1>8. walk = R(walk)
  <2> HIDE DEF R
  <2> QED BY <1>7
<1>9. Walk(buf, h) = walk[0]
  BY DEF Walk
<1> HIDE DEF walk
<1>10. \A i \in D : walk[i] = R(walk)[i]
  <2> HIDE DEF R
  <2> QED BY <1>8
<1>11. Walks(walk, buf, h)
  <2> SUFFICES ASSUME NEW i \in D
      PROVE
        /\ i = Len(buf) => walk[i] = [whole |-> << >>, error |-> FALSE]
        /\ i # Len(buf) /\ Broken(buf, i, h) => walk[i] = [whole |-> << >>, error |-> TRUE]
        /\ i # Len(buf) /\ ~Broken(buf, i, h) =>
             walk[i] = [whole |-> <<Piece(buf, i, h)>> \o walk[EndOf(buf, i, h)].whole,
                        error |-> walk[EndOf(buf, i, h)].error]
    BY DEF Walks
  <2>1. walk[i] = R(walk)[i] BY <1>10
  <2>2. CASE i = Len(buf)
    BY <2>1, <2>2
  <2>3. CASE i # Len(buf) /\ i + h > Len(buf)
    BY <2>1, <2>3 DEF Beyond, Broken
  <2>4. CASE i # Len(buf) /\ ~(i + h > Len(buf)) /\ EndOf(buf, i, h) > Len(buf)
    BY <2>1, <2>4 DEF Beyond, EndOf, Broken
  <2>5. CASE i # Len(buf) /\ ~(i + h > Len(buf)) /\ ~(EndOf(buf, i, h) > Len(buf))
    <3>1. ~Broken(buf, i, h) BY <2>5 DEF Broken
    <3>2. R(walk)[i] = [whole |-> <<Piece(buf, i, h)>> \o walk[EndOf(buf, i, h)].whole,
                        error |-> walk[EndOf(buf, i, h)].error]
      BY <2>5 DEF Beyond, EndOf, Piece
    <3> HIDE DEF R
    <3> QED BY <2>1, <2>5, <3>1, <3>2
  <2> QED BY <2>2, <2>3, <2>4, <2>5
<1> DEFINE T == {n \in Nat : \A i \in D : Len(buf) - i = n => walk[i] \in V}
<1>12. ASSUME NEW n \in Nat, \A k \in Nat : k < n => k \in T PROVE n \in T
  <2> SUFFICES ASSUME NEW i \in D, Len(buf) - i = n PROVE walk[i] \in V
    OBVIOUS
  <2>1. CASE i = Len(buf)
    <3>1. walk[i] = [whole |-> << >>, error |-> FALSE] BY <1>11, <2>1 DEF Walks
    <3>2. << >> \in Seq(Elements) BY EmptySeq
    <3> QED BY <3>1, <3>2 DEF Walked
  <2>2. CASE i # Len(buf) /\ Broken(buf, i, h)
    <3>1. walk[i] = [whole |-> << >>, error |-> TRUE] BY <1>11, <2>2 DEF Walks
    <3>2. << >> \in Seq(Elements) BY EmptySeq
    <3> QED BY <3>1, <3>2 DEF Walked
  <2>3. CASE i # Len(buf) /\ ~Broken(buf, i, h)
    <3>1. i \notin final BY <2>3
    <3>2. EndOf(buf, i, h) \in D /\ EndOf(buf, i, h) > i BY <3>1, <1>2
    <3>3. Len(buf) - EndOf(buf, i, h) \in Nat /\ Len(buf) - EndOf(buf, i, h) < n
      BY <3>2, <1>1
    <3>4. walk[EndOf(buf, i, h)] \in V
      <4> HIDE DEF D, V
      <4> QED BY <3>2, <3>3, <1>12
    <3>5. walk[i] = longer(i, walk[EndOf(buf, i, h)])
      BY <1>11, <2>3 DEF Walks
    <3> HIDE DEF longer, V, D, final
    <3> QED BY <3>1, <3>4, <3>5, <1>3
  <2> QED BY <2>1, <2>2, <2>3
<1>13. Nat \subseteq T
  <2> HIDE DEF T
  <2> QED BY <1>12, Induction
<1>14. walk \in [D -> V]
  <2>1. \A i \in D : walk[i] \in V
    <3>1. \A i \in D : Len(buf) - i \in Nat BY <1>1
    <3> HIDE DEF V, D
    <3> QED BY <1>13, <3>1
  <2>2. walk = [i \in D |-> walk[i]] BY <1>8
  <2> HIDE DEF V, D
  <2> QED BY <2>1, <2>2
<1> QED BY <1>9, <1>11, <1>14

\* How many bytes the first k elements take.
Off(items, k) == Len(Encoded(Cut(items, k)))

\* No elements and all of them.
LEMMA OffStart ==
  ASSUME NEW h, NEW items, IsList(items, h)
  PROVE  Off(items, 0) = 0 /\ Off(items, Len(items)) = Len(Encoded(items))
         /\ Encoded(items) \in Seq(Byte) /\ Len(items) \in Nat
<1>1. items \in Seq(Elements) /\ Len(items) \in Nat BY LenProperties DEF IsList
<1>2. Cut(items, 0) = << >>
  <2>1. 0 \in Int /\ 1 \in Int /\ 0 < 1 OBVIOUS
  <2> QED BY <2>1, SubSeqEmpty DEF Cut
<1>3. Cut(items, Len(items)) = items BY <1>1, SubSeqFull DEF Cut
<1>4. Encoded(<< >>) = << >>
  <2>1. << >> \in Seq(Elements) /\ Len(<< >>) = 0 BY EmptySeq
  <2>2. IsList(<< >>, h) BY <2>1 DEF IsList
  <2>3. Chunks(<< >>) \in Seq(Seq(Byte)) /\ Len(Chunks(<< >>)) = 0
        /\ Encoded(<< >>) = FlattenSeq(Chunks(<< >>))
    BY <2>1, <2>2, ChunksShape
  <2>4. Chunks(<< >>) = << >>
    <3>1. Chunks(<< >>) # << >> => Len(Chunks(<< >>)) \in Nat \ {0} BY <2>3, EmptySeq
    <3> QED BY <3>1, <2>3
  <2> QED BY <2>3, <2>4, FlattenEmpty
<1>5. Len(<< >>) = 0 OBVIOUS
<1>6. Encoded(items) \in Seq(Byte)
  <2>1. Len(items) \in 0..Len(items) BY <1>1
  <2>2. Encoded(Cut(items, Len(items))) \in Seq(Byte) BY <2>1, EncodedBegins
  <2> QED BY <2>2, <1>3
<1> QED BY <1>1, <1>2, <1>3, <1>4, <1>5, <1>6 DEF Off

\* The k-th element begins where the first k - 1 end.
LEMMA ChunkAt ==
  ASSUME NEW h, NEW items, IsList(items, h), NEW k \in 1..Len(items)
  PROVE  /\ Off(items, k - 1) \in Nat /\ Off(items, k) \in Nat
         /\ items[k] \in Elements /\ Len(items[k].value) \in 0..255
         /\ Off(items, k) = Off(items, k - 1) + h + Len(items[k].value)
         /\ Off(items, k) <= Len(Encoded(items))
         /\ \A j \in 1..(h + Len(items[k].value)) :
              Encoded(items)[Off(items, k - 1) + j] = Chunk(items[k])[j]
<1> DEFINE E == Encoded(items)
           e == items[k]
           c == Chunk(items[k])
           a == Encoded(Cut(items, k - 1))
           b == Encoded(Cut(items, k))
           l == Len(e.value)
           m == h + l
<1>1. Len(items) \in Nat /\ items \in Seq(Elements) /\ h \in Nat \ {0}
  BY LenProperties DEF IsList
<1>2. k \in 0..Len(items) /\ k - 1 \in 0..Len(items) BY <1>1
<1>3. e \in Elements /\ Len(e.value) < 256 /\ Len(e.id) + 1 = h
  BY <1>1, ElementOfSeq DEF IsList
<1>4. c \in Seq(Byte) /\ Len(c) = Len(e.id) + 1 + Len(e.value)
      /\ Len(e.id) \in Nat /\ Len(e.value) \in Nat
  BY <1>3, ChunkShape
<1>5. Len(c) = m /\ l \in 0..255 /\ m \in Nat
  <2>0. h \in Nat BY <1>1
  <2>1. l \in Nat /\ l < 256 /\ Len(c) = Len(e.id) + 1 + l /\ Len(e.id) + 1 = h BY <1>3, <1>4
  <2> HIDE DEF l, c, e
  <2> QED BY <2>1
<1>6. a \in Seq(Byte) /\ b \in Seq(Byte) /\ Len(a) \in Nat /\ Len(b) \in Nat
  BY <1>2, EncodedBegins, LenProperties
<1>7. b = a \o c BY EncodedNext
<1>8. PICK rest \in Seq(Byte) : E = b \o rest
  BY <1>2, EncodedBegins
<1> HIDE DEF a, b, c, e, E, m, l
<1>9. /\ Len(b) = Len(a) + m
      /\ \A i \in 1..(Len(a) + m) : b[i] = IF i <= Len(a) THEN a[i] ELSE c[i - Len(a)]
  <2>1. c \in Seq(Byte) BY <1>4 DEF c
  <2>2. /\ Len(b) = Len(a) + Len(c)
        /\ \A i \in 1..(Len(a) + Len(c)) : b[i] = IF i <= Len(a) THEN a[i] ELSE c[i - Len(a)]
    BY <2>1, <1>6, <1>7, ConcatProperties
  <2> QED BY <2>2, <1>5
<1>10. /\ Len(E) = Len(b) + Len(rest) /\ Len(rest) \in Nat
       /\ \A i \in 1..(Len(b) + Len(rest)) :
            E[i] = IF i <= Len(b) THEN b[i] ELSE rest[i - Len(b)]
  BY <1>6, <1>8, ConcatProperties, LenProperties
<1>11. ASSUME NEW j \in 1..m PROVE E[Len(a) + j] = c[j]
  <2> DEFINE i == Len(a) + j
  <2>1. /\ i \in 1..(Len(a) + m) /\ ~(i <= Len(a)) /\ i - Len(a) = j /\ i <= Len(b)
        /\ i \in 1..(Len(b) + Len(rest))
    BY <1>5, <1>6, <1>9, <1>10
  <2> HIDE DEF i
  <2>2. b[i] = c[j] /\ E[i] = b[i] BY <2>1, <1>9, <1>10
  <2> QED BY <2>2 DEF i
<1>8a. Len(b) = Len(a) + h + l BY <1>1, <1>9, <1>6, <1>5 DEF m
<1>13. Len(b) <= Len(E) BY <1>10, <1>6
<1>14. \A j \in 1..(h + l) : E[Len(a) + j] = c[j] BY <1>11 DEF m
<1> QED BY <1>3, <1>5, <1>6, <1>8a, <1>13, <1>14 DEF a, b, c, e, l, E, Off

\* Walk at the start of the k-th element reads that element if its last byte is
\* among the n there are, and finds it broken if only a part of it is.
LEMMA PieceAt ==
  ASSUME NEW h, NEW items, IsList(items, h), NEW k \in 1..Len(items),
         NEW n \in Nat, n <= Len(Encoded(items)), Off(items, k - 1) <= n
  PROVE  LET buf == SubSeq(Encoded(items), 1, n)
         IN  /\ Off(items, k) <= n =>
                  /\ Off(items, k - 1) # n /\ ~Broken(buf, Off(items, k - 1), h)
                  /\ EndOf(buf, Off(items, k - 1), h) = Off(items, k)
                  /\ Piece(buf, Off(items, k - 1), h) = items[k]
             /\ ~(Off(items, k) <= n) /\ Off(items, k - 1) # n =>
                  Broken(buf, Off(items, k - 1), h)
<1> DEFINE E == Encoded(items)
           buf == SubSeq(E, 1, n)
           e == items[k]
           l == Len(e.value)
           d == Len(e.id)
           o == Off(items, k - 1)
           p == Off(items, k)
<1>1. /\ o \in Nat /\ p \in Nat /\ e \in Elements /\ l \in 0..255 /\ p = o + h + l
      /\ p <= Len(E) /\ \A j \in 1..(h + l) : E[o + j] = Chunk(e)[j]
  <2>1. /\ o \in Nat /\ p \in Nat /\ e \in Elements /\ l \in 0..255 /\ p = o + h + l
        /\ p <= Len(E)
    BY ChunkAt, SMTT(20)
  <2>2. \A j \in 1..(h + l) : E[o + j] = Chunk(e)[j]
    BY ChunkAt
  <2> QED BY <2>1, <2>2
<1>2. E \in Seq(Byte) /\ Len(E) \in Nat /\ h \in Nat \ {0}
  BY OffStart, LenProperties DEF IsList
<1>3. n \in 0..Len(E) BY <1>2
<1> HIDE DEF E
<1>4. buf \in Seq(Byte) /\ Len(buf) = n /\ \A i \in 1..n : buf[i] = E[i]
  BY <1>2, <1>3, CutShape DEF Cut
<1>5. d + 1 = h /\ Len(e.value) < 256 BY DEF IsList
<1>6. /\ d \in Nat
      /\ \A j \in 1..d : Chunk(e)[j] = e.id[j]
      /\ Chunk(e)[d + 1] = l
      /\ \A j \in 1..l : Chunk(e)[d + 1 + j] = e.value[j]
  BY <1>1, <1>5, ChunkShape
<1>7. e.id \in Seq(Byte) /\ e.value \in Seq(Byte) /\ e = [id |-> e.id, value |-> e.value]
  BY <1>1 DEF Elements
<1> HIDE DEF buf, e, o, p
<1>8. o <= n BY DEF o
<1> HIDE DEF l, d
<1>8a. /\ o \in Nat /\ h \in Nat \ {0} /\ l \in 0..255 /\ p = o + h + l
       /\ n \in Nat /\ d \in Nat /\ d + 1 = h
  BY <1>1, <1>2, <1>5, <1>6
<1>9. E[o + h] = l
  <2>1. h \in 1..(h + l) BY <1>8a
  <2>2. E[o + h] = Chunk(e)[h] BY <2>1, <1>1
  <2> QED BY <2>2, <1>5, <1>6
<1>10. o + h <= n => EndOf(buf, o, h) = p
  <2> SUFFICES ASSUME o + h <= n PROVE EndOf(buf, o, h) = p OBVIOUS
  <2>1. o + h \in 1..n BY <1>8a
  <2>2. buf[o + h] = l BY <2>1, <1>4, <1>9
  <2> QED BY <2>2, <1>1, <1>2 DEF EndOf
<1>11. ASSUME p <= n
       PROVE  o # n /\ ~Broken(buf, o, h) /\ EndOf(buf, o, h) = p /\ Piece(buf, o, h) = e
  <2>1. o # n /\ o + h <= n BY <1>11, <1>8a
  <2>2. EndOf(buf, o, h) = p BY <2>1, <1>10
  <2>3. ~Broken(buf, o, h) BY <2>1, <2>2, <1>1, <1>2, <1>4, <1>11 DEF Broken
  <2>4. SubSeq(buf, o + 1, o + h - 1) = e.id
    <3> DEFINE s == SubSeq(buf, o + 1, o + h - 1)
    <3>1. \A i \in (o + 1)..(o + h - 1) : buf[i] \in Byte
      <4>1. \A i \in (o + 1)..(o + h - 1) : i \in 1..Len(buf) BY <1>8a, <1>4, <2>1
      <4> QED BY <4>1, <1>4, ElementOfSeq
    <3>2. /\ o + 1 \in Int /\ o + h - 1 \in Int
          /\ (o + h - 1) - (o + 1) + 1 = d
          /\ (o + 1 <= o + h - 1) <=> d # 0
      BY <1>8a
    <3>3. /\ s \in Seq(Byte)
          /\ Len(s) = IF o + 1 <= o + h - 1 THEN (o + h - 1) - (o + 1) + 1 ELSE 0
          /\ \A i \in 1..((o + h - 1) - (o + 1) + 1) : s[i] = buf[(o + 1) + i - 1]
      BY <3>1, <3>2, SubSeqProperties
    <3> HIDE DEF s
    <3>4. Len(s) = d BY <3>2, <3>3
    <3>5. \A i \in 1..Len(s) : s[i] = e.id[i]
      <4> SUFFICES ASSUME NEW i \in 1..d PROVE s[i] = e.id[i] BY <3>4
      <4>1. s[i] = buf[(o + 1) + i - 1] BY <3>2, <3>3
      <4>2. (o + 1) + i - 1 = o + i /\ o + i \in 1..n /\ i \in 1..(h + l)
        BY <1>8a, <2>1
      <4>3. buf[o + i] = Chunk(e)[i] BY <4>2, <1>1, <1>2, <1>4
      <4> QED BY <4>1, <4>2, <4>3, <1>6
    <3>6. Len(e.id) = d BY DEF d
    <3>7. s = e.id BY <3>3, <3>4, <3>5, <3>6, <1>7, SeqEqual
    <3> QED BY <3>7 DEF s
  <2>5. SubSeq(buf, o + h + 1, p) = e.value
    <3> DEFINE s == SubSeq(buf, o + h + 1, p)
    <3>1. \A i \in (o + h + 1)..p : buf[i] \in Byte
      <4>1. \A i \in (o + h + 1)..p : i \in 1..Len(buf) BY <1>8a, <1>4, <1>11
      <4> QED BY <4>1, <1>4, ElementOfSeq
    <3>2. o + h + 1 \in Int /\ p \in Int /\ p - (o + h + 1) + 1 = l /\ (o + h + 1 <= p <=> l # 0)
      BY <1>8a
    <3>3. /\ s \in Seq(Byte)
          /\ Len(s) = IF o + h + 1 <= p THEN p - (o + h + 1) + 1 ELSE 0
          /\ \A i \in 1..(p - (o + h + 1) + 1) : s[i] = buf[(o + h + 1) + i - 1]
      BY <3>1, <3>2, SubSeqProperties
    <3> HIDE DEF s
    <3>4. Len(s) = l BY <3>2, <3>3
    <3>5. \A i \in 1..l : s[i] = e.value[i]
      <4> SUFFICES ASSUME NEW i \in 1..l PROVE s[i] = e.value[i] OBVIOUS
      <4>1. s[i] = buf[(o + h + 1) + i - 1] BY <3>2, <3>3
      <4>2. /\ (o + h + 1) + i - 1 = o + (h + i) /\ o + (h + i) \in 1..n
            /\ h + i \in 1..(h + l) /\ h + i = d + 1 + i
        BY <1>8a, <1>11
      <4>3. buf[o + (h + i)] = Chunk(e)[h + i] BY <4>2, <1>1, <1>2, <1>4
      <4>4. Chunk(e)[h + i] = e.value[i] BY <4>2, <1>6
      <4> QED BY <4>1, <4>2, <4>3, <4>4
    <3>6. Len(e.value) = l BY DEF l
    <3>7. s = e.value BY <3>3, <3>4, <3>5, <3>6, <1>7, SeqEqual
    <3> QED BY <3>7 DEF s
  <2>6. Piece(buf, o, h) = e BY <2>2, <2>4, <2>5, <1>7 DEF Piece
  <2> QED BY <2>1, <2>2, <2>3, <2>6
<1>12. ASSUME ~(p <= n) PROVE Broken(buf, o, h)
  <2>1. CASE o + h <= n
    <3>1. EndOf(buf, o, h) = p BY <2>1, <1>10
    <3> QED BY <3>1, <1>1, <1>2, <1>4, <1>12 DEF Broken
  <2>2. CASE ~(o + h <= n) BY <2>2, <1>1, <1>2, <1>4 DEF Broken
  <2> QED BY <2>1, <2>2
<1> QED BY <1>11, <1>12 DEF buf, E, e, o, p

\* c is the number of elements that n bytes hold completely.
Holds(items, n, c) ==
  /\ c \in 0..Len(items) /\ Off(items, c) <= n
  /\ \A k \in 0..Len(items) : Off(items, k) <= n => k <= c

\* The k-th element takes its header and its value.
Takes(items, h, k) ==
  /\ Off(items, k) \in Nat /\ Off(items, k - 1) \in Nat
  /\ Off(items, k) = Off(items, k - 1) + h + Len(items[k].value)
  /\ Len(items[k].value) \in 0..255

\* Every element of a list does.
LEMMA ElementTakes ==
  ASSUME NEW h, NEW items, IsList(items, h), NEW k \in 1..Len(items)
  PROVE  Takes(items, h, k)
<1>1. Off(items, k) \in Nat /\ Off(items, k - 1) \in Nat BY ChunkAt
<1>2. Off(items, k) = Off(items, k - 1) + h + Len(items[k].value) BY ChunkAt
<1>3. Len(items[k].value) \in 0..255 BY ChunkAt
<1> QED BY <1>1, <1>2, <1>3 DEF Takes

\* More elements take more bytes.
LEMMA OffGrows ==
  ASSUME NEW h, NEW items, IsList(items, h), NEW k \in 0..Len(items)
  PROVE  Off(items, k) \in Nat /\ \A j \in 0..k : Off(items, j) <= Off(items, k)
<1>1. Off(items, 0) = 0 /\ Len(items) \in Nat BY OffStart
<1>2. ASSUME NEW j \in 1..Len(items)
      PROVE  Off(items, j) \in Nat /\ Off(items, j - 1) \in Nat /\ Off(items, j - 1) <= Off(items, j)
  <2>0. h \in Nat BY DEF IsList
  <2>a. Takes(items, h, j) BY ElementTakes
  <2>1. /\ Off(items, j) \in Nat /\ Off(items, j - 1) \in Nat
        /\ Off(items, j) = Off(items, j - 1) + h + Len(items[j].value)
        /\ Len(items[j].value) \in 0..255
    BY <2>a DEF Takes
  <2> DEFINE l == Len(items[j].value)
  <2> HIDE DEF l
  <2>2. l \in 0..255 /\ Off(items, j) = Off(items, j - 1) + h + l BY <2>1 DEF l
  <2> DEFINE o == Off(items, j - 1)
             p == Off(items, j)
  <2>3. h \in Nat /\ o \in Nat /\ p \in Nat /\ l \in 0..255 /\ p = o + h + l BY <2>0, <2>1, <2>2
  <2> HIDE DEF o, p
  <2>4. o <= p BY <2>3
  <2> QED BY <2>3, <2>4 DEF o, p
<1> DEFINE S == {n \in Nat : n <= Len(items) =>
                   Off(items, n) \in Nat /\ \A j \in 0..n : Off(items, j) <= Off(items, n)}
<1>3. ASSUME NEW n \in Nat, \A m \in Nat : m < n => m \in S PROVE n \in S
  <2> SUFFICES ASSUME n <= Len(items)
               PROVE  Off(items, n) \in Nat /\ \A j \in 0..n : Off(items, j) <= Off(items, n)
    OBVIOUS
  <2>1. CASE n = 0
    <3>1. \A j \in 0..n : j = 0 BY <2>1
    <3>2. 0 <= 0 OBVIOUS
    <3> QED BY <3>1, <3>2, <2>1, <1>1
  <2>2. CASE n # 0
    <3>1. n - 1 \in Nat /\ n - 1 < n /\ n - 1 <= Len(items) /\ n \in 1..Len(items)
      BY <2>2, <1>1
    <3>2. \A j \in 0..(n - 1) : Off(items, j) <= Off(items, n - 1)
      BY <3>1, <1>3
    <3>3. Off(items, n) \in Nat /\ Off(items, n - 1) \in Nat /\ Off(items, n - 1) <= Off(items, n)
      BY <3>1, <1>2
    <3>4. ASSUME NEW j \in 0..n PROVE Off(items, j) <= Off(items, n)
      <4>1. CASE j = n BY <3>3, <4>1
      <4>2. CASE j # n
        <5>1. j \in 0..(n - 1) BY <4>2
        <5>2. Off(items, j) <= Off(items, n - 1) BY <3>2, <5>1
        <5>3. Off(items, j) \in Int
          <6>1. CASE j = 0 BY <6>1, <1>1
          <6>2. CASE j # 0
            <7>1. j \in 1..Len(items) BY <6>2, <3>1
            <7> QED BY <7>1, <1>2
          <6> QED BY <6>1, <6>2
        <5> QED BY <5>2, <5>3, <3>3
      <4> QED BY <4>1, <4>2
    <3> QED BY <3>3, <3>4
  <2> QED BY <2>1, <2>2
<1>4. Nat \subseteq S
  <2> HIDE DEF S
  <2> QED BY <1>3, Induction
<1> QED BY <1>4, <1>1

\* Walk over the first n bytes of a list reads the elements they hold completely,
\* and tells of an error exactly if a part of another follows.
LEMMA WalkRecovers ==
  ASSUME NEW h, NEW items, IsList(items, h), NEW n \in Nat, n <= Len(Encoded(items)),
         NEW c, Holds(items, n, c)
  PROVE  LET w == Walk(SubSeq(Encoded(items), 1, n), h)
         IN  w.whole = Cut(items, c) /\ w.error = (n # Off(items, c))
<1> DEFINE buf == SubSeq(Encoded(items), 1, n)
           done == n # Off(items, c)
           left(k) == SubSeq(items, k + 1, c)
<1>1. /\ Len(items) \in Nat /\ items \in Seq(Elements) /\ h \in Nat \ {0}
      /\ Encoded(items) \in Seq(Byte) /\ Off(items, 0) = 0
      /\ Off(items, Len(items)) = Len(Encoded(items))
  BY OffStart, LenProperties DEF IsList
<1>2. c \in 0..Len(items) /\ Off(items, c) <= n /\ c \in Nat /\ c <= Len(items)
  BY <1>1 DEF Holds
<1>3. buf \in Seq(Byte) /\ Len(buf) = n
  <2>1. Len(Encoded(items)) \in Nat BY <1>1, LenProperties
  <2>2. n \in 0..Len(Encoded(items)) BY <2>1
  <2> QED BY <1>1, <2>2, CutShape DEF Cut
<1>4. PICK from \in [0..Len(buf) -> Walked] : Walk(buf, h) = from[0] /\ Walks(from, buf, h)
  BY <1>1, <1>3, WalkEquation
<1> HIDE DEF left
<1>5. ASSUME NEW k \in 0..c
      PROVE  Off(items, k) \in Nat /\ Off(items, k) <= n /\ Off(items, k) \in 0..Len(buf)
  <2>1. Off(items, k) <= Off(items, c) /\ Off(items, c) \in Nat BY <1>2, OffGrows
  <2>2. k \in 0..Len(items) BY <1>1, <1>2
  <2>3. Off(items, k) \in Nat BY <2>2, OffGrows
  <2> HIDE DEF buf
  <2> QED BY <2>1, <2>3, <1>2, <1>3
<1>6. from[Off(items, c)] = [whole |-> left(c), error |-> done]
  <2>0. left(c) = << >>
    <3>1. c + 1 \in Int /\ c \in Int /\ c < c + 1 BY <1>2
    <3> QED BY <3>1, SubSeqEmpty DEF left
  <2>1. Off(items, c) \in 0..Len(buf) BY <1>2, <1>5
  <2>2. CASE Off(items, c) = n
    <3> HIDE DEF buf
    <3>1. from[Off(items, c)] = [whole |-> << >>, error |-> FALSE]
      BY <1>3, <1>4, <2>1, <2>2 DEF Walks
    <3> QED BY <3>1, <2>0, <2>2
  <2>3. CASE Off(items, c) # n
    <3>1. c # Len(items) BY <2>3, <1>1, <1>2, <1>5
    <3>2. c + 1 \in 1..Len(items) /\ c + 1 \in 0..Len(items) /\ (c + 1) - 1 = c BY <3>1, <1>1, <1>2
    <3>3. ~(Off(items, c + 1) <= n) BY <3>2, <1>2 DEF Holds
    <3>4. Off(items, (c + 1) - 1) <= n /\ Off(items, (c + 1) - 1) # n BY <3>2, <1>2, <2>3
    <3>5. Broken(buf, Off(items, (c + 1) - 1), h) BY <3>2, <3>3, <3>4, PieceAt
    <3>6. Broken(buf, Off(items, c), h) BY <3>2, <3>5
    <3> HIDE DEF buf
    <3>7. from[Off(items, c)] = [whole |-> << >>, error |-> TRUE]
      BY <1>3, <1>4, <2>1, <2>3, <3>6 DEF Walks
    <3> QED BY <3>7, <2>0, <2>3
  <2> QED BY <2>2, <2>3
<1>7. ASSUME NEW k \in Nat, k < c, from[Off(items, k + 1)] = [whole |-> left(k + 1), error |-> done]
      PROVE  from[Off(items, k)] = [whole |-> left(k), error |-> done]
  <2>1. /\ k \in 0..c /\ k + 1 \in 0..c /\ k + 1 \in 1..Len(items) /\ (k + 1) - 1 = k
        /\ k + 1 \in 1..c /\ c \in (k + 1)..Len(items)
    BY <1>1, <1>2, <1>7
  <2>2. /\ Off(items, k) \in 0..Len(buf) /\ Off(items, k) <= n /\ Off(items, k + 1) <= n
    BY <2>1, <1>5
  <2>3. Off(items, (k + 1) - 1) <= n BY <2>1, <2>2
  <2>4. /\ Off(items, (k + 1) - 1) # n /\ ~Broken(buf, Off(items, (k + 1) - 1), h)
        /\ EndOf(buf, Off(items, (k + 1) - 1), h) = Off(items, k + 1)
        /\ Piece(buf, Off(items, (k + 1) - 1), h) = items[k + 1]
    BY <2>1, <2>2, <2>3, PieceAt
  <2>5. /\ Off(items, k) # n /\ ~Broken(buf, Off(items, k), h)
        /\ EndOf(buf, Off(items, k), h) = Off(items, k + 1)
        /\ Piece(buf, Off(items, k), h) = items[k + 1]
    BY <2>1, <2>4
  <2> HIDE DEF buf
  <2>6. from[Off(items, k)] = [whole |-> <<items[k + 1]>> \o from[Off(items, k + 1)].whole,
                               error |-> from[Off(items, k + 1)].error]
    BY <1>3, <1>4, <2>2, <2>5 DEF Walks
  <2>7. from[Off(items, k + 1)].whole = left(k + 1) /\ from[Off(items, k + 1)].error = done
    BY <1>7
  <2>8. left(k) = <<items[k + 1]>> \o left(k + 1)
    <3>1. SubSeq(items, k + 1, c) = <<items[k + 1]>> \o SubSeq(items, (k + 1) + 1, c)
      BY <1>1, <2>1, SubSeqRecursiveFirst
    <3> QED BY <3>1 DEF left
  <2> QED BY <2>6, <2>7, <2>8
<1> DEFINE T == {m \in Nat : \A k \in 0..c : c - k = m =>
                   from[Off(items, k)] = [whole |-> left(k), error |-> done]}
<1>8. ASSUME NEW m \in Nat, \A j \in Nat : j < m => j \in T PROVE m \in T
  <2> SUFFICES ASSUME NEW k \in 0..c, c - k = m
               PROVE  from[Off(items, k)] = [whole |-> left(k), error |-> done]
    OBVIOUS
  <2>1. CASE k = c BY <2>1, <1>6
  <2>2. CASE k # c
    <3>1. k \in Nat /\ k < c /\ k + 1 \in 0..c /\ c - (k + 1) \in Nat /\ c - (k + 1) < m
      BY <2>2, <1>2
    <3>2. from[Off(items, k + 1)] = [whole |-> left(k + 1), error |-> done]
      <4> HIDE DEF left, done
      <4> QED BY <3>1, <1>8
    <3> QED BY <3>1, <3>2, <1>7
  <2> QED BY <2>1, <2>2
<1>9. Nat \subseteq T
  <2> HIDE DEF T
  <2> QED BY <1>8, Induction
<1>10. from[Off(items, 0)] = [whole |-> left(0), error |-> done]
  <2>1. 0 \in 0..c /\ c - 0 \in Nat BY <1>2
  <2> HIDE DEF left, done
  <2> QED BY <1>9, <2>1
<1>11. left(0) = Cut(items, c)
  <2>1. 0 + 1 = 1 OBVIOUS
  <2> QED BY <2>1 DEF left, Cut
<1> HIDE DEF done, buf
<1>12. Walk(buf, h) = [whole |-> Cut(items, c), error |-> done] BY <1>1, <1>4, <1>10, <1>11
<1>13. Walk(buf, h).whole = Cut(items, c) /\ Walk(buf, h).error = done BY <1>12
<1> QED BY <1>13 DEF done, buf

\* Complete, of the properties, is the list of those elements.
LEMMA CompleteHolds ==
  ASSUME NEW h, NEW items, IsList(items, h), NEW n \in Nat
  PROVE  \E c : Holds(items, n, c) /\ Complete(items, n) = Cut(items, c)
<1> DEFINE fitting == {k \in 0..Len(items) : Len(Encoded(Cut(items, k))) <= n}
           c == CHOOSE k \in fitting : \A j \in fitting : j <= k
           mirror == {Len(items) - k : k \in fitting}
<1>1. Len(items) \in Nat /\ Off(items, 0) = 0 BY OffStart
<1>2. 0 \in fitting BY <1>1 DEF Off
<1>3. mirror \in SUBSET Nat /\ mirror # {} BY <1>1, <1>2
<1>4. PICK m \in mirror : \A k \in mirror : m <= k
  <2> HIDE DEF mirror
  <2> QED BY <1>3, Smallest
<1>5. PICK k \in fitting : m = Len(items) - k BY <1>4
<1>6. \A j \in fitting : j <= k
  <2> SUFFICES ASSUME NEW j \in fitting PROVE j <= k OBVIOUS
  <2>1. m <= Len(items) - j BY <1>4
  <2>2. j \in 0..Len(items) /\ k \in 0..Len(items) BY <1>5
  <2> QED BY <2>1, <2>2, <1>1, <1>5
<1>7. c \in fitting /\ \A j \in fitting : j <= c
  <2> HIDE DEF fitting
  <2> QED BY <1>5, <1>6
<1>8. Complete(items, n) = Cut(items, c) BY DEF Complete
<1> HIDE DEF c
<1>9. Holds(items, n, c) BY <1>7 DEF Holds, Off
<1> QED BY <1>8, <1>9

-----------------------------------------------------------------------------
(***************************************************************************)
(* The business frame: the reading that DecodeBusinessFrame chooses among the *)
(* candidates, and the fields it then reads                                *)
(***************************************************************************)

\* KNOWN_DATA_LENGTHS, length by length.
LEMMA KnownLengths ==
  ASSUME NEW op \in Ops, NEW d, d \in ToSet(KNOWN_DATA_LENGTHS(op))
  PROVE  \/ op = "operation_reply" /\ d \in {35, 25}
         \/ op = "lock_upload" /\ d = 21
         \/ op = "lock_operation" /\ d = 34
         \/ op = "lock_upload_reply" /\ d = 12
BY DEF ToSet, KNOWN_DATA_LENGTHS, Ops

\* The tails that are tried: an uplink frame may have a GPS block and stations.
LEMMA KnownExtras ==
  ASSUME NEW op
  PROVE  ToSet(Extras(op)) = IF Direction(op) = "uplink" THEN {0, 28, 35, 38} ELSE {0}
BY DEF ToSet, Extras

\* A frame is of the operation, data and tail it was built with; the CRC is right
\* where the data ends; and LEN counts as one of the modes has it.
LEMMA FrameShape ==
  ASSUME NEW op \in Ops, NEW data \in Nat \ {0}, NEW extra \in Nat,
         NEW f \in FramesOf(op, data, extra)
  PROVE  /\ f.op = op /\ f.data = data /\ f.extra = extra
         /\ 2 + data \in f.tails
         /\ \E m \in LEN_MODES : f.len = LenValue(m, data, data + extra + 4)
BY DEF FramesOf

\* Chosen is a candidate that none precedes, if one is known to be such.
LEMMA ChosenIsFirst ==
  ASSUME NEW f, NEW t \in Candidates(f),
         \A d \in Candidates(f) : \/ Score(f.op, d) < Score(f.op, t)
                                  \/ Score(f.op, d) = Score(f.op, t) /\ t.rank <= d.rank
  PROVE  /\ Chosen(f) \in Candidates(f)
         /\ \A d \in Candidates(f) :
              \/ Score(f.op, d) < Score(f.op, Chosen(f))
              \/ Score(f.op, d) = Score(f.op, Chosen(f)) /\ Chosen(f).rank <= d.rank
BY DEF Chosen

\* A candidate is at a known length, or before a known tail.
LEMMA CandidateCases ==
  ASSUME NEW f, NEW c \in Candidates(f)
  PROVE  /\ c.idx \in f.tails
         /\ \/ /\ c.known = TRUE /\ c.idx < BodyEnd(f)
               /\ \E i \in DOMAIN KNOWN_DATA_LENGTHS(f.op) :
                    c = [idx |-> 2 + KNOWN_DATA_LENGTHS(f.op)[i], known |-> TRUE,
                         extra |-> BodyEnd(f) - 3 - KNOWN_DATA_LENGTHS(f.op)[i],
                         rank |-> i]
            \/ /\ c.known = FALSE /\ c.idx >= 3
               /\ \E i \in DOMAIN Extras(f.op) :
                    c = [idx |-> BodyEnd(f) - 1 - Extras(f.op)[i], known |-> FALSE,
                         extra |-> Extras(f.op)[i],
                         rank |-> Len(KNOWN_DATA_LENGTHS(f.op)) + i]
BY DEF Candidates

\* A known length with a right CRC behind it is a candidate.
LEMMA KnownCandidate ==
  ASSUME NEW f, NEW i \in DOMAIN KNOWN_DATA_LENGTHS(f.op),
         2 + KNOWN_DATA_LENGTHS(f.op)[i] < BodyEnd(f),
         2 + KNOWN_DATA_LENGTHS(f.op)[i] \in f.tails
  PROVE  [idx |-> 2 + KNOWN_DATA_LENGTHS(f.op)[i], known |-> TRUE,
          extra |-> BodyEnd(f) - 3 - KNOWN_DATA_LENGTHS(f.op)[i], rank |-> i]
            \in Candidates(f)
BY DEF Candidates

\* data of a known length with a known tail: the reading chosen is the one meant,
\* unless a second reading fits as well (Ambiguous).
LEMMA Recovered ==
  ASSUME NEW op \in Ops, NEW data \in Nat \ {0}, NEW extra \in Nat,
         NEW f \in FramesOf(op, data, extra),
         KnownData(f), KnownExtra(f), ~Ambiguous(f)
  PROVE  /\ Candidates(f) # {}
         /\ Chosen(f).idx = 2 + data /\ Chosen(f).known /\ Chosen(f).extra = extra
<1>1. f.op = op /\ f.data = data /\ f.extra = extra /\ 2 + data \in f.tails
  BY FrameShape
<1>2. data \in ToSet(KNOWN_DATA_LENGTHS(op)) /\ extra \in ToSet(Extras(op))
  BY <1>1 DEF KnownData, KnownExtra
<1>0. BodyEnd(f) = 3 + data + extra
  BY <1>1 DEF BodyEnd
<1> DEFINE K == KNOWN_DATA_LENGTHS(f.op)
<1>3. PICK i \in DOMAIN K : K[i] = data
  BY <1>1, <1>2 DEF ToSet
<1> DEFINE t == [idx |-> 2 + data, known |-> TRUE, extra |-> extra, rank |-> i]
<1>4. i \in Nat
  BY <1>1, <1>3 DEF KNOWN_DATA_LENGTHS, Ops
<1>5. t \in Candidates(f)
  <2>1. t = [idx |-> 2 + K[i], known |-> TRUE, extra |-> BodyEnd(f) - 3 - K[i], rank |-> i]
    <3> HIDE DEF K
    <3>1. 2 + K[i] = 2 + data /\ BodyEnd(f) - 3 - K[i] = extra BY <1>0, <1>3
    <3> QED BY <3>1
  <2>2. 2 + K[i] < BodyEnd(f) /\ 2 + K[i] \in f.tails
    <3> HIDE DEF K
    <3> QED BY <1>0, <1>1, <1>3
  <2>3. [idx |-> 2 + K[i], known |-> TRUE, extra |-> BodyEnd(f) - 3 - K[i], rank |-> i]
          \in Candidates(f)
    BY <2>2, <1>3, KnownCandidate
  <2> HIDE DEF K, t
  <2> QED BY <2>1, <2>3
<1>6. Score(op, t) = 3
  BY <1>2 DEF Score
<1>7. ASSUME NEW c \in Candidates(f)
      PROVE  c = t \/ Score(op, c) < 3 \/ (Score(op, c) = 3 /\ i < c.rank /\ c.rank \in Nat)
  <2>1. CASE c.known = TRUE
    <3>1. PICK j \in DOMAIN K :
            c = [idx |-> 2 + K[j], known |-> TRUE, extra |-> BodyEnd(f) - 3 - K[j], rank |-> j]
      BY CandidateCases, <2>1
    <3>2. CASE j = i
      <4>1. c = t
        <5> HIDE DEF K
        <5>1. 2 + K[i] = 2 + data /\ BodyEnd(f) - 3 - K[i] = extra BY <1>0, <1>3
        <5> QED BY <3>1, <3>2, <5>1
      <4> QED BY <4>1
    <3>3. CASE j # i
      <4>1. op = "operation_reply" /\ K = <<35, 25>>
        BY <3>1, <3>3, <1>1, <1>3 DEF KNOWN_DATA_LENGTHS, Ops
      <4>2. i \in {1, 2} /\ j \in {1, 2}
        BY <4>1, <1>3, <3>1
      <4>3. CASE i = 1
        BY <4>2, <4>3, <3>1, <3>3 DEF Score
      <4>4. CASE i = 2
        <5>1. data = 25 /\ extra # 38 /\ j = 1 /\ c.extra = extra - 10
          BY <4>4, <4>1, <4>2, <3>3, <3>1, <1>3, <1>1 DEF Ambiguous, BodyEnd
        <5>2. Direction(op) = "uplink" BY <4>1 DEF Direction
        <5>3. extra \in {0, 28, 35, 38} BY <5>2, <1>2, KnownExtras
        <5>4. c.extra \notin ToSet(Extras(op)) BY <5>1, <5>2, <5>3, KnownExtras
        <5> QED BY <5>4, <2>1 DEF Score
      <4> QED BY <4>2, <4>3, <4>4
    <3> QED BY <3>2, <3>3
  <2>2. CASE c.known = FALSE
    BY <2>2 DEF Score
  <2> QED BY <2>1, <2>2, CandidateCases
<1> HIDE DEF t
<1>8. Score(op, t) = 3 /\ t.rank = i
  BY <1>6 DEF t
<1>9. \A c \in Candidates(f) : \/ Score(f.op, c) < Score(f.op, t)
                               \/ Score(f.op, c) = Score(f.op, t) /\ t.rank <= c.rank
  BY <1>1, <1>4, <1>7, <1>8
<1>10. Chosen(f) = t
  <2>1. /\ Chosen(f) \in Candidates(f)
        /\ \/ Score(f.op, t) < Score(f.op, Chosen(f))
           \/ Score(f.op, t) = Score(f.op, Chosen(f)) /\ Chosen(f).rank <= t.rank
    BY <1>5, <1>9, ChosenIsFirst
  <2>2. Score(op, Chosen(f)) \in Int BY DEF Score
  <2> HIDE DEF K
  <2> QED BY <2>1, <2>2, <1>1, <1>4, <1>7, <1>8
<1> QED
  BY <1>5, <1>10 DEF t
\* Where a field of a layout starts is where the one before it ends.
LEMMA StartStep ==
  ASSUME NEW layout, Len(layout) \in Nat,
         \A k \in 1..Len(layout) : layout[k][2] \in Nat,
         NEW i \in 1..Len(layout)
  PROVE  Start(layout, i) = IF i = 1 THEN 0 ELSE Start(layout, i - 1) + layout[i - 1][2]
<1> DEFINE D == 1..Len(layout)
           R(g) == [k \in D |-> IF k = 1 THEN 0 ELSE g[k - 1] + layout[k - 1][2]]
           next == [k \in D |-> IF k = 1 THEN 1 ELSE k - 1]
           comb == [x \in D \X Nat |-> IF x[1] = 1 THEN 0 ELSE x[2] + layout[x[1] - 1][2]]
<1>1. Len(layout) \in Nat /\ \A k \in D : layout[k][2] \in Nat
  OBVIOUS
<1>2. \E g : g = R(g)
  <2> DEFINE rank == [k \in D |-> k]
             base == [k \in D |-> 0]
             V == Nat
             final == {k \in D : k = 1}
  <2>1. IsRecursion(D, V, rank, final, next, base, comb)
    BY <1>1 DEF IsRecursion
  <2>2. PICK g \in [D -> V] :
          \A d \in D : g[d] = IF d \in final THEN base[d] ELSE comb[<<d, g[next[d]]>>]
    <3> HIDE DEF rank, next, base, comb, D, final, V
    <3> QED BY <2>1, Recursion
  <2>3. \A d \in D : g[d] = R(g)[d]
    <3> SUFFICES ASSUME NEW d \in D PROVE g[d] = R(g)[d] OBVIOUS
    <3>1. CASE d = 1
      <4>1. d \in final /\ base[d] = 0 BY <3>1
      <4> HIDE DEF final, base, comb, next
      <4> QED BY <4>1, <3>1, <2>2
    <3>2. CASE d # 1
      <4>1. d \notin final /\ next[d] = d - 1 /\ d - 1 \in D
        BY <3>2, <1>1
      <4>3. g[d - 1] \in Nat
        <5> HIDE DEF final, base, comb, next
        <5> QED BY <4>1, <2>2 DEF V
      <4>2. comb[<<d, g[next[d]]>>] = g[d - 1] + layout[d - 1][2] BY <4>1, <4>3, <3>2
      <4> HIDE DEF final, base, comb, next
      <4> QED BY <4>1, <4>2, <3>2, <2>2
    <3> QED BY <3>1, <3>2
  <2>4. g = R(g)
    <3>1. g = [d \in D |-> g[d]] BY <2>2
    <3> QED BY <2>3, <3>1
  <2> QED BY <2>4
<1> DEFINE start == CHOOSE g : g = R(g)
<1>3. start = R(start)
  <2> HIDE DEF R
  <2> QED BY <1>2
<1>4. \A k \in D : Start(layout, k) = start[k]
  BY DEF Start
<1>5. start[i] = IF i = 1 THEN 0 ELSE start[i - 1] + layout[i - 1][2]
  <2> HIDE DEF start
  <2> QED BY <1>3
<1> HIDE DEF start
<1> QED BY <1>1, <1>4, <1>5

\* Every field of data of a known length is read where its encoder put it.
FieldsRead(op, data) ==
  \A i \in DOMAIN Layout(op, data) : Layout(op, data)[i][1] # "op" =>
    DecodeBusinessData(op, data)[Layout(op, data)[i][1]]
      = <<Start(Layout(op, data), i),
          Start(Layout(op, data), i) + Layout(op, data)[i][2]>>

\* The reply of the former protocol, field by field.
LEMMA FieldsFormerReply ==
  ASSUME NEW data, data = 25
  PROVE  FieldsRead("operation_reply", data)
<1> DEFINE layout ==
      << <<"op", 1>>, <<"code", 1>>, <<"lockId", 4>>, <<"gate", 1>>, <<"bill", 8>>,
         <<"voltage", 1>>, <<"lockStatus", 1>>, <<"motorStatus", 1>>,
         <<"commandSource", 1>>, <<"time", 6>> >>
<1>1. Layout("operation_reply", data) = layout
  BY DEF Layout, EncodeOperationReply
<1>2. Len(layout) = 10 /\ DOMAIN layout = 1..10 /\ \A k \in 1..10 : layout[k][2] \in Nat
  OBVIOUS
<1>3. /\ Start(layout, 1) = 0 /\ Start(layout, 2) = 1 /\ Start(layout, 3) = 2
      /\ Start(layout, 4) = 6 /\ Start(layout, 5) = 7 /\ Start(layout, 6) = 15
      /\ Start(layout, 7) = 16 /\ Start(layout, 8) = 17 /\ Start(layout, 9) = 18
      /\ Start(layout, 10) = 19
  <2>1. ASSUME NEW i \in 1..10
        PROVE  Start(layout, i) = IF i = 1 THEN 0 ELSE Start(layout, i - 1) + layout[i - 1][2]
    <3> HIDE DEF layout
    <3>1. /\ Len(layout) \in Nat /\ i \in 1..Len(layout)
          /\ \A k \in 1..Len(layout) : layout[k][2] \in Nat
      BY <1>2
    <3> QED BY <3>1, StartStep
  <2> QED BY <2>1
<1>4. data \in ToSet(KNOWN_DATA_LENGTHS("operation_reply"))
  BY DEF ToSet, KNOWN_DATA_LENGTHS
<1>5. DecodeBusinessData("operation_reply", data) =
        [ code |-> <<1, 2>>, lockId |-> <<2, 6>>, gate |-> <<6, 7>>,
           bill |-> <<7, 15>>, voltage |-> <<15, 16>>, lockStatus |-> <<16, 17>>,
           motorStatus |-> <<17, 18>>, commandSource |-> <<18, 19>>,
           time |-> <<19, 25>> ]
  BY <1>4 DEF DecodeBusinessData, DecodeOperationReply, At
<1> DEFINE reads == DecodeBusinessData("operation_reply", data)
<1>6. \A i \in 1..5 : layout[i][1] # "op" =>
       reads[layout[i][1]] = <<Start(layout, i), Start(layout, i) + layout[i][2]>>
  BY <1>3, <1>5
<1>7. \A i \in 6..10 : layout[i][1] # "op" =>
       reads[layout[i][1]] = <<Start(layout, i), Start(layout, i) + layout[i][2]>>
  BY <1>3, <1>5
<1>8. \A i \in 1..10 : i \in 1..5 \/ i \in 6..10 OBVIOUS
<1>9. \A i \in DOMAIN layout : layout[i][1] # "op" =>
       reads[layout[i][1]] = <<Start(layout, i), Start(layout, i) + layout[i][2]>>
  <2> HIDE DEF layout, reads
  <2> QED BY <1>2, <1>6, <1>7, <1>8
<1> HIDE DEF layout
<1> QED BY <1>1, <1>9 DEF FieldsRead

\* The reply, field by field.
LEMMA FieldsReply ==
  ASSUME NEW data, data = 35
  PROVE  FieldsRead("operation_reply", data)
<1> DEFINE layout ==
      << <<"op", 1>>, <<"code", 1>>, <<"lockId", 4>>, <<"gate", 1>>, <<"bill", 8>>,
         <<"voltage", 1>>, <<"lockStatus", 1>>, <<"motorStatus", 1>>,
         <<"lineCode", 2>>, <<"operationIdentifier", 8>>, <<"commandSource", 1>>,
         <<"time", 6>> >>
<1>1. Layout("operation_reply", data) = layout
  BY DEF Layout, EncodeOperationReply
<1>2. Len(layout) = 12 /\ DOMAIN layout = 1..12 /\ \A k \in 1..12 : layout[k][2] \in Nat
  OBVIOUS
<1>3. /\ Start(layout, 1) = 0 /\ Start(layout, 2) = 1 /\ Start(layout, 3) = 2
      /\ Start(layout, 4) = 6 /\ Start(layout, 5) = 7 /\ Start(layout, 6) = 15
      /\ Start(layout, 7) = 16 /\ Start(layout, 8) = 17 /\ Start(layout, 9) = 18
      /\ Start(layout, 10) = 20 /\ Start(layout, 11) = 28 /\ Start(layout, 12) = 29
  <2>1. ASSUME NEW i \in 1..12
        PROVE  Start(layout, i) = IF i = 1 THEN 0 ELSE Start(layout, i - 1) + layout[i - 1][2]
    <3> HIDE DEF layout
    <3>1. /\ Len(layout) \in Nat /\ i \in 1..Len(layout)
          /\ \A k \in 1..Len(layout) : layout[k][2] \in Nat
      BY <1>2
    <3> QED BY <3>1, StartStep
  <2> QED BY <2>1
<1>4. data \in ToSet(KNOWN_DATA_LENGTHS("operation_reply"))
  BY DEF ToSet, KNOWN_DATA_LENGTHS
<1>5. DecodeBusinessData("operation_reply", data) =
        [ code |-> <<1, 2>>, lockId |-> <<2, 6>>, gate |-> <<6, 7>>,
           bill |-> <<7, 15>>, voltage |-> <<15, 16>>, lockStatus |-> <<16, 17>>,
           motorStatus |-> <<17, 18>>, lineCode |-> <<18, 20>>,
           operationIdentifier |-> <<20, 28>>, commandSource |-> <<28, 29>>,
           time |-> <<29, 35>> ]
  BY <1>4 DEF DecodeBusinessData, DecodeOperationReply, At
<1> DEFINE reads == DecodeBusinessData("operation_reply", data)
<1>6. \A i \in 1..6 : layout[i][1] # "op" =>
       reads[layout[i][1]] = <<Start(layout, i), Start(layout, i) + layout[i][2]>>
  BY <1>3, <1>5
<1>7. \A i \in 7..12 : layout[i][1] # "op" =>
       reads[layout[i][1]] = <<Start(layout, i), Start(layout, i) + layout[i][2]>>
  BY <1>3, <1>5
<1>8. \A i \in 1..12 : i \in 1..6 \/ i \in 7..12 OBVIOUS
<1>9. \A i \in DOMAIN layout : layout[i][1] # "op" =>
       reads[layout[i][1]] = <<Start(layout, i), Start(layout, i) + layout[i][2]>>
  <2> HIDE DEF layout, reads
  <2> QED BY <1>2, <1>6, <1>7, <1>8
<1> HIDE DEF layout
<1> QED BY <1>1, <1>9 DEF FieldsRead

\* The keypad upload, field by field.
LEMMA FieldsUpload ==
  ASSUME NEW data, data = 21
  PROVE  FieldsRead("lock_upload", data)
<1> DEFINE layout ==
      << <<"op", 1>>, <<"code", 1>>, <<"lockId", 4>>, <<"gate", 1>>,
         <<"voltage", 1>>, <<"lockStatus", 1>>, <<"motorStatus", 1>>,
         <<"spare", 4>>, <<"version", 1>>, <<"time", 6>> >>
<1>1. Layout("lock_upload", data) = layout
  BY DEF Layout, EncodeLockUpload
<1>2. Len(layout) = 10 /\ DOMAIN layout = 1..10 /\ \A k \in 1..10 : layout[k][2] \in Nat
  OBVIOUS
<1>3. /\ Start(layout, 1) = 0 /\ Start(layout, 2) = 1 /\ Start(layout, 3) = 2
      /\ Start(layout, 4) = 6 /\ Start(layout, 5) = 7 /\ Start(layout, 6) = 8
      /\ Start(layout, 7) = 9 /\ Start(layout, 8) = 10 /\ Start(layout, 9) = 14
      /\ Start(layout, 10) = 15
  <2>1. ASSUME NEW i \in 1..10
        PROVE  Start(layout, i) = IF i = 1 THEN 0 ELSE Start(layout, i - 1) + layout[i - 1][2]
    <3> HIDE DEF layout
    <3>1. /\ Len(layout) \in Nat /\ i \in 1..Len(layout)
          /\ \A k \in 1..Len(layout) : layout[k][2] \in Nat
      BY <1>2
    <3> QED BY <3>1, StartStep
  <2> QED BY <2>1
<1>4. data \in ToSet(KNOWN_DATA_LENGTHS("lock_upload"))
  BY DEF ToSet, KNOWN_DATA_LENGTHS
<1>5. DecodeBusinessData("lock_upload", data) =
        [ code |-> <<1, 2>>, lockId |-> <<2, 6>>, gate |-> <<6, 7>>,
           voltage |-> <<7, 8>>, lockStatus |-> <<8, 9>>,
           motorStatus |-> <<9, 10>>, spare |-> <<10, 14>>, version |-> <<14, 15>>,
           time |-> <<15, 21>> ]
  BY <1>4 DEF DecodeBusinessData, DecodeLockUpload, At
<1> QED BY <1>1, <1>2, <1>3, <1>5 DEF FieldsRead

\* The command, field by field.
LEMMA FieldsOperation ==
  ASSUME NEW data, data = 34
  PROVE  FieldsRead("lock_operation", data)
<1> DEFINE layout ==
      << <<"op", 1>>, <<"code", 1>>, <<"lockId", 4>>, <<"gate", 1>>, <<"bill", 8>>,
         <<"lineCode", 2>>, <<"key", 6>>, <<"validTime", 1>>, <<"spare", 4>>,
         <<"time", 6>> >>
<1>1. Layout("lock_operation", data) = layout
  BY DEF Layout, EncodeLockOperation
<1>2. Len(layout) = 10 /\ DOMAIN layout = 1..10 /\ \A k \in 1..10 : layout[k][2] \in Nat
  OBVIOUS
<1>3. /\ Start(layout, 1) = 0 /\ Start(layout, 2) = 1 /\ Start(layout, 3) = 2
      /\ Start(layout, 4) = 6 /\ Start(layout, 5) = 7 /\ Start(layout, 6) = 15
      /\ Start(layout, 7) = 17 /\ Start(layout, 8) = 23 /\ Start(layout, 9) = 24
      /\ Start(layout, 10) = 28
  <2>1. ASSUME NEW i \in 1..10
        PROVE  Start(layout, i) = IF i = 1 THEN 0 ELSE Start(layout, i - 1) + layout[i - 1][2]
    <3> HIDE DEF layout
    <3>1. /\ Len(layout) \in Nat /\ i \in 1..Len(layout)
          /\ \A k \in 1..Len(layout) : layout[k][2] \in Nat
      BY <1>2
    <3> QED BY <3>1, StartStep
  <2> QED BY <2>1
<1>4. data \in ToSet(KNOWN_DATA_LENGTHS("lock_operation"))
  BY DEF ToSet, KNOWN_DATA_LENGTHS
<1>5. DecodeBusinessData("lock_operation", data) =
        [ code |-> <<1, 2>>, lockId |-> <<2, 6>>, gate |-> <<6, 7>>,
           bill |-> <<7, 15>>, lineCode |-> <<15, 17>>, key |-> <<17, 23>>,
           validTime |-> <<23, 24>>, spare |-> <<24, 28>>, time |-> <<28, 34>> ]
  BY <1>4 DEF DecodeBusinessData, DecodeLockOperation, At
<1> QED BY <1>1, <1>2, <1>3, <1>5 DEF FieldsRead

\* The reply to an upload, field by field.
LEMMA FieldsUploadReply ==
  ASSUME NEW data, data = 12
  PROVE  FieldsRead("lock_upload_reply", data)
<1> DEFINE layout ==
      << <<"op", 1>>, <<"code", 1>>, <<"lockId", 4>>, <<"time", 6>> >>
<1>1. Layout("lock_upload_reply", data) = layout
  BY DEF Layout, EncodeLockUploadReply
<1>2. Len(layout) = 4 /\ DOMAIN layout = 1..4 /\ \A k \in 1..4 : layout[k][2] \in Nat
  OBVIOUS
<1>3. /\ Start(layout, 1) = 0 /\ Start(layout, 2) = 1 /\ Start(layout, 3) = 2
      /\ Start(layout, 4) = 6
  <2>1. ASSUME NEW i \in 1..4
        PROVE  Start(layout, i) = IF i = 1 THEN 0 ELSE Start(layout, i - 1) + layout[i - 1][2]
    <3> HIDE DEF layout
    <3>1. /\ Len(layout) \in Nat /\ i \in 1..Len(layout)
          /\ \A k \in 1..Len(layout) : layout[k][2] \in Nat
      BY <1>2
    <3> QED BY <3>1, StartStep
  <2> QED BY <2>1
<1>4. data \in ToSet(KNOWN_DATA_LENGTHS("lock_upload_reply"))
  BY DEF ToSet, KNOWN_DATA_LENGTHS
<1>5. DecodeBusinessData("lock_upload_reply", data) =
        [ code |-> <<1, 2>>, lockId |-> <<2, 6>>, time |-> <<6, 12>> ]
  BY <1>4 DEF DecodeBusinessData, DecodeLockUploadReply, At
<1> QED BY <1>1, <1>2, <1>3, <1>5 DEF FieldsRead

\* decodeBusinessData, for every operation and known length.
LEMMA FieldsOfKnown ==
  ASSUME NEW op \in Ops, NEW data, data \in ToSet(KNOWN_DATA_LENGTHS(op))
  PROVE  FieldsRead(op, data)
BY KnownLengths, FieldsFormerReply, FieldsReply, FieldsUpload, FieldsOperation,
   FieldsUploadReply

\* decodeBusinessFrame: length, GPS block, mode and fields are those of the frame.
LEMMA FrameRecovered ==
  ASSUME NEW op \in Ops, NEW data \in Nat \ {0}, NEW extra \in Nat,
         NEW f \in FramesOf(op, data, extra),
         KnownData(f), KnownExtra(f), ~Ambiguous(f)
  PROVE  /\ DecodeBusinessFrame(f).ok = TRUE /\ DecodeBusinessFrame(f).data = data
         /\ DecodeBusinessFrame(f).gps <=> extra >= 28
         /\ Cardinality(DecodeBusinessFrame(f).modes) = 1
         /\ DecodeBusinessFrame(f).payload = DecodeBusinessData(op, data)
<1> DEFINE c == Chosen(f)
           modes == {m \in LEN_MODES : LenValue(m, c.idx - 2, f.data + f.extra + 4) = f.len}
<1>1. Candidates(f) # {} /\ c.idx = 2 + data /\ c.extra = extra
  BY Recovered
<1>2. f.op = op /\ f.data = data /\ f.extra = extra
  BY FrameShape
<1>3. PICK m \in LEN_MODES : f.len = LenValue(m, data, data + extra + 4)
  BY FrameShape
<1>4. c.idx - 2 = data BY <1>1
<1> HIDE DEF c
<1>5. modes = {m}
  <2>1. \A n \in LEN_MODES :
          LenValue(n, data, data + extra + 4) = LenValue(m, data, data + extra + 4) => n = m
    BY DEF LenValue, LEN_MODES
  <2> QED BY <1>2, <1>3, <1>4, <2>1
<1>6. Cardinality(modes) = 1
  BY <1>5, FS_Singleton
<1>7. DecodeBusinessFrame(f)
        = [ok |-> TRUE, data |-> c.idx - 2, payload |-> DecodeBusinessData(f.op, c.idx - 2),
           modes |-> modes, gps |-> c.extra >= 28, lbs |-> LbsVariant(c.extra - 28),
           warned |-> \/ Warned(f.op, c) \/ modes = {}
                      \/ DecodeBusinessData(f.op, c.idx - 2) = Unread]
  BY <1>1 DEF DecodeBusinessFrame, c
<1> HIDE DEF modes
<1> DEFINE r == DecodeBusinessFrame(f)
<1>8. /\ r.ok = TRUE /\ r.data = c.idx - 2 /\ r.modes = modes
      /\ r.payload = DecodeBusinessData(f.op, c.idx - 2) /\ r.gps = (c.extra >= 28)
  BY <1>7
<1> HIDE DEF r
<1>9. /\ r.ok = TRUE /\ r.data = data /\ (r.gps <=> extra >= 28)
      /\ Cardinality(r.modes) = 1 /\ r.payload = DecodeBusinessData(op, data)
  BY <1>1, <1>2, <1>4, <1>6, <1>8
<1> QED BY <1>9 DEF r

\* Some candidate is the first of the highest score.
LEMMA ChosenIsCandidate ==
  ASSUME NEW f, f.op \in Ops, Candidates(f) # {}
  PROVE  Chosen(f) \in Candidates(f)
<1> DEFINE key(c) == 10 * (3 - Score(f.op, c)) + c.rank
           keys == {key(c) : c \in Candidates(f)}
<1>1. ASSUME NEW c \in Candidates(f)
      PROVE  Score(f.op, c) \in 0..3 /\ c.rank \in 1..9
  <2>1. Score(f.op, c) \in 0..3 BY DEF Score
  <2>2. /\ DOMAIN KNOWN_DATA_LENGTHS(f.op) \subseteq 1..2
        /\ Len(KNOWN_DATA_LENGTHS(f.op)) \in 0..2 /\ DOMAIN Extras(f.op) \subseteq 1..4
    BY DEF KNOWN_DATA_LENGTHS, Extras, Ops
  <2>3. c.rank \in 1..9
    <3>1. CASE c.known = TRUE
      <4>1. PICK i \in DOMAIN KNOWN_DATA_LENGTHS(f.op) :
              c = [idx |-> 2 + KNOWN_DATA_LENGTHS(f.op)[i], known |-> TRUE,
                   extra |-> BodyEnd(f) - 3 - KNOWN_DATA_LENGTHS(f.op)[i], rank |-> i]
        BY <3>1, CandidateCases
      <4>2. c.rank = i BY <4>1
      <4> QED BY <4>2, <2>2
    <3>2. CASE c.known = FALSE
      <4>1. PICK i \in DOMAIN Extras(f.op) :
              c = [idx |-> BodyEnd(f) - 1 - Extras(f.op)[i], known |-> FALSE,
                   extra |-> Extras(f.op)[i], rank |-> Len(KNOWN_DATA_LENGTHS(f.op)) + i]
        BY <3>2, CandidateCases
      <4>2. c.rank = Len(KNOWN_DATA_LENGTHS(f.op)) + i BY <4>1
      <4> QED BY <4>2, <2>2
    <3> QED BY <3>1, <3>2, CandidateCases
  <2> QED BY <2>1, <2>3
<1>2. keys \in SUBSET Nat /\ keys # {}
  BY <1>1
<1>3. PICK m \in keys : \A k \in keys : m <= k
  <2> HIDE DEF keys
  <2> QED BY <1>2, Smallest
<1>4. PICK c \in Candidates(f) : m = key(c)
  BY <1>3
<1>5. ASSUME NEW d \in Candidates(f)
      PROVE  \/ Score(f.op, d) < Score(f.op, c)
             \/ Score(f.op, d) = Score(f.op, c) /\ c.rank <= d.rank
  <2>1. key(c) <= key(d) BY <1>3, <1>4
  <2>2. /\ Score(f.op, c) \in 0..3 /\ c.rank \in 1..9
        /\ Score(f.op, d) \in 0..3 /\ d.rank \in 1..9
    BY <1>1
  <2> QED BY <2>1, <2>2
<1> QED BY <1>5, ChosenIsFirst

\* A reading of another length than the data's is warned about, unless a known
\* length of the operation coincides with it (Coincides).
LEMMA MisreadWarned ==
  ASSUME NEW op \in Ops, NEW data \in Nat \ {0}, NEW extra \in Nat,
         NEW f \in FramesOf(op, data, extra), ~Coincides(f),
         DecodeBusinessFrame(f).ok = TRUE, DecodeBusinessFrame(f).data # data
  PROVE  DecodeBusinessFrame(f).warned = TRUE
<1> DEFINE c == Chosen(f)
           payload == DecodeBusinessData(f.op, c.idx - 2)
<1>1. f.op = op /\ f.data = data /\ f.extra = extra
  BY FrameShape
<1>2. Candidates(f) # {}
  BY DEF DecodeBusinessFrame
<1>3. c \in Candidates(f)
  BY <1>1, <1>2, ChosenIsCandidate
<1>4. DecodeBusinessFrame(f).data = c.idx - 2
  BY <1>2 DEF DecodeBusinessFrame
<1>5. Warned(f.op, c) \/ payload = Unread => DecodeBusinessFrame(f).warned = TRUE
  BY <1>2 DEF DecodeBusinessFrame
<1>6. CASE c.known = TRUE
  <2>1. PICK j \in DOMAIN KNOWN_DATA_LENGTHS(f.op) :
          c = [idx |-> 2 + KNOWN_DATA_LENGTHS(f.op)[j], known |-> TRUE,
               extra |-> BodyEnd(f) - 3 - KNOWN_DATA_LENGTHS(f.op)[j], rank |-> j]
    BY <1>3, <1>6, CandidateCases
  <2> DEFINE L == KNOWN_DATA_LENGTHS(f.op)[j]
  <2>2. L \in Nat /\ L \in ToSet(KNOWN_DATA_LENGTHS(f.op))
    BY <1>1 DEF KNOWN_DATA_LENGTHS, Ops, ToSet
  <2>3. c.idx = 2 + L /\ c.extra = data + extra - L
    <3>1. BodyEnd(f) - 3 - L = data + extra - L BY <1>1, <2>2 DEF BodyEnd
    <3> HIDE DEF c
    <3> QED BY <2>1, <3>1
  <2> HIDE DEF L, c
  <2>4. L # data BY <1>4, <2>2, <2>3
  <2>5. c.extra \notin ToSet(Extras(f.op))
    <3>1. ASSUME c.extra \in ToSet(Extras(f.op)) PROVE L + c.extra = f.data + f.extra
      BY <1>1, <2>2, <2>3
    <3> QED BY <3>1, <1>1, <2>2, <2>4 DEF Coincides
  <2> QED BY <2>5, <1>5 DEF Warned
<1>7. CASE c.known = FALSE
  <2>1. CASE KNOWN_DATA_LENGTHS(f.op) # << >>
    BY <1>5, <1>7, <2>1 DEF Warned
  <2>2. CASE KNOWN_DATA_LENGTHS(f.op) = << >>
    <3>1. ToSet(KNOWN_DATA_LENGTHS(f.op)) = {}
      BY <2>2 DEF ToSet
    <3> QED BY <3>1, <1>5 DEF DecodeBusinessData
  <2> QED BY <2>1, <2>2
<1> QED
  BY <1>3, <1>6, <1>7, CandidateCases

-----------------------------------------------------------------------------
(***************************************************************************)
(* The position report: BCD time in the zone of the device, and the signs and *)
(* status bits of a position                                               *)
(***************************************************************************)

\* A day more, from March on.
Leap(y) == IF y % 4 = 0 THEN 1 ELSE 0

\* Days before each month.
Calendar(l) == <<0, 31, 59 + l, 90 + l, 120 + l, 151 + l, 181 + l, 212 + l, 243 + l,
                 273 + l, 304 + l, 334 + l, 365 + l>>

\* Each month begins when the one before it ends.
LEMMA MonthSteps ==
  ASSUME NEW y \in Nat, NEW m \in 1..12
  PROVE  /\ Calendar(Leap(y))[m] \in Nat /\ Calendar(Leap(y))[1] = 0
         /\ MonthLength(y, m) \in 28..31
         /\ Calendar(Leap(y))[m + 1] = Calendar(Leap(y))[m] + MonthLength(y, m)
<1>1. Leap(y) \in {0, 1} BY DEF Leap
<1>2. y % 4 = 0 <=> Leap(y) = 1 BY DEF Leap
<1> QED BY <1>1, <1>2 DEF Calendar, MonthLength

\* The sum of the months before one, as a table.
LEMMA MonthsBefore ==
  ASSUME NEW y \in Nat, NEW m \in 1..12
  PROVE  DaysBeforeMonth(y, m) = Calendar(Leap(y))[m]
<1> DEFINE R(g) == [k \in 1..12 |-> IF k = 1 THEN 0 ELSE g[k - 1] + MonthLength(y, k - 1)]
           cal == [k \in 1..12 |-> Calendar(Leap(y))[k]]
           before == CHOOSE g : g = R(g)
<1>1. cal = R(cal)
  <2>1. ASSUME NEW k \in 1..12
        PROVE  cal[k] = IF k = 1 THEN 0 ELSE cal[k - 1] + MonthLength(y, k - 1)
    <3>1. CASE k = 1 BY <3>1, MonthSteps
    <3>2. CASE k # 1
      <4>1. k - 1 \in 1..12 /\ (k - 1) + 1 = k BY <3>2
      <4>2. Calendar(Leap(y))[(k - 1) + 1] = Calendar(Leap(y))[k - 1] + MonthLength(y, k - 1)
        BY <4>1, MonthSteps
      <4> QED BY <4>1, <4>2, <3>2
    <3> QED BY <3>1, <3>2
  <2> QED BY <2>1
<1>2. before = R(before)
  <2> HIDE DEF R, cal
  <2> QED BY <1>1
<1>3. DaysBeforeMonth(y, m) = before[m]
  BY DEF DaysBeforeMonth
<1> HIDE DEF before
<1>4. /\ before[1] = 0
      /\ \A k \in 2..12 : before[k] = before[k - 1] + MonthLength(y, k - 1)
  BY <1>2
<1>5. \A k \in 2..12 : Calendar(Leap(y))[k] = Calendar(Leap(y))[k - 1] + MonthLength(y, k - 1)
  <2>1. ASSUME NEW k \in 2..12
        PROVE  Calendar(Leap(y))[k] = Calendar(Leap(y))[k - 1] + MonthLength(y, k - 1)
    <3>1. k - 1 \in 1..12 /\ (k - 1) + 1 = k OBVIOUS
    <3> QED BY <3>1, MonthSteps
  <2> QED BY <2>1
<1> DEFINE S == {k \in Nat : k \in 1..12 => before[k] = Calendar(Leap(y))[k]}
<1>6. ASSUME NEW k \in Nat, \A j \in Nat : j < k => j \in S PROVE k \in S
  <2>1. CASE k \in 2..12
    <3>1. k - 1 \in Nat /\ k - 1 \in 1..12 /\ k - 1 \in S BY <1>6, <2>1
    <3> QED BY <3>1, <2>1, <1>4, <1>5
  <2>2. CASE k = 1
    BY <2>2, <1>4, MonthSteps
  <2> QED BY <2>1, <2>2
<1>7. Nat \subseteq S
  <2> HIDE DEF S
  <2> QED BY <1>6, Induction
<1> QED BY <1>3, <1>7

\* The year of a day of the century is the one it falls in.
LEMMA YearBounds ==
  ASSUME NEW day \in Nat, day < DaysBeforeYear(100)
  PROVE  /\ YearOf(day) \in 0..99
         /\ DaysBeforeYear(YearOf(day)) <= day
         /\ day < DaysBeforeYear(YearOf(day) + 1)
<1> DEFINE y == (4 * day) \div 1461
<1>1. y \in 0..99 /\ DaysBeforeYear(y) <= day /\ day < DaysBeforeYear(y + 1)
  BY DEF DaysBeforeYear
<1>2. YearOf(day) \in 0..100 /\ DaysBeforeYear(YearOf(day)) <= day /\ day < DaysBeforeYear(YearOf(day) + 1)
  <2> HIDE DEF y
  <2> QED BY <1>1 DEF YearOf
<1>3. YearOf(day) # 100
  BY <1>2 DEF DaysBeforeYear
<1> QED BY <1>2, <1>3

\* A year has 365 or 366 days.
LEMMA YearLength ==
  ASSUME NEW y \in Nat
  PROVE  /\ DaysBeforeYear(y) \in Nat
         /\ DaysBeforeYear(y + 1) = DaysBeforeYear(y) + 365 + Leap(y)
BY DEF DaysBeforeYear, Leap

\* Year, month and day of a day of the century, and the day they stand for.
LEMMA MonthBounds ==
  ASSUME NEW day \in Nat, day < DaysBeforeYear(100)
  PROVE  /\ MonthOf(day) \in 1..12
         /\ DayOf(day) \in 1..31
         /\ day = DaysBeforeYear(YearOf(day))
                    + DaysBeforeMonth(YearOf(day), MonthOf(day)) + DayOf(day) - 1
<1> DEFINE y == YearOf(day)
           d == day - DaysBeforeYear(y)
           l == Leap(y)
<1>1. y \in 0..99 /\ d \in Nat /\ d < 365 + l /\ l \in {0, 1}
  <2>1. y \in 0..99 /\ DaysBeforeYear(y) <= day /\ day < DaysBeforeYear(y + 1)
    BY YearBounds
  <2> HIDE DEF y
  <2>2. DaysBeforeYear(y) \in Nat /\ DaysBeforeYear(y + 1) = DaysBeforeYear(y) + 365 + l
    BY <2>1, YearLength
  <2>3. l \in {0, 1} BY DEF Leap
  <2> QED BY <2>1, <2>2, <2>3
<1> HIDE DEF d, y, l
<1>2. \E m \in 1..12 : Calendar(l)[m] <= d /\ d < Calendar(l)[m + 1]
  BY <1>1 DEF Calendar
<1> DEFINE In(m) == LET n == day - DaysBeforeYear(y) - DaysBeforeMonth(y, m)
                    IN  0 <= n /\ n < MonthLength(y, m)
<1>3. \E m \in 1..12 : In(m)
  <2>1. PICK m \in 1..12 : Calendar(l)[m] <= d /\ d < Calendar(l)[m + 1]
    BY <1>2
  <2>2. /\ DaysBeforeMonth(y, m) = Calendar(l)[m] /\ MonthLength(y, m) \in 28..31
        /\ Calendar(l)[m] \in Nat
        /\ Calendar(l)[m + 1] = Calendar(l)[m] + MonthLength(y, m)
    BY <1>1, MonthsBefore, MonthSteps DEF l
  <2>3. day - DaysBeforeYear(y) - DaysBeforeMonth(y, m) = d - Calendar(l)[m]
    BY <2>2 DEF d
  <2> QED BY <2>1, <2>2, <2>3, <1>1
<1>4. MonthOf(day) \in 1..12 /\ In(MonthOf(day))
  <2>1. MonthOf(day) = CHOOSE m \in 1..12 : In(m)
    BY DEF MonthOf, y
  <2> HIDE DEF In
  <2> QED BY <2>1, <1>3
<1> DEFINE m == MonthOf(day)
<1>5. DayOf(day) = day - DaysBeforeYear(y) - DaysBeforeMonth(y, m) + 1
  BY DEF DayOf, y
<1>6. MonthLength(y, m) \in 28..31 /\ DaysBeforeMonth(y, m) \in Nat /\ DaysBeforeYear(y) \in Nat
  <2>1. y \in Nat /\ m \in 1..12 BY <1>1, <1>4
  <2> HIDE DEF m
  <2>2. MonthLength(y, m) \in 28..31 /\ Calendar(Leap(y))[m] \in Nat BY <2>1, MonthSteps
  <2>3. DaysBeforeMonth(y, m) = Calendar(Leap(y))[m] BY <2>1, MonthsBefore
  <2>4. DaysBeforeYear(y) \in Nat BY <2>1, YearLength
  <2> QED BY <2>2, <2>3, <2>4
<1> HIDE DEF m
<1>7. /\ DayOf(day) \in 1..31
      /\ day = DaysBeforeYear(y) + DaysBeforeMonth(y, m) + DayOf(day) - 1
  BY <1>4, <1>5, <1>6 DEF m
<1> QED BY <1>4, <1>7 DEF m, y

\* Day, hour and minute of a number of minutes.
LEMMA Clock ==
  ASSUME NEW n \in Nat
  PROVE  /\ n \div 1440 \in Nat
         /\ n = 1440 * (n \div 1440) + 60 * ((n % 1440) \div 60) + (n % 60)
         /\ (n % 1440) \div 60 \in 0..23 /\ n % 60 \in 0..59
         /\ \A k \in Nat : n < 1440 * k => n \div 1440 < k
<1>1. n \div 1440 \in Nat /\ n = 1440 * (n \div 1440) + (n % 1440) /\ n % 1440 \in 0..1439
  OBVIOUS
<1>2. ASSUME NEW r \in 0..1439 PROVE r = 60 * (r \div 60) + (r % 60) /\ r \div 60 \in 0..23
  OBVIOUS
<1>3. (n % 1440) % 60 = n % 60 /\ n % 60 \in 0..59
  OBVIOUS
<1> DEFINE q == n \div 1440
           r == n % 1440
<1> HIDE DEF q, r
<1>4. /\ q \in Nat /\ n = 1440 * q + 60 * (r \div 60) + (n % 60)
      /\ r \div 60 \in 0..23 /\ n % 60 \in 0..59
      /\ \A k \in Nat : n < 1440 * k => q < k
  <2>1. q \in Nat /\ r \in 0..1439 /\ n = 1440 * q + r /\ r % 60 = n % 60
    BY <1>1, <1>3 DEF q, r
  <2>2. r = 60 * (r \div 60) + (r % 60) /\ r \div 60 \in 0..23
    BY <2>1, <1>2
  <2> QED BY <2>1, <2>2, <1>3
<1> QED BY <1>4 DEF q, r

\* encodeBcdTime, then decodeBcdTime, in a zone east or west: the instant, as
\* long as the local year has two digits.
LEMMA TimeRecovered ==
  ASSUME NEW instant \in Int, NEW tz \in Int,
         0 <= instant + tz, instant + tz < 1440 * DaysBeforeYear(100)
  PROVE  LET t == DecodeBcdTime(EncodeBcdTime(instant, tz), tz)
         IN  t.valid = TRUE /\ t.instant = instant
<1> DEFINE local == instant + tz
           day == local \div 1440
           b == EncodeBcdTime(instant, tz)
<1>1. /\ day \in Nat /\ day < DaysBeforeYear(100)
      /\ local = 1440 * day + 60 * ((local % 1440) \div 60) + (local % 60)
      /\ (local % 1440) \div 60 \in 0..23 /\ local % 60 \in 0..59
  <2>1. local \in Nat OBVIOUS
  <2>2. DaysBeforeYear(100) = 36525 BY DEF DaysBeforeYear
  <2>3. local < 1440 * 36525 BY <2>2
  <2> HIDE DEF local
  <2> QED BY <2>1, <2>2, <2>3, Clock
<1>2. /\ YearOf(day) \in 0..99 /\ MonthOf(day) \in 1..12 /\ DayOf(day) \in 1..31
      /\ day = DaysBeforeYear(YearOf(day))
                 + DaysBeforeMonth(YearOf(day), MonthOf(day)) + DayOf(day) - 1
  <2> HIDE DEF day
  <2> QED BY <1>1, YearBounds, MonthBounds
<1>3. /\ b[1] = YearOf(day) /\ b[2] = MonthOf(day) /\ b[3] = DayOf(day)
      /\ b[4] = (local % 1440) \div 60 /\ b[5] = local % 60
  <2>1. YearOf(day) % 100 = YearOf(day)
    <3> HIDE DEF day
    <3> QED BY <1>2
  <2> QED BY <2>1 DEF EncodeBcdTime
<1>4. /\ DaysBeforeYear(YearOf(day)) \in Nat
      /\ DaysBeforeMonth(YearOf(day), MonthOf(day)) \in Nat
  <2>1. YearOf(day) \in Nat /\ MonthOf(day) \in 1..12 BY <1>2
  <2> HIDE DEF day
  <2>2. /\ DaysBeforeYear(YearOf(day)) \in Nat
        /\ Calendar(Leap(YearOf(day)))[MonthOf(day)] \in Nat
    BY <2>1, YearLength, MonthSteps, ZenonT(40)
  <2> QED BY <2>1, <2>2, MonthsBefore
<1> HIDE DEF b
<1>5. DecodeBcdTime(b, tz) = [valid |-> TRUE, instant |-> InstantOf(b, tz)]
  <2>1. b[2] \in 1..12 /\ b[3] \in 1..31 /\ ~(b[4] > 23) /\ ~(b[5] > 59)
    <3> HIDE DEF local, day
    <3> QED BY <1>1, <1>2, <1>3
  <2>2. b # <<0, 0, 0, 0, 0>> BY <2>1
  <2> QED BY <2>1, <2>2 DEF DecodeBcdTime
<1>6. InstantOf(b, tz) = instant
  <2>1. DateUTC(b[1], b[2], b[3], b[4], b[5]) = local
    <3> DEFINE Y == DaysBeforeYear(YearOf(day))
               M == DaysBeforeMonth(YearOf(day), MonthOf(day))
    <3>1. DateUTC(b[1], b[2], b[3], b[4], b[5])
            = 1440 * (Y + M + DayOf(day) - 1) + 60 * ((local % 1440) \div 60) + (local % 60)
      <4> HIDE DEF local, day
      <4> QED BY <1>3 DEF DateUTC
    <3>2. Y + M + DayOf(day) - 1 = day BY <1>2
    <3> QED BY <1>1, <3>1, <3>2
  <2> QED BY <2>1 DEF InstantOf
<1> QED BY <1>5, <1>6 DEF b

\* encodeLocationBasic, then decodeLocationBasic: signs, lock status and time.
LEMMA PositionRecovered ==
  ASSUME NEW fix, NEW tz \in Int,
         fix.lat \in Int, fix.lon \in Int, fix.lockStatus \in Nat, fix.instant \in Int,
         0 <= fix.instant + tz, fix.instant + tz < 1440 * DaysBeforeYear(100)
  PROVE  LET b == DecodeLocationBasic(EncodeLocationBasic(fix, tz), tz)
         IN  /\ b.positioned /\ b.lat = fix.lat /\ b.lon = fix.lon
             /\ fix.lockStatus >= 16 => b.lockStatus = fix.lockStatus
             /\ fix.lockStatus = 0 => b.lockStatus = NoStatus
             /\ b.time.valid /\ b.time.instant = fix.instant
<1> DEFINE e == EncodeLocationBasic(fix, tz)
           t == DecodeBcdTime(EncodeBcdTime(fix.instant, tz), tz)
<1>1. t.valid = TRUE /\ t.instant = fix.instant
  BY TimeRecovered, ZenonT(40)
<1>2. /\ 1 \in e.bits /\ (2 \in e.bits <=> fix.lat < 0) /\ (3 \in e.bits <=> fix.lon < 0)
      /\ e.lat = Abs(fix.lat) /\ e.lon = Abs(fix.lon) /\ e.lockStatus = fix.lockStatus
      /\ e.time = EncodeBcdTime(fix.instant, tz)
  BY DEF EncodeLocationBasic
<1> HIDE DEF e
<1> DEFINE b == DecodeLocationBasic(e, tz)
<1>3. /\ b.positioned = (1 \in e.bits)
      /\ b.lat = (IF 2 \in e.bits THEN -1 ELSE 1) * e.lat
      /\ b.lon = (IF 3 \in e.bits THEN -1 ELSE 1) * e.lon
      /\ b.lockStatus = IF e.lockStatus >= 16 THEN e.lockStatus ELSE NoStatus
      /\ b.time = t
  BY <1>2, ZenonT(40) DEF DecodeLocationBasic, DecodeStatusFlags
<1> HIDE DEF t, b
<1>4. b.lat = fix.lat
  BY <1>2, <1>3 DEF Abs
<1>5. b.lon = fix.lon
  BY <1>2, <1>3 DEF Abs
<1> QED BY <1>1, <1>2, <1>3, <1>4, <1>5, ZenonT(40) DEF b, e, NoStatus

-----------------------------------------------------------------------------
(***************************************************************************)
(* What every state of Codecs is: the message is one that its encoder built, *)
(* whole or cut, and the reading is what the decoder makes of it           *)
(***************************************************************************)

\* A report of a position, with items of which the last may be cut.
IsReport ==
  \E fix \in Fixes, tz \in Offsets \cup {0}, items \in Lists(Items), n \in Nat :
    /\ n \in 27..(28 + Len(Encoded(items)))
    /\ message = [id |-> "LOCATION_REPORT", fix |-> fix, tz |-> tz, of |-> items,
                  body |-> [basic |-> EncodeLocationBasic(fix, tz),
                            additional |-> Encoded(items), length |-> n]]

\* 0x8103, whole or cut.
IsSetParams ==
  \E items \in Lists(Params), n \in Nat :
    /\ n <= Len(EncodeSetParams(items))
    /\ message = [id |-> "SET_PARAMS", of |-> items, body |-> Cut(EncodeSetParams(items), n)]

\* The terminal's answer to a query of its parameters.
QueryResponse(items) == EncodeQueryParamsResponse(258, items)

\* 0x0104, whole or cut.
IsQueryResponse ==
  \E items \in Lists(Params), n \in Nat :
    /\ n <= Len(QueryResponse(items))
    /\ message = [id |-> "QUERY_PARAMS_RESPONSE", of |-> items,
                  body |-> Cut(QueryResponse(items), n)]

\* A business frame of any operation, lengths and tail.
IsFrame ==
  \E op \in Ops, data \in DataLengths, extra \in ExtraLengths :
    \E f \in FramesOf(op, data, extra) : message = [id |-> "PASSTHROUGH", body |-> f]

\* The messages the encoders build.
Built ==
  \/ message = << >> \/ IsReport \/ IsFrame
  \/ IsSetParams
  \/ IsQueryResponse

\* What was read is what the decoder makes of the message.
ReadingOf == reading = << >> \/ (message # << >> /\ reading = DecodeBody(message))

\* The inductive invariant of Codecs.
CodecsInv == Built /\ ReadingOf

\* The encoding of no elements.
LEMMA EncodedEmpty == Encoded(<< >>) = << >>
<1>1. [i \in DOMAIN << >> |-> << >>[i].id \o <<Len(<< >>[i].value) % 256>> \o << >>[i].value] = << >>
  OBVIOUS
<1>2. FlattenSeq(<< >>) = << >>
  BY DEF FlattenSeq
<1> QED BY <1>1, <1>2 DEF Encoded

\* It holds at first.
LEMMA CodecsInit_Inv == CodecsInit => CodecsInv
BY DEF CodecsInit, CodecsInv, Built, ReadingOf

\* Building, reading and the steps of the stream preserve it.
LEMMA CodecsNext_Inv ==
  CodecsInv /\ [CodecsNext]_<<framingVars, codecVars>> => CodecsInv'
<1> SUFFICES ASSUME CodecsInv, [CodecsNext]_<<framingVars, codecVars>> PROVE CodecsInv'
  OBVIOUS
<1>1. CASE BuildReport
  <2>1. message = << >> /\ reading = << >> /\ reading' = << >>
    <3>1. message = << >> /\ reading' = reading BY <1>1 DEF BuildReport, Fresh
    <3> QED BY <3>1 DEF CodecsInv, ReadingOf
  <2>2. CASE \E fix \in Fixes, tz \in Offsets : Report(fix, tz, << >>, << >>, 28)
    <3>1. PICK fix \in Fixes, tz \in Offsets : Report(fix, tz, << >>, << >>, 28)
      BY <2>2
    <3>2. Encoded(<< >>) = << >> /\ Len(<< >>) = 0 /\ << >> \in Lists(Items)
      <4>1. << >> \in [1..0 -> Items] /\ 0 \in 0..MaxElements
        BY CodecsAssumption
      <4> QED BY <4>1, EncodedEmpty DEF Lists
    <3>3. message' = [id |-> "LOCATION_REPORT", fix |-> fix, tz |-> tz, of |-> << >>,
                      body |-> [basic |-> EncodeLocationBasic(fix, tz),
                                additional |-> Encoded(<< >>), length |-> 28]]
      BY <3>1, <3>2 DEF Report
    <3>4. 28 \in Nat /\ 28 \in 27..(28 + Len(Encoded(<< >>))) /\ tz \in Offsets \cup {0}
      BY <3>2
    <3>5. IsReport'
      BY <3>2, <3>3, <3>4 DEF IsReport
    <3> QED BY <3>5, <2>1 DEF CodecsInv, Built, ReadingOf
  <2>3. CASE \E items \in Lists(Items) : \E n \in 27..(28 + Len(Encoded(items))) :
                Report(CHOOSE fix \in Fixes : TRUE, 0, items, Encoded(items), n)
    <3> DEFINE some == CHOOSE fix \in Fixes : TRUE
    <3>1. some \in Fixes BY CodecsAssumption
    <3>2. PICK items \in Lists(Items) : \E n \in 27..(28 + Len(Encoded(items))) :
            Report(some, 0, items, Encoded(items), n)
      BY <2>3
    <3>5. PICK n \in 27..(28 + Len(Encoded(items))) :
            Report(some, 0, items, Encoded(items), n)
      BY <3>2
    <3> HIDE DEF some
    <3>3. n \in Nat /\ 0 \in Offsets \cup {0} BY <3>5
    <3>4. IsReport'
      BY <3>1, <3>3, <3>5 DEF IsReport, Report
    <3> QED BY <3>4, <2>1 DEF CodecsInv, Built, ReadingOf
  <2> QED BY <1>1, <2>2, <2>3 DEF BuildReport
<1>2. CASE BuildParameters
  <2>1. message = << >> /\ reading' = << >>
    <3>1. message = << >> /\ reading' = reading BY <1>2 DEF BuildParameters, Fresh
    <3> QED BY <3>1 DEF CodecsInv, ReadingOf
  <2>2. PICK items \in Lists(Params) :
          \E form \in {[id |-> "SET_PARAMS", body |-> EncodeSetParams(items)],
                       [id |-> "QUERY_PARAMS_RESPONSE",
                        body |-> EncodeQueryParamsResponse(258, items)]} :
            \E n \in 0..Len(form.body) :
              message' = [id |-> form.id, of |-> items, body |-> Cut(form.body, n)]
    BY <1>2 DEF BuildParameters
  <2>3. PICK form \in {[id |-> "SET_PARAMS", body |-> EncodeSetParams(items)],
                       [id |-> "QUERY_PARAMS_RESPONSE", body |-> QueryResponse(items)]} :
            \E n \in 0..Len(form.body) :
              message' = [id |-> form.id, of |-> items, body |-> Cut(form.body, n)]
    BY <2>2 DEF QueryResponse
  <2>4. PICK n \in 0..Len(form.body) :
          message' = [id |-> form.id, of |-> items, body |-> Cut(form.body, n)]
    BY <2>3
  <2>5. n \in Nat /\ n <= Len(form.body) BY <2>4
  <2>6. CASE form = [id |-> "SET_PARAMS", body |-> EncodeSetParams(items)]
    <3>1. form.id = "SET_PARAMS" /\ form.body = EncodeSetParams(items) BY <2>6
    <3>2. IsSetParams'
      BY <2>4, <2>5, <3>1 DEF IsSetParams, IsQueryResponse
    <3> QED BY <3>2, <2>1 DEF CodecsInv, Built, ReadingOf
  <2>7. CASE form = [id |-> "QUERY_PARAMS_RESPONSE", body |-> QueryResponse(items)]
    <3>1. form.id = "QUERY_PARAMS_RESPONSE" /\ form.body = QueryResponse(items) BY <2>7
    <3>2. IsQueryResponse'
      BY <2>4, <2>5, <3>1 DEF IsSetParams, IsQueryResponse
    <3> QED BY <3>2, <2>1 DEF CodecsInv, Built, ReadingOf
  <2> QED BY <2>3, <2>6, <2>7
<1>3. CASE BuildPassthrough
  <2>1. message = << >> /\ reading' = << >>
    <3>1. message = << >> /\ reading' = reading BY <1>3 DEF BuildPassthrough, Fresh
    <3> QED BY <3>1 DEF CodecsInv, ReadingOf
  <2>2. IsFrame'
    BY <1>3 DEF BuildPassthrough, IsFrame
  <2> QED BY <2>1, <2>2 DEF CodecsInv, Built, ReadingOf
<1>4. CASE Read
  <2>1. message # << >> /\ message' = message /\ reading' = DecodeBody(message')
    BY <1>4 DEF Read
  <2>2. Built'
    BY <2>1 DEF CodecsInv, Built, IsReport, IsSetParams, IsQueryResponse, IsFrame
  <2> QED BY <2>1, <2>2 DEF CodecsInv, ReadingOf
<1>5. CASE Stream \/ UNCHANGED <<framingVars, codecVars>>
  <2>1. message' = message /\ reading' = reading
    BY <1>5 DEF Stream, codecVars
  <2> QED BY <2>1 DEF CodecsInv, Built, ReadingOf, IsReport, IsSetParams, IsQueryResponse, IsFrame
<1> QED BY <1>1, <1>2, <1>3, <1>4, <1>5 DEF CodecsNext

\* Every message was built by an encoder, and every reading is the decoder's.
THEOREM CodecsInvariant == CodecsSpec => []CodecsInv
BY CodecsInit_Inv, CodecsNext_Inv, PTL DEF CodecsSpec

\* Which messages there are of an id.
LEMMA MessageOf ==
  ASSUME CodecsInv, reading # << >>
  PROVE  /\ reading = DecodeBody(message)
         /\ message.id = "PASSTHROUGH" => IsFrame
         /\ message.id = "LOCATION_REPORT" => IsReport
         /\ message.id = "SET_PARAMS" => IsSetParams
         /\ message.id = "QUERY_PARAMS_RESPONSE" =>
              IsQueryResponse
<1>1. message # << >> /\ reading = DecodeBody(message)
  BY DEF CodecsInv, ReadingOf
<1>2. IsFrame => message.id = "PASSTHROUGH" BY DEF IsFrame
<1>3. IsReport => message.id = "LOCATION_REPORT" BY DEF IsReport
<1>4. IsSetParams => message.id = "SET_PARAMS"
  BY DEF IsSetParams, IsQueryResponse
<1>5. IsQueryResponse => message.id = "QUERY_PARAMS_RESPONSE"
  BY DEF IsSetParams, IsQueryResponse
<1> QED BY <1>1, <1>2, <1>3, <1>4, <1>5 DEF CodecsInv, Built

\* A business frame that is read, and with which data it was built.
LEMMA FrameData ==
  ASSUME CodecsInv, IsRead("PASSTHROUGH")
  PROVE  \E op \in Ops, data \in Nat \ {0}, extra \in Nat :
           \E f \in FramesOf(op, data, extra) :
             /\ message.body = f /\ reading = DecodeBusinessFrame(f)
             /\ f.op = op /\ f.data = data
<1>1. IsFrame /\ reading = DecodeBody(message) /\ message.id = "PASSTHROUGH"
  BY MessageOf DEF IsRead
<1>2. PICK op \in Ops, data \in DataLengths, extra \in ExtraLengths :
        \E f \in FramesOf(op, data, extra) : message = [id |-> "PASSTHROUGH", body |-> f]
  BY <1>1 DEF IsFrame
<1>3. PICK f \in FramesOf(op, data, extra) : message = [id |-> "PASSTHROUGH", body |-> f]
  BY <1>2
<1>4. data \in Nat \ {0} /\ extra \in Nat BY BusinessFrameAssumption
<1>5. message.body = f BY <1>3
<1>6. reading = DecodeBusinessFrame(f)
  <2>1. message.id = "PASSTHROUGH" /\ reading = DecodeBody(message) BY <1>1
  <2>2. reading = DecodeBusinessFrame(message.body) BY <2>1 DEF DecodeBody
  <2> QED BY <2>2, <1>5
<1>7. f \in FramesOf(op, data, extra) /\ f.op = op /\ f.data = data
  BY <1>4, FrameShape
<1> QED BY <1>4, <1>5, <1>6, <1>7

\* DataRecovered: with data of a known length and a known tail, what was encoded is
\* what is decoded, field by field, for any data and tail lengths there may be.
THEOREM DataIsRecovered == CodecsSpec => []DataRecovered
<1>1. ASSUME CodecsInv, IsRead("PASSTHROUGH"), KnownData(message.body),
             KnownExtra(message.body), ~Ambiguous(message.body)
      PROVE  LET f == message.body
                 layout == Layout(f.op, f.data)
             IN  /\ reading.ok /\ reading.data = f.data
                 /\ reading.gps <=> f.extra >= 28
                 /\ Cardinality(reading.modes) = 1
                 /\ \A i \in DOMAIN layout : layout[i][1] # "op" =>
                      reading.payload[layout[i][1]]
                        = <<Start(layout, i), Start(layout, i) + layout[i][2]>>
  <2>1. PICK op \in Ops, data \in Nat \ {0}, extra \in Nat :
          \E f \in FramesOf(op, data, extra) :
            /\ message.body = f /\ reading = DecodeBusinessFrame(f)
            /\ f.op = op /\ f.data = data
    BY <1>1, FrameData
  <2>2. PICK f \in FramesOf(op, data, extra) :
            /\ message.body = f /\ reading = DecodeBusinessFrame(f)
            /\ f.op = op /\ f.data = data
    BY <2>1
  <2>3. /\ DecodeBusinessFrame(f).ok = TRUE /\ DecodeBusinessFrame(f).data = data
        /\ DecodeBusinessFrame(f).gps <=> extra >= 28
        /\ Cardinality(DecodeBusinessFrame(f).modes) = 1
        /\ DecodeBusinessFrame(f).payload = DecodeBusinessData(op, data)
    <3>1. KnownData(f) /\ KnownExtra(f) /\ ~Ambiguous(f) BY <1>1, <2>2
    <3>2. f \in FramesOf(op, data, extra) /\ data \in Nat \ {0} /\ op \in Ops /\ extra \in Nat
      OBVIOUS
    <3> QED BY <3>1, <3>2, FrameRecovered, ZenonT(60)
  <2>4. f.extra = extra BY FrameShape
  <2>5. FieldsRead(op, data)
    <3>1. data \in ToSet(KNOWN_DATA_LENGTHS(op)) BY <1>1, <2>2 DEF KnownData
    <3> QED BY <3>1, FieldsOfKnown
  <2> QED BY <2>2, <2>3, <2>4, <2>5 DEF FieldsRead
<1>2. CodecsInv => DataRecovered
  BY <1>1 DEF DataRecovered
<1> QED BY <1>2, CodecsInvariant, PTL

\* NoSilentMisread: a reading that took the data for longer or shorter than it
\* was carries a warning.
THEOREM NoMisreadIsSilent == CodecsSpec => []NoSilentMisread
<1>1. ASSUME CodecsInv, IsRead("PASSTHROUGH"), reading.ok,
             reading.data # message.body.data, ~Coincides(message.body)
      PROVE  reading.warned
  <2>1. PICK op \in Ops, data \in Nat \ {0}, extra \in Nat :
          \E f \in FramesOf(op, data, extra) :
            /\ message.body = f /\ reading = DecodeBusinessFrame(f)
            /\ f.op = op /\ f.data = data
    BY <1>1, FrameData
  <2>2. PICK f \in FramesOf(op, data, extra) :
            /\ message.body = f /\ reading = DecodeBusinessFrame(f)
            /\ f.op = op /\ f.data = data
    BY <2>1
  <2>3. DecodeBusinessFrame(f).ok = TRUE
    <3>1. CASE Candidates(f) = {}
      <4>1. DecodeBusinessFrame(f) = [ok |-> FALSE] BY <3>1 DEF DecodeBusinessFrame
      <4> QED BY <4>1, <1>1, <2>2
    <3>2. CASE Candidates(f) # {}
      BY <3>2 DEF DecodeBusinessFrame
    <3> QED BY <3>1, <3>2
  <2>4. DecodeBusinessFrame(f).warned = TRUE
    BY <1>1, <2>2, <2>3, MisreadWarned
  <2> QED BY <2>2, <2>4
<1>2. CodecsInv => NoSilentMisread
  BY <1>1 DEF NoSilentMisread
<1> QED BY <1>2, CodecsInvariant, PTL

\* A report that is read, and what of it is.
LEMMA ReportData ==
  ASSUME CodecsInv, IsRead("LOCATION_REPORT"), reading.ok
  PROVE  \E fix \in Fixes, tz \in Offsets \cup {0}, items \in Lists(Items), n \in Nat :
           /\ n <= Len(Encoded(items))
           /\ message.fix = fix /\ message.of = items
           /\ message.body.length = 28 + n
           /\ reading.basic = DecodeLocationBasic(EncodeLocationBasic(fix, tz), tz)
           /\ reading.whole = Walk(SubSeq(Encoded(items), 1, n), 2).whole
           /\ reading.error = Walk(SubSeq(Encoded(items), 1, n), 2).error
           /\ reading.extras = SummariseExtras(reading.whole)
<1>1. IsReport /\ reading = DecodeBody(message) /\ message.id = "LOCATION_REPORT"
  BY MessageOf DEF IsRead
<1>2. PICK fix \in Fixes, tz \in Offsets \cup {0}, items \in Lists(Items), m \in Nat :
        /\ m \in 27..(28 + Len(Encoded(items)))
        /\ message = [id |-> "LOCATION_REPORT", fix |-> fix, tz |-> tz, of |-> items,
                      body |-> [basic |-> EncodeLocationBasic(fix, tz),
                                additional |-> Encoded(items), length |-> m]]
  BY <1>1 DEF IsReport
<1>3. /\ message.fix = fix /\ message.of = items /\ message.tz = tz
      /\ message.body.length = m /\ message.body.additional = Encoded(items)
      /\ message.body.basic = EncodeLocationBasic(fix, tz)
  BY <1>2
<1>4. reading = DecodeLocationReport(message.body, tz)
  BY <1>1, <1>3 DEF DecodeBody
<1>5. m >= 28
  <2> SUFFICES ASSUME m < 28 PROVE FALSE OBVIOUS
  <2>1. reading = Malformed BY <1>3, <1>4 DEF DecodeLocationReport
  <2> QED BY <2>1 DEF Malformed
<1> DEFINE n == m - 28
           buf == SubSeq(Encoded(items), 1, n)
           w == Walk(buf, 2)
<1>6. n \in Nat /\ n <= Len(Encoded(items)) /\ m = 28 + n
  BY <1>2, <1>5
<1>7. reading = [ok |-> TRUE, basic |-> DecodeLocationBasic(message.body.basic, tz),
                 whole |-> w.whole, error |-> w.error, extras |-> SummariseExtras(w.whole)]
  <2>1. DecodeAdditionalItems(buf)
          = [whole |-> w.whole, error |-> w.error, extras |-> SummariseExtras(w.whole)]
    BY DEF DecodeAdditionalItems
  <2>2. SubSeq(message.body.additional, 1, message.body.length - 28) = buf
    BY <1>3
  <2> HIDE DEF buf, w
  <2>3. DecodeAdditionalItems(buf).whole = w.whole /\ DecodeAdditionalItems(buf).error = w.error
        /\ DecodeAdditionalItems(buf).extras = SummariseExtras(w.whole)
    BY <2>1
  <2>4. reading = [ok |-> TRUE, basic |-> DecodeLocationBasic(message.body.basic, tz),
                   whole |-> DecodeAdditionalItems(buf).whole,
                   error |-> DecodeAdditionalItems(buf).error,
                   extras |-> DecodeAdditionalItems(buf).extras]
    <3>1. ~(message.body.length < 28) BY <1>3, <1>5, <1>6
    <3> QED BY <3>1, <1>4, <2>2 DEF DecodeLocationReport
  <2> QED BY <2>3, <2>4
<1> HIDE DEF w, n
<1>8. /\ reading.whole = w.whole /\ reading.error = w.error
      /\ reading.extras = SummariseExtras(w.whole)
      /\ reading.basic = DecodeLocationBasic(EncodeLocationBasic(fix, tz), tz)
  BY <1>3, <1>7
<1> QED BY <1>3, <1>6, <1>8 DEF w

\* FixRecovered: a position report says where and when the terminal was, in
\* every hemisphere, zone and month of the years of two digits.
THEOREM FixIsRecovered == CodecsSpec => []FixRecovered
<1>1. ASSUME CodecsInv, IsRead("LOCATION_REPORT"), reading.ok
      PROVE  LET fix == message.fix
                 b   == reading.basic
             IN  /\ b.positioned /\ b.lat = fix.lat /\ b.lon = fix.lon
                 /\ fix.lockStatus >= 16 => b.lockStatus = fix.lockStatus
                 /\ fix.lockStatus = 0 => b.lockStatus = NoStatus
                 /\ b.time.valid /\ b.time.instant = fix.instant
  <2>1. PICK fix \in Fixes, tz \in Offsets \cup {0} :
          /\ message.fix = fix
          /\ reading.basic = DecodeLocationBasic(EncodeLocationBasic(fix, tz), tz)
    BY <1>1, ReportData
  <2>2. fix \in [lat : Int, lon : Int, lockStatus : Byte, instant : Int]
    BY CodecsAssumption
  <2>3. /\ fix.lat \in Int /\ fix.lon \in Int
        /\ fix.lockStatus \in Nat /\ fix.instant \in Int
    BY <2>2 DEF Byte
  <2>4. tz \in Int BY CodecsAssumption
  <2>5. 0 <= fix.instant + tz /\ fix.instant + tz < 1440 * DaysBeforeYear(100)
    BY CodecsAssumption
  <2> QED BY <2>1, <2>3, <2>4, <2>5, PositionRecovered
<1>2. CodecsInv => FixRecovered
  BY <1>1 DEF FixRecovered
<1> QED BY <1>2, CodecsInvariant, PTL

-----------------------------------------------------------------------------
(***************************************************************************)
(* The elements of a message that was cut anywhere                         *)
(***************************************************************************)

\* The lists a message is made of are lists that Walk can read.
LEMMA ListsAreLists ==
  ASSUME NEW set, NEW h, set \subseteq Elements, h \in Nat \ {0},
         \A e \in set : Len(e.id) + 1 = h /\ Len(e.value) < 256,
         NEW items \in Lists(set)
  PROVE  IsList(items, h) /\ Len(items) \in 0..255
<1>1. PICK n \in 0..MaxElements : items \in [1..n -> set]
  BY DEF Lists
<1>2. n \in Nat /\ n \in 0..255 BY CodecsAssumption
<1>3. items \in [1..n -> Elements] /\ \A i \in 1..n : items[i] \in set BY <1>1
<1>4. items \in Seq(Elements) /\ Len(items) = n BY <1>2, <1>3, FunctionIsSeq
<1> QED BY <1>2, <1>3, <1>4 DEF IsList

\* The additional items of a report: an id of one byte.
LEMMA ItemLists ==
  ASSUME NEW items \in Lists(Items)
  PROVE  IsList(items, 2)
<1>1. Items \subseteq Elements /\ 2 \in Nat \ {0} BY CodecsAssumption
<1>2. ASSUME NEW e \in Items PROVE Len(e.id) + 1 = 2 /\ Len(e.value) < 256
  <2>1. Len(e.id) = 1 /\ Len(e.value) < 256 BY CodecsAssumption
  <2> QED BY <2>1
<1> QED BY <1>1, <1>2, ListsAreLists

\* The parameters of a terminal: an id of four bytes.
LEMMA ParamLists ==
  ASSUME NEW items \in Lists(Params)
  PROVE  IsList(items, 5) /\ Len(items) \in 0..255
<1>1. Params \subseteq Elements /\ 5 \in Nat \ {0} BY CodecsAssumption
<1>2. ASSUME NEW e \in Params PROVE Len(e.id) + 1 = 5 /\ Len(e.value) < 256
  <2>1. Len(e.id) = 4 /\ Len(e.value) < 256 BY CodecsAssumption
  <2> QED BY <2>1
<1> QED BY <1>1, <1>2, ListsAreLists

\* decodeParamList over the first n bytes of a parameter list.
LEMMA ListRead ==
  ASSUME NEW items \in Lists(Params), NEW n \in Nat, n <= Len(Encoded(items))
  PROVE  LET r == DecodeParamList(SubSeq(Encoded(items), 1, n), Len(items))
         IN  /\ r.whole = Complete(items, n)
             /\ r.error <=> r.whole # items
<1> DEFINE w == Walk(SubSeq(Encoded(items), 1, n), 5)
           r == DecodeParamList(SubSeq(Encoded(items), 1, n), Len(items))
<1>1. IsList(items, 5) /\ Len(items) \in Nat BY ParamLists
<1>2. PICK c : Holds(items, n, c) /\ Complete(items, n) = Cut(items, c)
  BY <1>1, CompleteHolds
<1>3. w.whole = Cut(items, c) /\ w.error = (n # Off(items, c))
  BY <1>1, <1>2, WalkRecovers
<1>4. r = [ok |-> TRUE, whole |-> w.whole,
           error |-> w.error \/ Len(items) # Len(w.whole)]
  BY DEF DecodeParamList
<1> HIDE DEF w
<1>5. r.whole = w.whole /\ (r.error <=> (w.error \/ Len(items) # Len(w.whole)))
  <2>1. r.whole = w.whole BY <1>4
  <2>2. r.error = (w.error \/ Len(items) # Len(w.whole)) BY <1>4
  <2> QED BY <2>1, <2>2
<1> HIDE DEF r
<1>6. c \in 0..Len(items) /\ Len(Cut(items, c)) = c
  BY <1>1, <1>2, CutList DEF Holds
<1>7. c = Len(items) => Cut(items, c) = items /\ n = Off(items, c)
  <2> SUFFICES ASSUME c = Len(items) PROVE Cut(items, c) = items /\ n = Off(items, c)
    OBVIOUS
  <2>1. Off(items, Len(items)) = Len(Encoded(items)) /\ Off(items, c) <= n /\ Encoded(items) \in Seq(Byte)
    BY <1>1, <1>2, OffStart DEF Holds
  <2>2. Len(Encoded(items)) \in Nat BY <2>1, LenProperties
  <2>3. Cut(items, c) = items
    BY <1>1, SubSeqFull DEF Cut, IsList
  <2> QED BY <2>1, <2>2, <2>3
<1>8. r.error <=> r.whole # items
  BY <1>3, <1>5, <1>6, <1>7
<1> QED BY <1>2, <1>3, <1>5, <1>8 DEF r

\* What is left of the beginning of a sequence when its own beginning is taken away.
LEMMA AfterHead ==
  ASSUME NEW p \in Seq(Byte), NEW E \in Seq(Byte), NEW n \in Nat,
         n <= Len(p \o E)
  PROVE  /\ Len(Cut(p \o E, n)) = n /\ Cut(p \o E, n) \in Seq(Byte)
         /\ Len(p) <= n =>
              /\ \A i \in 1..Len(p) : Cut(p \o E, n)[i] = p[i]
              /\ SubSeq(Cut(p \o E, n), Len(p) + 1, n) = SubSeq(E, 1, n - Len(p))
              /\ n - Len(p) \in Nat /\ n - Len(p) <= Len(E)
<1> DEFINE joined == p \o E
           cut == Cut(joined, n)
           k == Len(p)
<1>1. /\ joined \in Seq(Byte) /\ Len(joined) = k + Len(E) /\ k \in Nat /\ Len(E) \in Nat
      /\ \A i \in 1..(k + Len(E)) : joined[i] = IF i <= k THEN p[i] ELSE E[i - k]
  BY ConcatProperties, LenProperties
<1>2. n <= Len(joined) OBVIOUS
<1> HIDE DEF joined
<1>3. cut \in Seq(Byte) /\ Len(cut) = n /\ \A i \in 1..n : cut[i] = joined[i]
  <2>1. n \in 0..Len(joined) BY <1>1, <1>2
  <2> QED BY <2>1, <1>1, CutShape
<1> HIDE DEF cut, k
<1>4. ASSUME k <= n
      PROVE  /\ \A i \in 1..k : cut[i] = p[i]
             /\ SubSeq(cut, k + 1, n) = SubSeq(E, 1, n - k)
             /\ n - k \in Nat /\ n - k <= Len(E)
  <2> DEFINE m == n - k
             s == SubSeq(cut, k + 1, n)
             t == SubSeq(E, 1, m)
  <2>1. m \in Nat /\ m <= Len(E) /\ n = k + m BY <1>1, <1>2, <1>4
  <2>2. \A i \in 1..k : cut[i] = p[i] BY <1>1, <1>3, <2>1
  <2> HIDE DEF m
  <2>3. t \in Seq(Byte) /\ Len(t) = m /\ \A i \in 1..m : t[i] = E[i]
    <3>1. m \in 0..Len(E) BY <2>1
    <3> QED BY <3>1, CutShape DEF Cut
  <2>4. s \in Seq(Byte) /\ Len(s) = m /\ \A i \in 1..m : s[i] = cut[k + i]
    <3>1. \A i \in (k + 1)..n : cut[i] \in Byte
      <4>1. \A i \in (k + 1)..n : i \in 1..Len(cut) BY <1>1, <1>3
      <4> QED BY <4>1, <1>3, ElementOfSeq
    <3>2. k + 1 \in Int /\ n \in Int /\ n - (k + 1) + 1 = m BY <1>1, <2>1
    <3>3. /\ s \in Seq(Byte) /\ Len(s) = IF k + 1 <= n THEN n - (k + 1) + 1 ELSE 0
          /\ \A i \in 1..(n - (k + 1) + 1) : s[i] = cut[(k + 1) + i - 1]
      BY <3>1, <3>2, SubSeqProperties
    <3> HIDE DEF s
    <3>4. Len(s) = m BY <3>2, <3>3, <2>1, <1>1
    <3>5. \A i \in 1..m : s[i] = cut[k + i]
      <4> SUFFICES ASSUME NEW i \in 1..m PROVE s[i] = cut[k + i] OBVIOUS
      <4>1. s[i] = cut[(k + 1) + i - 1] BY <3>2, <3>3
      <4>2. (k + 1) + i - 1 = k + i BY <1>1, <2>1
      <4> QED BY <4>1, <4>2
    <3> QED BY <3>3, <3>4, <3>5
  <2> HIDE DEF s, t
  <2>5. \A i \in 1..m : s[i] = t[i]
    <3> SUFFICES ASSUME NEW i \in 1..m PROVE s[i] = t[i] OBVIOUS
    <3>1. /\ k + i \in 1..n /\ k + i \in 1..(k + Len(E)) /\ ~(k + i <= k) /\ (k + i) - k = i
      BY <1>1, <2>1
    <3>2. cut[k + i] = E[i] BY <3>1, <1>1, <1>3
    <3> QED BY <3>2, <2>3, <2>4
  <2>6. s = t BY <2>3, <2>4, <2>5, SeqEqual
  <2> QED BY <2>1, <2>2, <2>6 DEF s, t, m
<1> QED BY <1>3, <1>4 DEF cut, k, joined

\* 0x8103: its count, then the list.
LEMMA SetParamsRead ==
  ASSUME CodecsInv, IsRead("SET_PARAMS"), reading.ok
  PROVE  /\ reading.whole = Complete(message.of, Len(message.body) - 1)
         /\ reading.error <=> reading.whole # message.of
<1>1. IsSetParams /\ reading = DecodeBody(message) /\ message.id = "SET_PARAMS"
  BY MessageOf DEF IsRead
<1>2. PICK items \in Lists(Params), n \in Nat :
        /\ n <= Len(EncodeSetParams(items))
        /\ message = [id |-> "SET_PARAMS", of |-> items, body |-> Cut(EncodeSetParams(items), n)]
  BY <1>1 DEF IsSetParams
<1> DEFINE p == <<Len(items) % 256>>
           E == Encoded(items)
           body == Cut(EncodeSetParams(items), n)
<1>3. message.of = items /\ message.body = body BY <1>2
<1>4. reading = DecodeSetParams(body)
  <2>1. reading = DecodeSetParams(message.body) BY <1>1 DEF DecodeBody
  <2> QED BY <2>1, <1>3
<1>5. p \in Seq(Byte) /\ Len(p) = 1 /\ p[1] = Len(items)
  <2>1. Len(items) \in 0..255 BY ParamLists
  <2>2. Len(items) % 256 = Len(items) BY <2>1, ByteOfLength
  <2>3. Len(items) \in Byte BY <2>1 DEF Byte
  <2> QED BY <2>2, <2>3
<1>6. E \in Seq(Byte) BY ParamLists, OffStart
<1>7. EncodeSetParams(items) = p \o E BY DEF EncodeSetParams
<1> HIDE DEF p, E
<1>8. /\ Len(body) = n /\ body \in Seq(Byte)
      /\ 1 <= n => /\ body[1] = Len(items)
                   /\ SubSeq(body, 2, n) = SubSeq(E, 1, n - 1)
                   /\ n - 1 \in Nat /\ n - 1 <= Len(E)
  <2>1. /\ Len(Cut(p \o E, n)) = n /\ Cut(p \o E, n) \in Seq(Byte)
        /\ Len(p) <= n =>
              /\ \A i \in 1..Len(p) : Cut(p \o E, n)[i] = p[i]
              /\ SubSeq(Cut(p \o E, n), Len(p) + 1, n) = SubSeq(E, 1, n - Len(p))
              /\ n - Len(p) \in Nat /\ n - Len(p) <= Len(E)
    BY <1>2, <1>5, <1>6, <1>7, AfterHead
  <2>2. body = Cut(p \o E, n) BY <1>7
  <2> HIDE DEF body
  <2>3. Len(p) + 1 = 2 /\ n - Len(p) = n - 1 /\ 1 \in 1..Len(p) BY <1>5
  <2> QED BY <2>1, <2>2, <2>3, <1>5
<1> HIDE DEF body
<1>9. body # << >> /\ 1 <= n
  <2>1. body # << >>
    <3> SUFFICES ASSUME body = << >> PROVE FALSE OBVIOUS
    <3>1. reading = [ok |-> FALSE] BY <1>4 DEF DecodeSetParams, Malformed
    <3> QED BY <3>1
  <2>2. Len(body) # 0 BY <2>1, <1>8, EmptySeq
  <2> QED BY <2>1, <2>2, <1>8
<1>10. reading = DecodeParamList(SubSeq(E, 1, n - 1), Len(items))
  BY <1>4, <1>8, <1>9 DEF DecodeSetParams
<1> DEFINE m == n - 1
<1>11. m \in Nat /\ m <= Len(Encoded(items)) BY <1>8, <1>9 DEF E
<1> HIDE DEF m
<1>12. LET r == DecodeParamList(SubSeq(Encoded(items), 1, m), Len(items))
       IN  r.whole = Complete(items, m) /\ (r.error <=> r.whole # items)
  BY <1>11, ListRead
<1>13. reading.whole = Complete(items, m) /\ (reading.error <=> reading.whole # items)
  BY <1>10, <1>12 DEF m, E
<1> QED BY <1>3, <1>8, <1>13 DEF m

\* 0x0104: the serial it answers, its count, then the list.
LEMMA QueryResponseRead ==
  ASSUME CodecsInv, IsRead("QUERY_PARAMS_RESPONSE"), reading.ok
  PROVE  /\ reading.whole = Complete(message.of, Len(message.body) - 3)
         /\ reading.error <=> reading.whole # message.of
<1>1. IsQueryResponse /\ reading = DecodeBody(message) /\ message.id = "QUERY_PARAMS_RESPONSE"
  BY MessageOf DEF IsRead
<1>2. PICK items \in Lists(Params), n \in Nat :
        /\ n <= Len(QueryResponse(items))
        /\ message = [id |-> "QUERY_PARAMS_RESPONSE", of |-> items,
                      body |-> Cut(QueryResponse(items), n)]
  BY <1>1 DEF IsQueryResponse
<1> DEFINE serial == <<258 \div 256, 258 % 256>>
           count == <<Len(items) % 256>>
           p == serial \o count
           E == Encoded(items)
           body == Cut(QueryResponse(items), n)
<1>3. message.of = items /\ message.body = body BY <1>2
<1>4. reading = DecodeQueryParamsResponse(body)
  <2>1. reading = DecodeQueryParamsResponse(message.body) BY <1>1 DEF DecodeBody
  <2> QED BY <2>1, <1>3
<1>5. E \in Seq(Byte) BY ParamLists, OffStart
<1>6. serial \in Seq(Byte) /\ Len(serial) = 2
  <2>1. 258 \div 256 \in Byte /\ 258 % 256 \in Byte BY DEF Byte
  <2> QED BY <2>1
<1>7. count \in Seq(Byte) /\ Len(count) = 1 /\ count[1] = Len(items)
  <2>1. Len(items) \in 0..255 BY ParamLists
  <2>2. Len(items) % 256 = Len(items) BY <2>1, ByteOfLength
  <2>3. Len(items) \in Byte BY <2>1 DEF Byte
  <2> QED BY <2>2, <2>3
<1> HIDE DEF serial, count
<1>8. p \in Seq(Byte) /\ Len(p) = 3 /\ p[3] = Len(items)
  <2>1. /\ p \in Seq(Byte) /\ Len(p) = Len(serial) + Len(count)
        /\ \A i \in 1..(Len(serial) + Len(count)) :
             p[i] = IF i <= Len(serial) THEN serial[i] ELSE count[i - Len(serial)]
    <3>1. serial \in Seq(Byte) /\ count \in Seq(Byte) BY <1>6, <1>7
    <3> QED BY <3>1, ConcatProperties
  <2> HIDE DEF p
  <2>2. 3 \in 1..(Len(serial) + Len(count)) /\ ~(3 <= Len(serial)) /\ 3 - Len(serial) = 1
    BY <1>6, <1>7
  <2> QED BY <2>1, <2>2, <1>6, <1>7
<1>9. QueryResponse(items) = p \o E
  <2>1. QueryResponse(items) = serial \o (count \o E)
    BY DEF QueryResponse, EncodeQueryParamsResponse, EncodeSetParams, serial, count
  <2>2. serial \in Seq(Byte) /\ count \in Seq(Byte) /\ E \in Seq(Byte) BY <1>5, <1>6, <1>7
  <2>3. (serial \o count) \o E = serial \o (count \o E) BY <2>2, ConcatAssociative
  <2> QED BY <2>1, <2>3
<1> HIDE DEF p, E
<1>10. /\ Len(body) = n /\ body \in Seq(Byte)
       /\ 3 <= n => /\ body[3] = Len(items)
                    /\ SubSeq(body, 4, n) = SubSeq(E, 1, n - 3)
                    /\ n - 3 \in Nat /\ n - 3 <= Len(E)
  <2>1. /\ Len(Cut(p \o E, n)) = n /\ Cut(p \o E, n) \in Seq(Byte)
        /\ Len(p) <= n =>
              /\ \A i \in 1..Len(p) : Cut(p \o E, n)[i] = p[i]
              /\ SubSeq(Cut(p \o E, n), Len(p) + 1, n) = SubSeq(E, 1, n - Len(p))
              /\ n - Len(p) \in Nat /\ n - Len(p) <= Len(E)
    BY <1>2, <1>5, <1>8, <1>9, AfterHead
  <2>2. body = Cut(p \o E, n) BY <1>9
  <2> HIDE DEF body
  <2>3. Len(p) + 1 = 4 /\ n - Len(p) = n - 3 /\ 3 \in 1..Len(p) BY <1>8
  <2> QED BY <2>1, <2>2, <2>3, <1>8
<1> HIDE DEF body
<1>11. ~(Len(body) < 3)
  <2> SUFFICES ASSUME Len(body) < 3 PROVE FALSE OBVIOUS
  <2>1. reading = [ok |-> FALSE] BY <1>4 DEF DecodeQueryParamsResponse, Malformed
  <2> QED BY <2>1
<1>12. 3 <= n BY <1>10, <1>11
<1>13. reading = DecodeParamList(SubSeq(E, 1, n - 3), Len(items))
  BY <1>4, <1>10, <1>11, <1>12 DEF DecodeQueryParamsResponse
<1> DEFINE m == n - 3
<1>14. m \in Nat /\ m <= Len(Encoded(items)) BY <1>10, <1>12 DEF E
<1> HIDE DEF m
<1>15. LET r == DecodeParamList(SubSeq(Encoded(items), 1, m), Len(items))
       IN  r.whole = Complete(items, m) /\ (r.error <=> r.whole # items)
  BY <1>14, ListRead
<1>16. reading.whole = Complete(items, m) /\ (reading.error <=> reading.whole # items)
  BY <1>13, <1>15 DEF m, E
<1> QED BY <1>3, <1>10, <1>16 DEF m

\* 0x0200: its 28 bytes, then the items.
LEMMA ItemsRead ==
  ASSUME CodecsInv, IsRead("LOCATION_REPORT"), reading.ok
  PROVE  LET n == message.body.length - 28
             complete == Complete(message.of, n)
         IN  /\ reading.whole = complete
             /\ reading.error <=> n # Len(Encoded(complete))
<1>1. PICK fix \in Fixes, tz \in Offsets \cup {0}, items \in Lists(Items), n \in Nat :
           /\ n <= Len(Encoded(items)) /\ message.of = items /\ message.body.length = 28 + n
           /\ reading.whole = Walk(SubSeq(Encoded(items), 1, n), 2).whole
           /\ reading.error = Walk(SubSeq(Encoded(items), 1, n), 2).error
  BY ReportData
<1>2. message.body.length - 28 = n BY <1>1
<1>3. IsList(items, 2) BY ItemLists
<1>4. PICK c : Holds(items, n, c) /\ Complete(items, n) = Cut(items, c)
  BY <1>3, CompleteHolds
<1>5. /\ Walk(SubSeq(Encoded(items), 1, n), 2).whole = Cut(items, c)
      /\ Walk(SubSeq(Encoded(items), 1, n), 2).error = (n # Off(items, c))
  BY <1>1, <1>3, <1>4, WalkRecovers
<1> QED BY <1>1, <1>2, <1>4, <1>5 DEF Off

\* ElementsRecovered: of a list that is cut anywhere, the complete elements are
\* read, and an error tells of the rest.
THEOREM ElementsAreRecovered == CodecsSpec => []ElementsRecovered
<1>1. CodecsInv => ElementsRecovered
  <2>1. "QUERY_PARAMS_RESPONSE" # "SET_PARAMS" OBVIOUS
  <2>2. IsRead("SET_PARAMS") => message.id = "SET_PARAMS" BY DEF IsRead
  <2>3. IsRead("QUERY_PARAMS_RESPONSE") => message.id # "SET_PARAMS" BY <2>1 DEF IsRead
  <2> QED
    BY <2>2, <2>3, ItemsRead, SetParamsRead, QueryResponseRead DEF ElementsRecovered
<1> QED BY <1>1, CodecsInvariant, PTL

-----------------------------------------------------------------------------
(***************************************************************************)
(* Framing: delimiters and escaping                                        *)
(***************************************************************************)

\* A byte on its own.
LEMMA OneByte ==
  ASSUME NEW b \in Byte
  PROVE  <<b>> \in Seq(Byte) /\ Len(<<b>>) = 1 /\ <<b>>[1] = b
OBVIOUS

\* The delimiter, the escape and their marks are bytes.
LEMMA FlagByte == FLAG \in Byte /\ ESC \in Byte /\ 1 \in Byte /\ 2 \in Byte /\ FLAG # ESC
BY DEF FLAG, ESC, Byte

\* A delimiter on its own.
LEMMA Flags == <<FLAG>> \in Seq(Byte) /\ Len(<<FLAG>>) = 1 /\ <<FLAG>>[1] = FLAG
BY FlagByte, OneByte

\* No byte of s is a delimiter.
LEMMA UnframedBytes ==
  ASSUME NEW s \in Seq(Byte)
  PROVE  Unframed(s) <=> \A i \in 1..Len(s) : s[i] # FLAG
BY LenProperties DEF Unframed

\* A sequence that holds a delimiter, cut at the first one.
LEMMA FlagSplit ==
  ASSUME NEW s \in Seq(Byte), ~Unframed(s)
  PROVE  LET x == SubSeq(s, 1, FirstFlag(s) - 1)
         IN  /\ FirstFlag(s) \in 1..Len(s) /\ Len(s) \in Nat
             /\ x \in Seq(Byte) /\ After(s) \in Seq(Byte) /\ Unframed(x)
             /\ s = (x \o <<FLAG>>) \o After(s) /\ Len(After(s)) < Len(s)
             /\ Len(After(s)) \in Nat
<1> DEFINE flags == {i \in 1..Len(s) : s[i] = FLAG}
           i == FirstFlag(s)
<1>1. /\ Len(s) \in Nat /\ DOMAIN s = 1..Len(s) /\ \A j \in 1..Len(s) : s[j] \in Byte
  BY LenProperties, ElementOfSeq
<1>2. flags \in SUBSET Nat /\ flags # {} BY <1>1, UnframedBytes
<1>3. PICK m \in flags : \A k \in flags : m <= k
  <2> HIDE DEF flags
  <2> QED BY <1>2, Smallest
<1>4. m \in DOMAIN s /\ s[m] = FLAG /\ \A j \in 1..(m - 1) : s[j] # FLAG
  BY <1>1, <1>3
<1>5. i \in 1..Len(s) /\ s[i] = FLAG /\ \A j \in 1..(i - 1) : s[j] # FLAG
  BY <1>1, <1>4 DEF FirstFlag
<1> HIDE DEF i
<1> DEFINE x == SubSeq(s, 1, i - 1)
           y == SubSeq(s, i + 1, Len(s))
<1>6. x \in Seq(Byte) /\ Len(x) = i - 1 /\ \A j \in 1..(i - 1) : x[j] = s[j]
  <2>1. i - 1 \in 0..Len(s) BY <1>1, <1>5
  <2> QED BY <2>1, CutShape DEF Cut
<1>7. y \in Seq(Byte) /\ Len(y) \in Nat /\ Len(y) < Len(s)
  <2>1. \A j \in (i + 1)..Len(s) : s[j] \in Byte
    <3>1. \A j \in (i + 1)..Len(s) : j \in 1..Len(s) BY <1>1, <1>5
    <3> QED BY <3>1, <1>1
  <2>2. i + 1 \in Int /\ Len(s) \in Int BY <1>1, <1>5
  <2>3. /\ y \in Seq(Byte)
        /\ Len(y) = IF i + 1 <= Len(s) THEN Len(s) - (i + 1) + 1 ELSE 0
    BY <2>1, <2>2, SubSeqProperties
  <2> DEFINE l == Len(s)
             c == Len(y)
  <2>4. l \in Nat /\ i \in 1..l /\ c = IF i + 1 <= l THEN l - (i + 1) + 1 ELSE 0
    BY <2>3, <1>1, <1>5
  <2> HIDE DEF y, l, c
  <2>5. c \in Nat /\ c < l BY <2>4
  <2> QED BY <2>3, <2>5 DEF l, c
<1>8. Unframed(x)
  <2> HIDE DEF x
  <2> QED BY <1>5, <1>6, UnframedBytes
<1>9. s = (x \o <<FLAG>>) \o y
  <2>1. i \in 1..Len(s) /\ 1 \in 1..Len(s) /\ i \in 1..Len(s) BY <1>1, <1>5
  <2>2. SubSeq(s, 1, i) = SubSeq(s, 1, i - 1) \o <<s[i]>>
    <3>1. i \in 1..Len(s) /\ 1 \in 1..Len(s) BY <2>1
    <3> QED BY <3>1, SubSeqRecursiveSecond
  <2>3. SubSeq(s, 1, i) \o SubSeq(s, i + 1, Len(s)) = SubSeq(s, 1, Len(s))
    <3>1. 1 \in 1..(Len(s) + 1) /\ i \in (1 - 1)..Len(s) /\ Len(s) \in i..Len(s)
      BY <1>1, <1>5
    <3> QED BY <3>1, ConcatAdjacentSubSeq
  <2>4. SubSeq(s, 1, Len(s)) = s BY SubSeqFull
  <2> QED BY <2>2, <2>3, <2>4, <1>5
<1>10. After(s) = y BY DEF After, i
<1> HIDE DEF y
<1> QED BY <1>1, <1>5, <1>6, <1>7, <1>8, <1>9, <1>10 DEF i

\* And the other way round.
LEMMA SplitFlag ==
  ASSUME NEW x \in Seq(Byte), NEW y \in Seq(Byte), Unframed(x)
  PROVE  LET s == (x \o <<FLAG>>) \o y
         IN  /\ s \in Seq(Byte) /\ ~Unframed(s)
             /\ SubSeq(s, 1, FirstFlag(s) - 1) = x /\ After(s) = y
<1> DEFINE f == <<FLAG>>
           h == x \o f
           s == h \o y
           k == Len(x) + 1
<1>1. f \in Seq(Byte) /\ Len(f) = 1 /\ f[1] = FLAG BY Flags
<1> HIDE DEF f
<1>2. /\ Len(x) \in Nat /\ Len(y) \in Nat
      /\ h \in Seq(Byte) /\ Len(h) = k
      /\ h[k] = FLAG /\ \A i \in 1..Len(x) : h[i] = x[i]
  <2>1. Len(x) \in Nat /\ Len(y) \in Nat BY LenProperties
  <2>2. /\ h \in Seq(Byte) /\ Len(h) = Len(x) + Len(f)
        /\ \A i \in 1..(Len(x) + Len(f)) : h[i] = IF i <= Len(x) THEN x[i] ELSE f[i - Len(x)]
    BY <1>1, ConcatProperties
  <2> HIDE DEF h
  <2>3. k \in 1..(Len(x) + Len(f)) /\ ~(k <= Len(x)) /\ k - Len(x) = 1 BY <1>1, <2>1
  <2>4. h[k] = FLAG BY <1>1, <2>2, <2>3
  <2>5. \A i \in 1..Len(x) : i \in 1..(Len(x) + Len(f)) /\ i <= Len(x) BY <1>1, <2>1
  <2> QED BY <1>1, <2>1, <2>2, <2>4, <2>5
<1> HIDE DEF h
<1>3. /\ s \in Seq(Byte) /\ Len(s) = k + Len(y)
      /\ \A i \in 1..(k + Len(y)) : s[i] = IF i <= k THEN h[i] ELSE y[i - k]
  <2>1. /\ s \in Seq(Byte) /\ Len(s) = Len(h) + Len(y)
        /\ \A i \in 1..(Len(h) + Len(y)) : s[i] = IF i <= Len(h) THEN h[i] ELSE y[i - Len(h)]
    BY <1>2, ConcatProperties
  <2> HIDE DEF s
  <2> QED BY <2>1, <1>2
<1> HIDE DEF s
<1>4. k \in 1..Len(s) /\ s[k] = FLAG /\ \A i \in 1..(k - 1) : s[i] = x[i] /\ s[i] # FLAG
  <2>1. k \in 1..(k + Len(y)) /\ k <= k /\ k \in Nat BY <1>2
  <2>2. s[k] = FLAG BY <2>1, <1>2, <1>3
  <2>3. ASSUME NEW i \in 1..(k - 1) PROVE s[i] = x[i] /\ x[i] # FLAG
    <3>1. i \in 1..Len(x) /\ i \in 1..(k + Len(y)) /\ i <= k BY <1>2
    <3>2. s[i] = x[i] BY <3>1, <1>2, <1>3
    <3> QED BY <3>1, <3>2, UnframedBytes
  <2>4. \A i \in 1..(k - 1) : s[i] = x[i] /\ x[i] # FLAG BY <2>3
  <2> HIDE DEF k
  <2> QED BY <2>1, <2>2, <2>4, <1>3
<1>5. Len(s) \in Nat /\ DOMAIN s = 1..Len(s) BY <1>3, LenProperties
<1>6. ~Unframed(s) BY <1>3, <1>4, UnframedBytes
<1> HIDE DEF k
<1>7. FirstFlag(s) = k
  <2> DEFINE P(i) == i \in DOMAIN s /\ s[i] = FLAG /\ \A j \in 1..(i - 1) : s[j] # FLAG
  <2>1. P(k) BY <1>4, <1>5
  <2>2. P(FirstFlag(s)) BY <2>1 DEF FirstFlag
  <2>3. \A i, j \in 1..Len(s) : P(i) /\ P(j) => ~(i < j)
    <3> SUFFICES ASSUME NEW i \in 1..Len(s), NEW j \in 1..Len(s), P(i), P(j), i < j PROVE FALSE
      OBVIOUS
    <3>1. i \in 1..(j - 1) BY <1>5
    <3> QED BY <3>1
  <2>4. k \in 1..Len(s) /\ FirstFlag(s) \in 1..Len(s) BY <1>4, <1>5, <2>2
  <2>5. ~(k < FirstFlag(s)) /\ ~(FirstFlag(s) < k) BY <2>1, <2>2, <2>3, <2>4
  <2> QED BY <2>4, <2>5, <1>5
<1>8. k \in Nat /\ k - 1 = Len(x) /\ k - 1 \in 0..Len(s) BY <1>2, <1>3 DEF k
<1>9. SubSeq(s, 1, k - 1) = x
  <2> DEFINE t == SubSeq(s, 1, k - 1)
  <2>1. t \in Seq(Byte) /\ Len(t) = k - 1 /\ \A i \in 1..(k - 1) : t[i] = s[i]
    BY <1>3, <1>8, CutShape DEF Cut
  <2> HIDE DEF t
  <2>2. \A i \in 1..Len(t) : t[i] = x[i] BY <2>1, <1>4
  <2>3. t = x BY <2>1, <2>2, <1>8, SeqEqual
  <2> QED BY <2>3 DEF t
<1>10. SubSeq(s, k + 1, Len(s)) = y
  <2> DEFINE t == SubSeq(s, k + 1, Len(s))
  <2>1. \A j \in (k + 1)..Len(s) : s[j] \in Byte
    <3>1. \A j \in (k + 1)..Len(s) : j \in 1..Len(s) BY <1>5, <1>8
    <3> QED BY <3>1, <1>3, ElementOfSeq
  <2>2. k + 1 \in Int /\ Len(s) \in Int BY <1>5, <1>8
  <2>3. /\ t \in Seq(Byte)
        /\ Len(t) = IF k + 1 <= Len(s) THEN Len(s) - (k + 1) + 1 ELSE 0
        /\ \A i \in 1..(Len(s) - (k + 1) + 1) : t[i] = s[(k + 1) + i - 1]
    BY <2>1, <2>2, SubSeqProperties
  <2> HIDE DEF t
  <2>4. Len(t) = Len(y) /\ Len(s) - (k + 1) + 1 = Len(y)
    BY <2>3, <1>2, <1>3, <1>8
  <2>5. \A i \in 1..Len(t) : t[i] = y[i]
    <3> SUFFICES ASSUME NEW i \in 1..Len(y) PROVE t[i] = y[i] BY <2>4
    <3>1. t[i] = s[(k + 1) + i - 1] BY <2>3, <2>4
    <3> DEFINE m == Len(y)
    <3>a. m \in Nat /\ i \in 1..m /\ k \in Nat BY <1>2, <1>8
    <3> HIDE DEF m
    <3>b. (k + 1) + i - 1 = k + i /\ k + i \in 1..(k + m) /\ ~(k + i <= k) /\ (k + i) - k = i
      BY <3>a
    <3>2. (k + 1) + i - 1 = k + i /\ k + i \in 1..(k + Len(y)) /\ ~(k + i <= k) /\ (k + i) - k = i
      BY <3>b DEF m
    <3> QED BY <3>1, <3>2, <1>3
  <2>6. t = y BY <2>3, <2>4, <2>5, SeqEqual
  <2> QED BY <2>6 DEF t
<1>11. After(s) = y BY <1>7, <1>10 DEF After
<1> QED BY <1>3, <1>6, <1>7, <1>9, <1>11 DEF s, h, f

\* Nor of two such sequences together.
LEMMA UnframedConcat ==
  ASSUME NEW x \in Seq(Byte), NEW y \in Seq(Byte), Unframed(x), Unframed(y)
  PROVE  Unframed(x \o y)
<1>1. /\ x \o y \in Seq(Byte) /\ Len(x \o y) = Len(x) + Len(y)
      /\ \A i \in 1..(Len(x) + Len(y)) : (x \o y)[i] = IF i <= Len(x) THEN x[i] ELSE y[i - Len(x)]
  BY ConcatProperties
<1>2. Len(x) \in Nat /\ Len(y) \in Nat BY LenProperties
<1>3. ASSUME NEW i \in 1..(Len(x) + Len(y)) PROVE (x \o y)[i] # FLAG
  <2>1. CASE i <= Len(x)
    <3>1. i \in 1..Len(x) BY <2>1, <1>2
    <3> QED BY <3>1, <2>1, <1>1, UnframedBytes
  <2>2. CASE ~(i <= Len(x))
    <3>1. i - Len(x) \in 1..Len(y) BY <2>2, <1>2
    <3> QED BY <3>1, <2>2, <1>1, UnframedBytes
  <2> QED BY <2>1, <2>2
<1> QED BY <1>1, <1>3, UnframedBytes

\* d starts with an escape pair.
Escaped(d) == Len(d) > 1 /\ d[1] = ESC /\ d[2] \in {1, 2}

\* The byte that the start of d stands for.
Meant(d) == IF Escaped(d) THEN (IF d[2] = 2 THEN FLAG ELSE ESC) ELSE d[1]

\* escape writes no such start.
Allowed(d) == Escaped(d) \/ d[1] \notin {ESC, FLAG}

\* What follows the start of d.
Rest(d) == SubSeq(d, IF Escaped(d) THEN 3 ELSE 2, Len(d))

\* What Unescape may return.
Unescaped == [ok : BOOLEAN, data : Seq(Byte)]

\* What follows is shorter.
LEMMA RestShape ==
  ASSUME NEW d \in Seq(Byte), d # << >>
  PROVE  /\ Rest(d) \in Seq(Byte) /\ Len(Rest(d)) \in Nat /\ Len(d) \in Nat
         /\ Len(Rest(d)) < Len(d) /\ Meant(d) \in Byte /\ Allowed(d) \in BOOLEAN
<1> DEFINE k == IF Escaped(d) THEN 3 ELSE 2
           l == Len(d)
           r == SubSeq(d, k, l)
<1>1. l \in Nat \ {0} /\ \A j \in 1..l : d[j] \in Byte
  BY LenProperties, EmptySeq, ElementOfSeq
<1>2. k \in {2, 3} OBVIOUS
<1>3. d[1] \in Byte BY <1>1
<1>4. Meant(d) \in Byte BY <1>3, FlagByte DEF Meant
<1>5. Allowed(d) \in BOOLEAN BY DEF Allowed, Escaped
<1>6. r = Rest(d) BY DEF Rest
<1> HIDE DEF k, l
<1>7. r \in Seq(Byte) /\ Len(r) = IF k <= l THEN l - k + 1 ELSE 0
  <2>1. k \in Int /\ l \in Int BY <1>1, <1>2
  <2>2. \A j \in k..l : d[j] \in Byte
    <3>1. \A j \in k..l : j \in 1..l BY <1>1, <1>2
    <3> QED BY <3>1, <1>1
  <2> QED BY <2>1, <2>2, SubSeqProperties
<1> HIDE DEF r
<1>8. Len(r) \in Nat /\ Len(r) < l
  <2> DEFINE m == Len(r)
  <2>1. m = IF k <= l THEN l - k + 1 ELSE 0 BY <1>7
  <2> HIDE DEF m
  <2>2. m \in Nat /\ m < l BY <2>1, <1>1, <1>2
  <2> QED BY <2>2 DEF m
<1> QED BY <1>1, <1>4, <1>5, <1>6, <1>7, <1>8 DEF l

\* A byte before a sequence.
LEMMA OneMore ==
  ASSUME NEW b \in Byte, NEW s \in Seq(Byte)
  PROVE  /\ <<b>> \o s \in Seq(Byte) /\ Len(<<b>> \o s) = 1 + Len(s)
         /\ Len(s) \in Nat /\ (<<b>> \o s)[1] = b
         /\ \A i \in 1..Len(s) : (<<b>> \o s)[1 + i] = s[i]
<1> DEFINE f == <<b>>
<1>1. f \in Seq(Byte) /\ Len(f) = 1 /\ f[1] = b BY OneByte
<1> HIDE DEF f
<1>2. /\ f \o s \in Seq(Byte) /\ Len(f \o s) = Len(f) + Len(s)
      /\ \A i \in 1..(Len(f) + Len(s)) : (f \o s)[i] = IF i <= Len(f) THEN f[i] ELSE s[i - Len(f)]
  BY <1>1, ConcatProperties
<1>3. Len(s) \in Nat BY LenProperties
<1> DEFINE g == f \o s
<1>4. g \in Seq(Byte) /\ Len(g) = 1 + Len(s) /\ 
      \A i \in 1..(1 + Len(s)) : g[i] = IF i <= 1 THEN f[i] ELSE s[i - 1]
  BY <1>1, <1>2
<1> HIDE DEF g
<1>5. 1 \in 1..(1 + Len(s)) /\ 1 <= 1 BY <1>3
<1>6. g[1] = b BY <1>4, <1>5, <1>1
<1>7. \A i \in 1..Len(s) : g[1 + i] = s[i]
  <2> SUFFICES ASSUME NEW i \in 1..Len(s) PROVE g[1 + i] = s[i] OBVIOUS
  <2>1. 1 + i \in 1..(1 + Len(s)) /\ ~(1 + i <= 1) /\ (1 + i) - 1 = i BY <1>3
  <2> QED BY <2>1, <1>4
<1> QED BY <1>3, <1>4, <1>6, <1>7 DEF g, f

\* unescape takes one byte or pair and goes on with the rest.
LEMMA UnescapeEquation ==
  \A d \in Seq(Byte) :
    /\ Unescape[d] \in Unescaped
    /\ Unescape[d] = IF d = << >> THEN [ok |-> TRUE, data |-> << >>]
                     ELSE [ok |-> Unescape[Rest(d)].ok /\ Allowed(d),
                           data |-> <<Meant(d)>> \o Unescape[Rest(d)].data]
<1> DEFINE D == Seq(Byte)
           V == Unescaped
           empty == [ok |-> TRUE, data |-> << >>]
           more(d, r) == [ok |-> r.ok /\ Allowed(d), data |-> <<Meant(d)>> \o r.data]
           R(g) == [data \in Seq(Byte) |->
                     IF data = << >> THEN [ok |-> TRUE, data |-> << >>]
                     ELSE LET pair == Len(data) > 1 /\ data[1] = ESC /\ data[2] \in {1, 2}
                              rest == g[SubSeq(data, IF pair THEN 3 ELSE 2, Len(data))]
                              byte == IF pair THEN (IF data[2] = 2 THEN FLAG ELSE ESC) ELSE data[1]
                          IN  [ok |-> rest.ok /\ (pair \/ data[1] \notin {ESC, FLAG}),
                               data |-> <<byte>> \o rest.data]]
           rank == [d \in D |-> Len(d)]
           final == {d \in D : d = << >>}
           next == [d \in D |-> IF d = << >> THEN d ELSE Rest(d)]
           base == [d \in D |-> empty]
           comb == [x \in D \X V |-> IF x[1] = << >> THEN empty ELSE more(x[1], x[2])]
<1>1. empty \in V /\ << >> \in D BY EmptySeq DEF Unescaped
<1>2. \A d \in D, r \in V : d # << >> => more(d, r) \in V
  <2> SUFFICES ASSUME NEW d \in D, NEW r \in V, d # << >> PROVE more(d, r) \in V
    OBVIOUS
  <2>1. r.ok \in BOOLEAN /\ r.data \in Seq(Byte) BY DEF Unescaped
  <2>2. <<Meant(d)>> \o r.data \in Seq(Byte) BY <2>1, RestShape, OneMore
  <2>3. (r.ok /\ Allowed(d)) \in BOOLEAN OBVIOUS
  <2> QED BY <2>2, <2>3 DEF Unescaped
<1>3. \A g : \A d \in D : R(g)[d] = IF d = << >> THEN empty ELSE more(d, g[Rest(d)])
  BY DEF Rest, Escaped, Meant, Allowed
<1>4. IsRecursion(D, V, rank, final, next, base, comb)
  <2>1. rank \in [D -> Nat] BY LenProperties
  <2>2. final \in SUBSET D /\ base \in [D -> V] BY <1>1
  <2>3. next \in [D -> D] /\ \A d \in D : d \notin final => rank[next[d]] < rank[d]
    BY RestShape
  <2>4. comb \in [D \X V -> V]
    <3> HIDE DEF more, empty, V, D
    <3> QED BY <1>1, <1>2
  <2> HIDE DEF comb, rank, final, base, next, D, V
  <2> QED BY <2>1, <2>2, <2>3, <2>4 DEF IsRecursion
<1>5. PICK g \in [D -> V] :
        \A d \in D : g[d] = IF d \in final THEN base[d] ELSE comb[<<d, g[next[d]]>>]
  <2> HIDE DEF D, V, rank, final, next, base, comb
  <2> QED BY <1>4, Recursion
<1>6. ASSUME NEW d \in D PROVE g[d] = IF d = << >> THEN empty ELSE more(d, g[Rest(d)])
  <2>1. CASE d = << >>
    <3>1. d \in final /\ base[d] = empty BY <2>1
    <3> HIDE DEF final, base, comb, next, D, V, empty, more
    <3> QED BY <3>1, <2>1, <1>5
  <2>2. CASE d # << >>
    <3>1. d \notin final /\ next[d] = Rest(d) /\ Rest(d) \in D BY <2>2, RestShape
    <3>2. g[Rest(d)] \in V
      <4> HIDE DEF D, V
      <4> QED BY <3>1
    <3>3. comb[<<d, g[Rest(d)]>>] = more(d, g[Rest(d)])
      <4> HIDE DEF D, V, more, empty
      <4> QED BY <3>2, <2>2
    <3> HIDE DEF final, base, comb, next, D, V, empty, more
    <3> QED BY <3>1, <3>3, <2>2, <1>5
  <2> QED BY <2>1, <2>2
<1>7. g = R(g)
  <2>1. g = [d \in D |-> g[d]] OBVIOUS
  <2>2. R(g) = [d \in D |-> R(g)[d]] OBVIOUS
  <2>3. \A d \in D : g[d] = R(g)[d]
    <3> HIDE DEF R, D, V, empty, more
    <3> QED BY <1>6, <1>3
  <2> HIDE DEF R, D, V
  <2> QED BY <2>1, <2>2, <2>3
<1> DEFINE u == CHOOSE f : f = R(f)
<1>8. u = R(u)
  <2> HIDE DEF R
  <2> QED BY <1>7
<1>9. Unescape = u BY DEF Unescape
<1> HIDE DEF u
<1>10. \A d \in D : u[d] = IF d = << >> THEN empty ELSE more(d, u[Rest(d)])
  <2> HIDE DEF R, D, empty, more
  <2> QED BY <1>3, <1>8
<1> DEFINE T == {n \in Nat : \A d \in D : Len(d) = n => u[d] \in V}
<1>11. ASSUME NEW n \in Nat, \A k \in Nat : k < n => k \in T PROVE n \in T
  <2> SUFFICES ASSUME NEW d \in D, Len(d) = n PROVE u[d] \in V
    OBVIOUS
  <2> HIDE DEF V, empty, more, R
  <2>1. CASE d = << >> BY <2>1, <1>1, <1>10
  <2>2. CASE d # << >>
    <3>1. Rest(d) \in D /\ Len(Rest(d)) \in Nat /\ Len(Rest(d)) < n BY <2>2, RestShape
    <3>2. u[Rest(d)] \in V BY <3>1, <1>11
    <3> QED BY <3>2, <2>2, <1>2, <1>10
  <2> QED BY <2>1, <2>2
<1>12. Nat \subseteq T
  <2> HIDE DEF T
  <2> QED BY <1>11, Induction
<1>13. \A d \in D : u[d] \in V
  <2>1. \A d \in D : Len(d) \in Nat BY LenProperties
  <2> HIDE DEF V, D, R
  <2> QED BY <1>12, <2>1
<1> HIDE DEF R
<1> QED BY <1>9, <1>10, <1>13

\* A sequence is its first k elements and the others.
LEMMA TakeDrop ==
  ASSUME NEW S, NEW s \in Seq(S), NEW k \in 0..Len(s)
  PROVE  /\ SubSeq(s, 1, k) \in Seq(S) /\ Len(SubSeq(s, 1, k)) = k
         /\ \A i \in 1..k : SubSeq(s, 1, k)[i] = s[i]
         /\ SubSeq(s, k + 1, Len(s)) \in Seq(S)
         /\ Len(SubSeq(s, k + 1, Len(s))) = Len(s) - k
         /\ s = SubSeq(s, 1, k) \o SubSeq(s, k + 1, Len(s))
<1>1. /\ SubSeq(s, 1, k) \in Seq(S) /\ Len(SubSeq(s, 1, k)) = k
      /\ \A i \in 1..k : SubSeq(s, 1, k)[i] = s[i]
  BY CutShape DEF Cut
<1> DEFINE l == Len(s)
           y == SubSeq(s, k + 1, l)
<1>2. l \in Nat /\ k \in Int /\ k + 1 \in Int /\ \A j \in 1..l : s[j] \in S BY LenProperties, ElementOfSeq
<1>3. y \in Seq(S) /\ Len(y) = IF k + 1 <= l THEN l - (k + 1) + 1 ELSE 0
  <2>1. \A j \in (k + 1)..l : s[j] \in S
    <3>1. \A j \in (k + 1)..l : j \in 1..l BY <1>2
    <3> QED BY <3>1, <1>2
  <2> HIDE DEF l
  <2> QED BY <1>2, <2>1, SubSeqProperties
<1>4. Len(y) = l - k
  <2> DEFINE c == Len(y)
  <2>1. c = IF k + 1 <= l THEN l - (k + 1) + 1 ELSE 0 BY <1>3
  <2>2. k \in 0..l /\ l \in Nat BY <1>2
  <2> HIDE DEF c, l
  <2>3. c = l - k BY <2>1, <2>2
  <2> QED BY <2>3 DEF c
<1>5. SubSeq(s, 1, k) \o y = SubSeq(s, 1, l)
  <2>1. 1 \in 1..(Len(s) + 1) /\ k \in (1 - 1)..Len(s) /\ Len(s) \in k..Len(s) BY <1>2
  <2> QED BY <2>1, ConcatAdjacentSubSeq
<1>6. SubSeq(s, 1, l) = s BY SubSeqFull
<1> QED BY <1>1, <1>3, <1>4, <1>5, <1>6

\* The halves of a concatenation.
LEMMA DropConcat ==
  ASSUME NEW S, NEW x \in Seq(S), NEW y \in Seq(S)
  PROVE  /\ SubSeq(x \o y, 1, Len(x)) = x
         /\ SubSeq(x \o y, Len(x) + 1, Len(x \o y)) = y
<1> DEFINE s == x \o y
           a == SubSeq(s, 1, Len(x))
           b == SubSeq(s, Len(x) + 1, Len(s))
<1>1. /\ s \in Seq(S) /\ Len(s) = Len(x) + Len(y) /\ Len(x) \in Nat /\ Len(y) \in Nat
      /\ \A i \in 1..(Len(x) + Len(y)) : s[i] = IF i <= Len(x) THEN x[i] ELSE y[i - Len(x)]
  BY ConcatProperties, LenProperties
<1>7. s = x \o y OBVIOUS
<1> HIDE DEF s
<1>2. Len(x) \in 0..Len(s) BY <1>1
<1>3. /\ a \in Seq(S) /\ Len(a) = Len(x) /\ b \in Seq(S)
      /\ \A i \in 1..Len(x) : a[i] = s[i]
      /\ s = a \o b
  BY <1>1, <1>2, TakeDrop
<1> HIDE DEF a, b
<1>4. \A i \in 1..Len(a) : a[i] = x[i]
  <2>1. \A i \in 1..Len(x) : i \in 1..(Len(x) + Len(y)) /\ i <= Len(x) BY <1>1
  <2> QED BY <1>1, <1>3, <2>1
<1>5. a = x BY <1>3, <1>4, SeqEqual
<1>6. b = y
  <2>1. x \o b = x \o y BY <1>3, <1>5, <1>7
  <2>2. \A u, v, w \in Seq(S) : u \o v = u \o w => v = w BY ConcatSimplifications
  <2> QED BY <2>1, <2>2, <1>3
<1> QED BY <1>5, <1>6 DEF s, a, b

\* A byte is escaped to one or two, none of them a delimiter.
LEMMA EscapeByteShape ==
  ASSUME NEW b \in Byte
  PROVE  /\ EscapeByte(b) \in Seq(Byte)
         /\ b \in {FLAG, ESC} => /\ EscapeByte(b) = <<ESC, IF b = FLAG THEN 2 ELSE 1>>
                                 /\ Len(EscapeByte(b)) = 2
         /\ b \notin {FLAG, ESC} => EscapeByte(b) = <<b>> /\ Len(EscapeByte(b)) = 1
         /\ Unframed(EscapeByte(b))
<1>1. CASE b = FLAG
  <2>1. EscapeByte(b) = <<ESC, 2>> BY <1>1, FlagByte DEF EscapeByte
  <2>2. <<ESC, 2>> \in Seq(Byte) /\ Len(<<ESC, 2>>) = 2 BY FlagByte
  <2>3. Unframed(<<ESC, 2>>) BY DEF Unframed, ESC, FLAG
  <2> QED BY <1>1, <2>1, <2>2, <2>3
<1>2. CASE b = ESC
  <2>1. b # FLAG BY <1>2, FlagByte
  <2>2. EscapeByte(b) = <<ESC, 1>> BY <1>2, <2>1 DEF EscapeByte
  <2>3. <<ESC, 1>> \in Seq(Byte) /\ Len(<<ESC, 1>>) = 2 BY FlagByte
  <2>4. Unframed(<<ESC, 1>>) BY DEF Unframed, ESC, FLAG
  <2> QED BY <1>2, <2>1, <2>2, <2>3, <2>4
<1>3. CASE b # FLAG /\ b # ESC
  <2>1. EscapeByte(b) = <<b>> BY <1>3 DEF EscapeByte
  <2>2. <<b>> \in Seq(Byte) /\ Len(<<b>>) = 1 BY OneByte
  <2>3. Unframed(<<b>>) BY <1>3 DEF Unframed
  <2> QED BY <1>3, <2>1, <2>2, <2>3
<1> QED BY <1>1, <1>2, <1>3

\* What follows an escaped byte does not change how it is read.
LEMMA EscapedIsRead ==
  ASSUME NEW b \in Byte, NEW s \in Seq(Byte)
  PROVE  LET d == EscapeByte(b) \o s
         IN  /\ d \in Seq(Byte) /\ d # << >> /\ Allowed(d) /\ Meant(d) = b /\ Rest(d) = s
<1> DEFINE e == EscapeByte(b)
           d == e \o s
<1>1. /\ e \in Seq(Byte)
      /\ b \in {FLAG, ESC} => e = <<ESC, IF b = FLAG THEN 2 ELSE 1>> /\ Len(e) = 2
      /\ b \notin {FLAG, ESC} => e = <<b>> /\ Len(e) = 1
  BY EscapeByteShape
<1> HIDE DEF e
<1>2. /\ d \in Seq(Byte) /\ Len(d) = Len(e) + Len(s) /\ Len(s) \in Nat
      /\ \A i \in 1..(Len(e) + Len(s)) : d[i] = IF i <= Len(e) THEN e[i] ELSE s[i - Len(e)]
      /\ SubSeq(d, Len(e) + 1, Len(d)) = s
  BY <1>1, ConcatProperties, DropConcat, LenProperties
<1> HIDE DEF d
<1>3. CASE b \in {FLAG, ESC}
  <2>1. Len(d) > 1 /\ d[1] = e[1] /\ d[2] = e[2]
    <3>1. 1 \in 1..(2 + Len(s)) /\ 2 \in 1..(2 + Len(s)) /\ 2 + Len(s) > 1 BY <1>2
    <3>2. Len(e) = 2 BY <1>1, <1>3
    <3> QED BY <1>2, <3>1, <3>2
  <2>2. d[1] = ESC /\ d[2] = IF b = FLAG THEN 2 ELSE 1 BY <1>1, <1>3, <2>1
  <2>3. Escaped(d) BY <2>1, <2>2 DEF Escaped
  <2>4. Allowed(d) BY <2>3 DEF Allowed
  <2>5. Meant(d) = b BY <2>2, <2>3, <1>3 DEF Meant
  <2>6. Rest(d) = s
    <3>a. Len(e) = 2 BY <1>1, <1>3
    <3>1. Len(e) + 1 = 3 BY <3>a
    <3> QED BY <3>1, <1>2, <2>3 DEF Rest
  <2>7. d # << >> BY <1>2, <2>1, EmptySeq
  <2> QED BY <1>2, <2>4, <2>5, <2>6, <2>7 DEF d, e
<1>4. CASE b \notin {FLAG, ESC}
  <2>1. Len(d) >= 1 /\ d[1] = e[1]
    <3>1. 1 \in 1..(1 + Len(s)) /\ 1 + Len(s) >= 1 BY <1>2
    <3>2. Len(e) = 1 BY <1>1, <1>4
    <3> QED BY <1>2, <3>1, <3>2
  <2>2. d[1] = b BY <1>1, <1>4, <2>1
  <2>3. ~Escaped(d) BY <1>4, <2>2 DEF Escaped
  <2>4. Allowed(d) BY <2>2, <1>4 DEF Allowed
  <2>5. Meant(d) = b BY <2>2, <2>3 DEF Meant
  <2>6. Rest(d) = s
    <3>a. Len(e) = 1 BY <1>1, <1>4
    <3>1. Len(e) + 1 = 2 BY <3>a
    <3> QED BY <3>1, <1>2, <2>3 DEF Rest
  <2>7. d # << >> BY <1>2, <2>1, EmptySeq
  <2> QED BY <1>2, <2>4, <2>5, <2>6, <2>7 DEF d, e
<1> QED BY <1>3, <1>4

\* And what is read was written that way.
LEMMA ReadIsEscaped ==
  ASSUME NEW d \in Seq(Byte), d # << >>, Allowed(d)
  PROVE  d = EscapeByte(Meant(d)) \o Rest(d)
<1>1. Len(d) \in Nat /\ Len(d) > 0 /\ \A i \in 1..Len(d) : d[i] \in Byte
  BY LenProperties, EmptySeq, ElementOfSeq
<1>2. CASE Escaped(d)
  <2>1. Len(d) > 1 /\ d[1] = ESC /\ d[2] \in {1, 2} BY <1>2 DEF Escaped
  <2>2. EscapeByte(Meant(d)) = <<ESC, d[2]>>
    <3>1. Meant(d) = IF d[2] = 2 THEN FLAG ELSE ESC BY <1>2 DEF Meant
    <3> QED BY <2>1, <3>1, FlagByte DEF EscapeByte
  <2>3. 2 \in 0..Len(d) BY <1>1, <2>1
  <2>4. /\ SubSeq(d, 1, 2) \in Seq(Byte) /\ Len(SubSeq(d, 1, 2)) = 2
        /\ \A i \in 1..2 : SubSeq(d, 1, 2)[i] = d[i]
        /\ d = SubSeq(d, 1, 2) \o SubSeq(d, 2 + 1, Len(d))
    BY <2>3, TakeDrop
  <2>5. SubSeq(d, 1, 2) = <<ESC, d[2]>>
    <3> DEFINE t == SubSeq(d, 1, 2)
    <3>1. t \in Seq(Byte) /\ Len(t) = 2 /\ t[1] = d[1] /\ t[2] = d[2] BY <2>4
    <3>2. <<ESC, d[2]>> \in Seq(Byte) /\ Len(<<ESC, d[2]>>) = 2 BY <2>1, FlagByte
    <3> HIDE DEF t
    <3>3. \A i \in 1..Len(t) : t[i] = <<ESC, d[2]>>[i] BY <3>1, <2>1
    <3>4. t = <<ESC, d[2]>> BY <3>1, <3>2, <3>3, SeqEqual
    <3> QED BY <3>4 DEF t
  <2>6. Rest(d) = SubSeq(d, 2 + 1, Len(d)) BY <1>2 DEF Rest
  <2> QED BY <2>2, <2>4, <2>5, <2>6
<1>3. CASE ~Escaped(d)
  <2>1. d[1] \notin {ESC, FLAG} BY <1>3 DEF Allowed
  <2>2. EscapeByte(Meant(d)) = <<d[1]>>
    <3>1. Meant(d) = d[1] BY <1>3 DEF Meant
    <3> QED BY <2>1, <3>1 DEF EscapeByte
  <2>3. 1 \in 0..Len(d) /\ 1 \in 1..Len(d) BY <1>1
  <2>4. /\ SubSeq(d, 1, 1) \in Seq(Byte) /\ Len(SubSeq(d, 1, 1)) = 1
        /\ \A i \in 1..1 : SubSeq(d, 1, 1)[i] = d[i]
        /\ d = SubSeq(d, 1, 1) \o SubSeq(d, 1 + 1, Len(d))
    BY <2>3, TakeDrop
  <2>5. SubSeq(d, 1, 1) = <<d[1]>>
    <3> DEFINE t == SubSeq(d, 1, 1)
    <3>1. t \in Seq(Byte) /\ Len(t) = 1 /\ t[1] = d[1] BY <2>4
    <3>2. <<d[1]>> \in Seq(Byte) /\ Len(<<d[1]>>) = 1 /\ <<d[1]>>[1] = d[1] BY <1>1, <2>3, OneByte
    <3> HIDE DEF t
    <3>3. \A i \in 1..Len(t) : t[i] = <<d[1]>>[i] BY <3>1, <3>2
    <3>4. t = <<d[1]>> BY <3>1, <3>2, <3>3, SeqEqual
    <3> QED BY <3>4 DEF t
  <2>6. Rest(d) = SubSeq(d, 1 + 1, Len(d)) BY <1>3 DEF Rest
  <2> QED BY <2>2, <2>4, <2>5, <2>6
<1> QED BY <1>2, <1>3

\* The first byte of a sequence, and the rest.
LEMMA FirstAndRest ==
  ASSUME NEW p \in Seq(Byte), p # << >>
  PROVE  \E b \in Byte, q \in Seq(Byte) : p = <<b>> \o q /\ Len(q) \in Nat /\ Len(q) < Len(p)
<1>1. Len(p) \in Nat /\ Len(p) > 0 /\ \A i \in 1..Len(p) : p[i] \in Byte
  BY LenProperties, EmptySeq, ElementOfSeq
<1> DEFINE q == SubSeq(p, 1 + 1, Len(p))
           t == SubSeq(p, 1, 1)
<1>2. /\ t \in Seq(Byte) /\ Len(t) = 1 /\ t[1] = p[1]
      /\ q \in Seq(Byte) /\ Len(q) = Len(p) - 1 /\ p = t \o q
  <2>1. 1 \in 0..Len(p) /\ 1 \in 1..1 BY <1>1
  <2> QED BY <2>1, TakeDrop
<1> HIDE DEF t, q
<1>3. 1 \in 1..Len(p) BY <1>1
<1>4. <<p[1]>> \in Seq(Byte) /\ Len(<<p[1]>>) = 1 /\ <<p[1]>>[1] = p[1] BY <1>1, <1>3, OneByte
<1>5. \A i \in 1..Len(t) : t[i] = <<p[1]>>[i] BY <1>2, <1>4
<1>6. t = <<p[1]>> BY <1>2, <1>4, <1>5, SeqEqual
<1>7. Len(p) - 1 \in Nat /\ Len(p) - 1 < Len(p) BY <1>1
<1> QED BY <1>1, <1>2, <1>3, <1>6, <1>7

\* The bytes of p, each escaped.
EscapedBytes(p) == [i \in DOMAIN p |-> EscapeByte(p[i])]

\* Escape concatenates them.
LEMMA EscapedBytesShape ==
  ASSUME NEW p \in Seq(Byte)
  PROVE  /\ EscapedBytes(p) \in Seq(Seq(Byte)) /\ Len(EscapedBytes(p)) = Len(p)
         /\ \A i \in 1..Len(p) : EscapedBytes(p)[i] = EscapeByte(p[i])
         /\ Escape(p) = FlattenSeq(EscapedBytes(p))
<1>1. /\ DOMAIN p = 1..Len(p) /\ Len(p) \in Nat /\ \A i \in 1..Len(p) : p[i] \in Byte
  BY LenProperties, ElementOfSeq
<1>2. EscapedBytes(p) \in [1..Len(p) -> Seq(Byte)]
  BY <1>1, EscapeByteShape DEF EscapedBytes
<1>3. \A i \in 1..Len(p) : EscapedBytes(p)[i] = EscapeByte(p[i]) BY <1>1 DEF EscapedBytes
<1>4. Escape(p) = FlattenSeq(EscapedBytes(p)) BY DEF Escape, EscapedBytes
<1> HIDE DEF EscapedBytes
<1> QED BY <1>1, <1>2, <1>3, <1>4, FunctionIsSeq

\* escape, byte by byte.
LEMMA EscapeConcat ==
  ASSUME NEW b \in Byte, NEW q \in Seq(Byte)
  PROVE  /\ Escape(q) \in Seq(Byte)
         /\ Escape(<<b>> \o q) = EscapeByte(b) \o Escape(q)
<1> DEFINE p == <<b>> \o q
           e == EscapeByte(b)
           s == EscapedBytes(q)
           t == <<e>>
<1>1. p \in Seq(Byte) /\ Len(p) = 1 + Len(q) /\ Len(q) \in Nat /\ p[1] = b
      /\ \A i \in 1..Len(q) : p[1 + i] = q[i]
  BY OneMore
<1>2. e \in Seq(Byte) BY EscapeByteShape
<1>3. /\ s \in Seq(Seq(Byte)) /\ Len(s) = Len(q) /\ Escape(q) = FlattenSeq(s)
      /\ \A i \in 1..Len(q) : s[i] = EscapeByte(q[i])
  BY EscapedBytesShape
<1>4. t \in Seq(Seq(Byte)) /\ Len(t) = 1 /\ t[1] = e BY <1>2
<1>5. FlattenSeq(t) = e BY <1>2, FlattenOne
<1>6. p = <<b>> \o q OBVIOUS
<1> HIDE DEF p, s, t
<1>7. EscapedBytes(p) = t \o s
  <2>1. /\ EscapedBytes(p) \in Seq(Seq(Byte)) /\ Len(EscapedBytes(p)) = Len(p)
        /\ \A i \in 1..Len(p) : EscapedBytes(p)[i] = EscapeByte(p[i])
    BY <1>1, EscapedBytesShape
  <2>2. /\ t \o s \in Seq(Seq(Byte)) /\ Len(t \o s) = 1 + Len(q)
        /\ \A i \in 1..(1 + Len(q)) : (t \o s)[i] = IF i <= 1 THEN t[i] ELSE s[i - 1]
    <3>1. /\ t \o s \in Seq(Seq(Byte)) /\ Len(t \o s) = Len(t) + Len(s)
          /\ \A i \in 1..(Len(t) + Len(s)) : (t \o s)[i] = IF i <= Len(t) THEN t[i] ELSE s[i - Len(t)]
      <4>1. t \in Seq(Seq(Byte)) /\ s \in Seq(Seq(Byte)) BY <1>3, <1>4
      <4> QED BY <4>1, ConcatProperties
    <3> QED BY <3>1, <1>3, <1>4
  <2> DEFINE u == EscapedBytes(p)
             v == t \o s
  <2> HIDE DEF u, v
  <2>3. \A i \in 1..Len(u) : u[i] = v[i]
    <3> SUFFICES ASSUME NEW i \in 1..(1 + Len(q)) PROVE u[i] = v[i]
      BY <1>1, <2>1 DEF u
    <3>1. u[i] = EscapeByte(p[i]) BY <1>1, <2>1 DEF u
    <3>2. v[i] = IF i <= 1 THEN t[i] ELSE s[i - 1] BY <2>2 DEF v
    <3>3. CASE i = 1 BY <3>1, <3>2, <3>3, <1>1, <1>4
    <3>4. CASE i # 1
      <4>1. i - 1 \in 1..Len(q) /\ ~(i <= 1) /\ 1 + (i - 1) = i BY <3>4, <1>1
      <4> QED BY <3>1, <3>2, <4>1, <1>1, <1>3
    <3> QED BY <3>3, <3>4
  <2>4. u = v BY <2>1, <2>2, <2>3, <1>1, SeqEqual DEF u, v
  <2> QED BY <2>4 DEF u, v
<1>8. Escape(p) = FlattenSeq(t \o s) BY <1>1, <1>7, EscapedBytesShape
<1>9. FlattenSeq(t \o s) = FlattenSeq(t) \o FlattenSeq(s) BY <1>3, <1>4, FlattenConcat
<1>10. FlattenSeq(s) \in Seq(Byte) BY <1>3, FlattenType
<1> QED BY <1>3, <1>5, <1>6, <1>8, <1>9, <1>10

\* escape of nothing.
LEMMA EscapeEmpty == Escape(<< >>) = << >>
<1>1. << >> \in Seq(Byte) /\ Len(<< >>) = 0 BY EmptySeq
<1>2. EscapedBytes(<< >>) \in Seq(Seq(Byte)) /\ Len(EscapedBytes(<< >>)) = 0
      /\ Escape(<< >>) = FlattenSeq(EscapedBytes(<< >>))
  BY <1>1, EscapedBytesShape
<1>3. EscapedBytes(<< >>) = << >>
  <2> HIDE DEF EscapedBytes
  <2> QED BY <1>2, EmptySeq
<1> QED BY <1>2, <1>3, FlattenEmpty

\* The equation, field by field.
LEMMA UnescapeStep ==
  ASSUME NEW d \in Seq(Byte), d # << >>
  PROVE  /\ Unescape[d].ok = (Unescape[Rest(d)].ok /\ Allowed(d))
         /\ Unescape[d].data = <<Meant(d)>> \o Unescape[Rest(d)].data
<1> DEFINE a == Unescape[Rest(d)].ok /\ Allowed(d)
           c == <<Meant(d)>> \o Unescape[Rest(d)].data
<1>1. Unescape[d] = [ok |-> a, data |-> c] BY UnescapeEquation
<1> HIDE DEF a, c
<1>2. Unescape[d].ok = a /\ Unescape[d].data = c BY <1>1
<1> QED BY <1>2 DEF a, c

\* escape, then unescape.
LEMMA UnescapeEscape ==
  ASSUME NEW p \in Seq(Byte)
  PROVE  /\ Escape(p) \in Seq(Byte) /\ Unframed(Escape(p))
         /\ Unescape[Escape(p)].ok /\ Unescape[Escape(p)].data = p
<1> DEFINE Good(x) == /\ Escape(x) \in Seq(Byte) /\ Unframed(Escape(x))
                      /\ Unescape[Escape(x)].ok /\ Unescape[Escape(x)].data = x
           T == {n \in Nat : \A x \in Seq(Byte) : Len(x) = n => Good(x)}
<1>1. ASSUME NEW n \in Nat, \A k \in Nat : k < n => k \in T PROVE n \in T
  <2> SUFFICES ASSUME NEW x \in Seq(Byte), Len(x) = n PROVE Good(x)
    OBVIOUS
  <2>1. CASE x = << >>
    <3>1. Escape(x) = << >> /\ << >> \in Seq(Byte) BY <2>1, EscapeEmpty, EmptySeq
    <3>2. Unescape[<< >>] = [ok |-> TRUE, data |-> << >>] BY <3>1, UnescapeEquation
    <3>3. Unframed(<< >>) BY DEF Unframed
    <3>4. Unescape[<< >>].ok /\ Unescape[<< >>].data = << >> BY <3>2
    <3> QED BY <2>1, <3>1, <3>3, <3>4
  <2>2. CASE x # << >>
    <3>1. PICK b \in Byte, q \in Seq(Byte) : x = <<b>> \o q /\ Len(q) \in Nat /\ Len(q) < Len(x)
      BY <2>2, FirstAndRest
    <3>2. Good(q)
      <4> HIDE DEF Good
      <4> QED BY <3>1, <1>1
    <3>3. Escape(x) = EscapeByte(b) \o Escape(q) BY <3>1, EscapeConcat
    <3> DEFINE d == Escape(x)
    <3>4. d \in Seq(Byte) /\ d # << >> /\ Allowed(d) /\ Meant(d) = b /\ Rest(d) = Escape(q)
      BY <3>2, <3>3, EscapedIsRead
    <3>5. Unframed(d)
      <4>1. EscapeByte(b) \in Seq(Byte) /\ Unframed(EscapeByte(b)) BY EscapeByteShape
      <4> QED BY <4>1, <3>2, <3>3, UnframedConcat
    <3> HIDE DEF d
    <3>6. /\ Unescape[d].ok = (Unescape[Rest(d)].ok /\ Allowed(d))
          /\ Unescape[d].data = <<Meant(d)>> \o Unescape[Rest(d)].data
      BY <3>4, UnescapeStep
    <3>7. Unescape[d].ok
      <4>1. Unescape[d].ok = (Unescape[Rest(d)].ok /\ Allowed(d)) BY <3>6
      <4>2. Unescape[Rest(d)].ok BY <3>2, <3>4
      <4> QED BY <4>1, <4>2, <3>4
    <3>8. Unescape[d].data = x BY <3>1, <3>2, <3>4, <3>6
    <3> QED BY <3>4, <3>5, <3>7, <3>8 DEF d
  <2> QED BY <2>1, <2>2
<1>2. Nat \subseteq T
  <2> HIDE DEF T
  <2> QED BY <1>1, Induction
<1>3. Len(p) \in Nat BY LenProperties
<1> HIDE DEF Good
<1>4. Good(p) BY <1>2, <1>3
<1> QED BY <1>4 DEF Good

\* unescape accepts nothing but what escape writes.
LEMMA EscapeUnescape ==
  ASSUME NEW p \in Seq(Byte), Unescape[p].ok
  PROVE  p = Escape(Unescape[p].data)
<1> DEFINE Good(x) == Unescape[x].ok => x = Escape(Unescape[x].data)
           T == {n \in Nat : \A x \in Seq(Byte) : Len(x) = n => Good(x)}
<1>1. ASSUME NEW n \in Nat, \A k \in Nat : k < n => k \in T PROVE n \in T
  <2> SUFFICES ASSUME NEW x \in Seq(Byte), Len(x) = n, Unescape[x].ok
               PROVE  x = Escape(Unescape[x].data)
    OBVIOUS
  <2>1. CASE x = << >>
    <3>1. Unescape[<< >>] = [ok |-> TRUE, data |-> << >>] BY <2>1, UnescapeEquation
    <3> QED BY <2>1, <3>1, EscapeEmpty
  <2>2. CASE x # << >>
    <3>1. /\ Unescape[x].ok = (Unescape[Rest(x)].ok /\ Allowed(x))
          /\ Unescape[x].data = <<Meant(x)>> \o Unescape[Rest(x)].data
      BY <2>2, UnescapeStep
    <3>2. /\ Rest(x) \in Seq(Byte) /\ Len(Rest(x)) \in Nat /\ Len(Rest(x)) < Len(x)
          /\ Meant(x) \in Byte
      BY <2>2, RestShape
    <3>3. Unescape[Rest(x)].ok /\ Allowed(x)
      <4>1. Unescape[x].ok = (Unescape[Rest(x)].ok /\ Allowed(x)) BY <3>1
      <4> QED BY <4>1
    <3>4. Rest(x) = Escape(Unescape[Rest(x)].data)
      <4>1. Good(Rest(x))
        <5> HIDE DEF Good
        <5> QED BY <3>2, <1>1
      <4> QED BY <4>1, <3>3
    <3>5. Unescape[Rest(x)].data \in Seq(Byte)
      <4>1. Unescape[Rest(x)] \in Unescaped BY <3>2, UnescapeEquation
      <4> QED BY <4>1 DEF Unescaped
    <3>6. Escape(<<Meant(x)>> \o Unescape[Rest(x)].data)
            = EscapeByte(Meant(x)) \o Escape(Unescape[Rest(x)].data)
      BY <3>2, <3>5, EscapeConcat
    <3>7. x = EscapeByte(Meant(x)) \o Rest(x) BY <2>2, <3>3, ReadIsEscaped
    <3>8. Unescape[x].data = <<Meant(x)>> \o Unescape[Rest(x)].data BY <3>1
    <3> QED BY <3>4, <3>6, <3>7, <3>8
  <2> QED BY <2>1, <2>2
<1>2. Nat \subseteq T
  <2> HIDE DEF T
  <2> QED BY <1>1, Induction
<1>3. Len(p) \in Nat BY LenProperties
<1> HIDE DEF Good
<1>4. Good(p) BY <1>2, <1>3
<1> QED BY <1>4 DEF Good

\* What is decoded is a packet or nothing.
LEMMA DecodedShape ==
  ASSUME NEW x \in Seq(Byte)
  PROVE  /\ Decoded(x) \in Seq(Packets)
         /\ Len(x) > MaxFrameLength => Decoded(x) = << >>
         /\ x = << >> => Decoded(x) = << >>
<1> DEFINE u == Unescape[x]
<1>1. Decoded(x) = IF u.ok /\ u.data \in Packets THEN <<u.data>> ELSE << >>
  BY DEF Decoded
<1>2. \A p \in Packets : p # << >> /\ Len(Escape(p)) <= MaxFrameLength BY FramingAssumption
<1>3. u.ok => x = Escape(u.data) BY EscapeUnescape
<1>4. x = << >> => u.data = << >>
  <2>1. x = << >> => u = [ok |-> TRUE, data |-> << >>] BY UnescapeEquation
  <2> QED BY <2>1
<1>5. Decoded(x) \in Seq(Packets)
  <2>1. << >> \in Seq(Packets) BY EmptySeq
  <2>2. \A p \in Packets : <<p>> \in Seq(Packets) OBVIOUS
  <2> HIDE DEF u
  <2> QED BY <1>1, <2>1, <2>2
<1>6. Len(x) > MaxFrameLength => ~(u.ok /\ u.data \in Packets)
  <2> HIDE DEF u
  <2> SUFFICES ASSUME u.ok, u.data \in Packets, Len(x) > MaxFrameLength PROVE FALSE OBVIOUS
  <2>1. Len(x) <= MaxFrameLength BY <1>2, <1>3
  <2>2. Len(x) \in Nat /\ MaxFrameLength \in Nat BY LenProperties, FramingAssumption
  <2> QED BY <2>1, <2>2
<1>7. x = << >> => ~(u.ok /\ u.data \in Packets) BY <1>2, <1>4
<1> HIDE DEF u
<1> QED BY <1>1, <1>5, <1>6, <1>7

\* A packet, escaped, has no delimiter, is not too long, and decodes to itself.
LEMMA PacketIsDecoded ==
  ASSUME NEW p \in Packets
  PROVE  /\ Escape(p) \in Seq(Byte) /\ Unframed(Escape(p)) /\ Decoded(Escape(p)) = <<p>>
<1>1. p \in Seq(Byte) BY FramingAssumption
<1> QED BY <1>1, UnescapeEscape DEF Decoded

\* What Frames may return.
Cutting == [buffer : Seq(Byte), packets : Seq(Packets)]

\* The loop of push cuts at the first delimiter and goes on behind it.
LEMMA FramesEquation ==
  \A s \in Seq(Byte) :
    /\ Frames[s] \in Cutting
    /\ Frames[s] = IF Unframed(s) THEN [buffer |-> s, packets |-> << >>]
                   ELSE [buffer |-> Frames[After(s)].buffer,
                         packets |-> Decoded(SubSeq(s, 1, FirstFlag(s) - 1))
                                       \o Frames[After(s)].packets]
<1> DEFINE D == Seq(Byte)
           V == Cutting
           end(d) == [buffer |-> d, packets |-> << >>]
           more(d, r) == [buffer |-> r.buffer,
                          packets |-> Decoded(SubSeq(d, 1, FirstFlag(d) - 1)) \o r.packets]
           R(g) == [bytes \in Seq(Byte) |->
                     IF Unframed(bytes) THEN [buffer |-> bytes, packets |-> << >>]
                     ELSE LET rest == g[After(bytes)]
                          IN  [buffer |-> rest.buffer,
                               packets |-> Decoded(SubSeq(bytes, 1, FirstFlag(bytes) - 1))
                                             \o rest.packets]]
           rank == [d \in D |-> Len(d)]
           final == {d \in D : Unframed(d)}
           next == [d \in D |-> IF Unframed(d) THEN d ELSE After(d)]
           base == [d \in D |-> end(d)]
           comb == [x \in D \X V |-> IF Unframed(x[1]) THEN end(x[1]) ELSE more(x[1], x[2])]
<1>1. \A d \in D : end(d) \in V BY EmptySeq DEF Cutting
<1>2. \A d \in D, r \in V : ~Unframed(d) => more(d, r) \in V
  <2> SUFFICES ASSUME NEW d \in D, NEW r \in V, ~Unframed(d) PROVE more(d, r) \in V
    OBVIOUS
  <2>1. r.buffer \in Seq(Byte) /\ r.packets \in Seq(Packets) BY DEF Cutting
  <2>2. SubSeq(d, 1, FirstFlag(d) - 1) \in Seq(Byte) BY FlagSplit
  <2>3. Decoded(SubSeq(d, 1, FirstFlag(d) - 1)) \in Seq(Packets) BY <2>2, DecodedShape
  <2>4. Decoded(SubSeq(d, 1, FirstFlag(d) - 1)) \o r.packets \in Seq(Packets)
    BY <2>1, <2>3, ConcatProperties
  <2> QED BY <2>1, <2>4 DEF Cutting
<1>3. \A g : \A d \in D : R(g)[d] = IF Unframed(d) THEN end(d) ELSE more(d, g[After(d)])
  OBVIOUS
<1>4. IsRecursion(D, V, rank, final, next, base, comb)
  <2>1. rank \in [D -> Nat] BY LenProperties
  <2>2. final \in SUBSET D /\ base \in [D -> V]
    <3> HIDE DEF end, V, D
    <3> QED BY <1>1
  <2>3. next \in [D -> D] /\ \A d \in D : d \notin final => rank[next[d]] < rank[d]
    BY FlagSplit
  <2>4. comb \in [D \X V -> V]
    <3> HIDE DEF more, end, V, D
    <3> QED BY <1>1, <1>2
  <2> HIDE DEF comb, rank, final, base, next, D, V
  <2> QED BY <2>1, <2>2, <2>3, <2>4 DEF IsRecursion
<1>5. PICK g \in [D -> V] :
        \A d \in D : g[d] = IF d \in final THEN base[d] ELSE comb[<<d, g[next[d]]>>]
  <2> HIDE DEF D, V, rank, final, next, base, comb
  <2> QED BY <1>4, Recursion
<1>6. ASSUME NEW d \in D PROVE g[d] = IF Unframed(d) THEN end(d) ELSE more(d, g[After(d)])
  <2>1. CASE Unframed(d)
    <3>1. d \in final /\ base[d] = end(d)
      <4> HIDE DEF D, end
      <4> QED BY <2>1
    <3> HIDE DEF final, base, comb, next, D, V, end, more
    <3> QED BY <3>1, <2>1, <1>5
  <2>2. CASE ~Unframed(d)
    <3>1. d \notin final /\ next[d] = After(d) /\ After(d) \in D BY <2>2, FlagSplit
    <3>2. g[After(d)] \in V
      <4> HIDE DEF D, V
      <4> QED BY <3>1
    <3>3. comb[<<d, g[After(d)]>>] = more(d, g[After(d)])
      <4> HIDE DEF D, V, more, end
      <4> QED BY <3>2, <2>2
    <3> HIDE DEF final, base, comb, next, D, V, end, more
    <3> QED BY <3>1, <3>3, <2>2, <1>5
  <2> QED BY <2>1, <2>2
<1>7. g = R(g)
  <2>1. g = [d \in D |-> g[d]] OBVIOUS
  <2>2. R(g) = [d \in D |-> R(g)[d]] OBVIOUS
  <2>3. \A d \in D : g[d] = R(g)[d]
    <3> HIDE DEF R, D, V, end, more
    <3> QED BY <1>6, <1>3
  <2> HIDE DEF R, D, V
  <2> QED BY <2>1, <2>2, <2>3
<1> DEFINE u == CHOOSE f : f = R(f)
<1>8. u = R(u)
  <2> HIDE DEF R
  <2> QED BY <1>7
<1>9. Frames = u BY DEF Frames
<1> HIDE DEF u
<1>10. \A d \in D : u[d] = IF Unframed(d) THEN end(d) ELSE more(d, u[After(d)])
  <2> HIDE DEF R, D, end, more
  <2> QED BY <1>3, <1>8
<1> DEFINE T == {n \in Nat : \A d \in D : Len(d) = n => u[d] \in V}
<1>11. ASSUME NEW n \in Nat, \A k \in Nat : k < n => k \in T PROVE n \in T
  <2> SUFFICES ASSUME NEW d \in D, Len(d) = n PROVE u[d] \in V
    OBVIOUS
  <2> HIDE DEF V, end, more, R
  <2>1. CASE Unframed(d) BY <2>1, <1>1, <1>10
  <2>2. CASE ~Unframed(d)
    <3>1. After(d) \in D /\ Len(After(d)) \in Nat /\ Len(After(d)) < n BY <2>2, FlagSplit
    <3>2. u[After(d)] \in V BY <3>1, <1>11
    <3> QED BY <3>2, <2>2, <1>2, <1>10
  <2> QED BY <2>1, <2>2
<1>12. Nat \subseteq T
  <2> HIDE DEF T
  <2> QED BY <1>11, Induction
<1>13. \A d \in D : u[d] \in V
  <2>1. \A d \in D : Len(d) \in Nat BY LenProperties
  <2> HIDE DEF V, D, R
  <2> QED BY <1>12, <2>1
<1> HIDE DEF R
<1> QED BY <1>9, <1>10, <1>13

-----------------------------------------------------------------------------
(***************************************************************************)
(* Framing: a receiver that is given the bytes in any chunks ends up as one that *)
(* is given them at once (ScanConcat), also when it gives up a buffer that is too *)
(* long (DroppedBuffer)                                                    *)
(***************************************************************************)

\* What is left of s in the buffer of a receiver in step.
BufferOf(s) == Frames[s].buffer

\* The packets that it cuts out of s.
PacketsOf(s) == Frames[s].packets

\* Packets one after the other.
LEMMA PacketsAssociative ==
  ASSUME NEW d \in Seq(Packets), NEW e \in Seq(Packets), NEW f \in Seq(Packets)
  PROVE  d \o (e \o f) = (d \o e) \o f
BY ConcatAssociative

\* No delimiter: everything stays in the buffer.
LEMMA FramesUnframed ==
  ASSUME NEW x \in Seq(Byte), Unframed(x)
  PROVE  BufferOf(x) = x /\ PacketsOf(x) = << >>
<1>1. Frames[x] = [buffer |-> x, packets |-> << >>] BY FramesEquation
<1> QED BY <1>1 DEF BufferOf, PacketsOf

\* What precedes a delimiter is decoded.
LEMMA FramesFlag ==
  ASSUME NEW x \in Seq(Byte), NEW y \in Seq(Byte), Unframed(x),
         NEW s, s = (x \o <<FLAG>>) \o y
  PROVE  /\ BufferOf(s) = BufferOf(y)
         /\ PacketsOf(s) = Decoded(x) \o PacketsOf(y)
         /\ ~Unframed(s) /\ After(s) = y
<1>1. /\ s \in Seq(Byte) /\ ~Unframed(s)
      /\ SubSeq(s, 1, FirstFlag(s) - 1) = x /\ After(s) = y
  BY SplitFlag
<1>2. Frames[s] = [buffer |-> BufferOf(After(s)),
                   packets |-> Decoded(SubSeq(s, 1, FirstFlag(s) - 1)) \o PacketsOf(After(s))]
  BY <1>1, FramesEquation DEF BufferOf, PacketsOf
<1> DEFINE a == BufferOf(y)
           c == Decoded(x) \o PacketsOf(y)
<1>3. Frames[s] = [buffer |-> a, packets |-> c] BY <1>1, <1>2
<1> HIDE DEF a, c
<1>4. BufferOf(s) = a /\ PacketsOf(s) = c BY <1>3 DEF BufferOf, PacketsOf
<1> QED BY <1>1, <1>4 DEF a, c

\* What the two are.
LEMMA FramesShape ==
  ASSUME NEW x \in Seq(Byte)
  PROVE  BufferOf(x) \in Seq(Byte) /\ PacketsOf(x) \in Seq(Packets)
<1>1. Frames[x] \in Cutting BY FramesEquation
<1> QED BY <1>1 DEF Cutting, BufferOf, PacketsOf

\* x holds a delimiter: what precedes the first one, and what follows it.
LEMMA Delimited ==
  ASSUME NEW x \in Seq(Byte), ~Unframed(x)
  PROVE  \E u, z \in Seq(Byte) :
           /\ Unframed(u) /\ x = (u \o <<FLAG>>) \o z /\ After(x) = z
           /\ Len(z) \in Nat /\ Len(z) < Len(x)
<1> DEFINE u == SubSeq(x, 1, FirstFlag(x) - 1)
           z == After(x)
<1>1. /\ u \in Seq(Byte) /\ z \in Seq(Byte) /\ Unframed(u) /\ x = (u \o <<FLAG>>) \o z
      /\ After(x) = z /\ Len(z) \in Nat /\ Len(z) < Len(x)
  BY FlagSplit
<1> HIDE DEF u, z
<1> QED BY <1>1

\* The same bytes in other brackets.
LEMMA Reassociated ==
  ASSUME NEW u \in Seq(Byte), NEW z \in Seq(Byte), NEW y \in Seq(Byte)
  PROVE  /\ ((u \o <<FLAG>>) \o z) \o y = (u \o <<FLAG>>) \o (z \o y)
         /\ z \o y \in Seq(Byte)
<1> DEFINE w == u \o <<FLAG>>
<1>1. w \in Seq(Byte) BY Flags, ConcatProperties
<1> HIDE DEF w
<1>2. (w \o z) \o y = w \o (z \o y) /\ z \o y \in Seq(Byte) BY <1>1, ConcatAssociative, ConcatProperties
<1> QED BY <1>2 DEF w

\* push may be called with any division of the bytes.
LEMMA FramesConcat ==
  ASSUME NEW x \in Seq(Byte), NEW y \in Seq(Byte)
  PROVE  LET b == BufferOf(x)
         IN  /\ b \in Seq(Byte) /\ Unframed(b)
             /\ BufferOf(x \o y) = BufferOf(b \o y)
             /\ PacketsOf(x \o y) = PacketsOf(x) \o PacketsOf(b \o y)
<1> DEFINE Good(v) ==
             /\ BufferOf(v) \in Seq(Byte) /\ Unframed(BufferOf(v))
             /\ BufferOf(v \o y) = BufferOf(BufferOf(v) \o y)
             /\ PacketsOf(v \o y)
                  = PacketsOf(v) \o PacketsOf(BufferOf(v) \o y)
           T == {n \in Nat : \A v \in Seq(Byte) : Len(v) = n => Good(v)}
<1>1. ASSUME NEW n \in Nat, \A k \in Nat : k < n => k \in T PROVE n \in T
  <2> SUFFICES ASSUME NEW v \in Seq(Byte), Len(v) = n PROVE Good(v)
    OBVIOUS
  <2>1. CASE Unframed(v)
    <3>1. BufferOf(v) = v /\ PacketsOf(v) = << >> BY <2>1, FramesUnframed
    <3>2. v \o y \in Seq(Byte) BY ConcatProperties
    <3>3. PacketsOf(v \o y) \in Seq(Packets) BY <3>2, FramesShape
    <3>4. << >> \o PacketsOf(v \o y) = PacketsOf(v \o y) BY <3>3, ConcatEmptySeq
    <3> QED BY <2>1, <3>1, <3>4
  <2>2. CASE ~Unframed(v)
    <3>1. PICK u, z \in Seq(Byte) :
             /\ Unframed(u) /\ v = (u \o <<FLAG>>) \o z
             /\ Len(z) \in Nat /\ Len(z) < Len(v)
      BY <2>2, Delimited
    <3>2. Good(z)
      <4> HIDE DEF Good
      <4> QED BY <3>1, <1>1
    <3> DEFINE b == BufferOf(z)
    <3>3. BufferOf(v) = b /\ PacketsOf(v) = Decoded(u) \o PacketsOf(z)
      BY <3>1, FramesFlag
    <3>4. v \o y = (u \o <<FLAG>>) \o (z \o y) /\ z \o y \in Seq(Byte)
      BY <3>1, Reassociated
    <3>5. /\ BufferOf(v \o y) = BufferOf(z \o y)
          /\ PacketsOf(v \o y) = Decoded(u) \o PacketsOf(z \o y)
      <4> DEFINE w == z \o y
                 t == v \o y
      <4>1. w \in Seq(Byte) /\ t = (u \o <<FLAG>>) \o w /\ Unframed(u) BY <3>1, <3>4
      <4> HIDE DEF w, t
      <4>2. BufferOf(t) = BufferOf(w) /\ PacketsOf(t) = Decoded(u) \o PacketsOf(w)
        BY <4>1, FramesFlag
      <4> QED BY <4>2 DEF w, t
    <3>6. b \in Seq(Byte) /\ b \o y \in Seq(Byte) BY <3>2, ConcatProperties
    <3>7. /\ Decoded(u) \in Seq(Packets) /\ PacketsOf(z) \in Seq(Packets)
          /\ PacketsOf(b \o y) \in Seq(Packets)
      BY <3>6, DecodedShape, FramesShape
    <3>8. Decoded(u) \o (PacketsOf(z) \o PacketsOf(b \o y))
            = (Decoded(u) \o PacketsOf(z)) \o PacketsOf(b \o y)
      <4> DEFINE d == Decoded(u)
                 e == PacketsOf(z)
                 f == PacketsOf(b \o y)
      <4>1. d \in Seq(Packets) /\ e \in Seq(Packets) /\ f \in Seq(Packets) BY <3>7
      <4> HIDE DEF d, e, f
      <4>2. d \o (e \o f) = (d \o e) \o f BY <4>1, PacketsAssociative
      <4> QED BY <4>2 DEF d, e, f
    <3>9. /\ BufferOf(z \o y) = BufferOf(b \o y)
          /\ PacketsOf(z \o y) = PacketsOf(z) \o PacketsOf(b \o y)
          /\ Unframed(b)
      BY <3>2
    <3> HIDE DEF b
    <3>10. /\ BufferOf(v \o y) = BufferOf(b \o y)
           /\ PacketsOf(v \o y) = PacketsOf(v) \o PacketsOf(b \o y)
      BY <3>3, <3>5, <3>8, <3>9
    <3> QED BY <3>3, <3>6, <3>9, <3>10
  <2> QED BY <2>1, <2>2
<1>2. Nat \subseteq T
  <2> HIDE DEF T
  <2> QED BY <1>1, Induction
<1>3. Len(x) \in Nat BY LenProperties
<1> HIDE DEF Good
<1>4. Good(x) BY <1>2, <1>3
<1> QED BY <1>4 DEF Good

\* Scan, in step and before the first delimiter.
LEMMA ScanFields ==
  ASSUME NEW x \in Seq(Byte)
  PROVE  /\ Scan(x, TRUE).buffer = BufferOf(x)
         /\ Scan(x, TRUE).packets = PacketsOf(x)
         /\ Scan(x, TRUE).synced = TRUE
         /\ Unframed(x) => /\ Scan(x, FALSE).buffer = x
                           /\ Scan(x, FALSE).packets = << >>
                           /\ Scan(x, FALSE).synced = FALSE
         /\ ~Unframed(x) => /\ Scan(x, FALSE).buffer = BufferOf(After(x))
                            /\ Scan(x, FALSE).packets = PacketsOf(After(x))
                            /\ Scan(x, FALSE).synced = TRUE
BY DEF Scan, BufferOf, PacketsOf

\* What Scan returns.
LEMMA ScanShape ==
  ASSUME NEW x \in Seq(Byte), NEW s \in BOOLEAN
  PROVE  /\ Scan(x, s).buffer \in Seq(Byte) /\ Unframed(Scan(x, s).buffer)
         /\ Scan(x, s).synced \in BOOLEAN /\ Scan(x, s).packets \in Seq(Packets)
<1>1. \A y \in Seq(Byte) : /\ BufferOf(y) \in Seq(Byte) /\ Unframed(BufferOf(y))
                           /\ PacketsOf(y) \in Seq(Packets)
  BY EmptySeq, FramesConcat, FramesShape
<1>2. << >> \in Seq(Packets) BY EmptySeq
<1>3. ~Unframed(x) => After(x) \in Seq(Byte) BY FlagSplit
<1>4. CASE s = TRUE BY <1>1, <1>4, ScanFields
<1>5. CASE s = FALSE /\ Unframed(x) BY <1>2, <1>5, ScanFields
<1>6. CASE s = FALSE /\ ~Unframed(x) BY <1>1, <1>3, <1>6, ScanFields
<1> QED BY <1>4, <1>5, <1>6

\* Scanning x and then y is scanning both at once: push may be called with any
\* division of the bytes.
LEMMA ScanConcat ==
  ASSUME NEW x \in Seq(Byte), NEW y \in Seq(Byte), NEW s \in BOOLEAN
  PROVE  LET d == Scan(x, s)
             e == Scan(d.buffer \o y, d.synced)
         IN  /\ Scan(x \o y, s).buffer = e.buffer
             /\ Scan(x \o y, s).synced = e.synced
             /\ Scan(x \o y, s).packets = d.packets \o e.packets
<1>0. x \o y \in Seq(Byte) BY ConcatProperties
<1>1. CASE s = TRUE
  <2> DEFINE b == BufferOf(x)
  <2>1. /\ b \in Seq(Byte) /\ BufferOf(x \o y) = BufferOf(b \o y)
        /\ PacketsOf(x \o y) = PacketsOf(x) \o PacketsOf(b \o y)
    BY FramesConcat
  <2>2. Scan(x, s).buffer = b /\ Scan(x, s).synced = TRUE /\ Scan(x, s).packets = PacketsOf(x)
    BY <1>1, ScanFields
  <2> HIDE DEF b
  <2>3. b \o y \in Seq(Byte) BY <2>1, ConcatProperties
  <2>4. /\ Scan(b \o y, TRUE).buffer = BufferOf(b \o y)
        /\ Scan(b \o y, TRUE).synced = TRUE
        /\ Scan(b \o y, TRUE).packets = PacketsOf(b \o y)
    BY <2>3, ScanFields
  <2>5. /\ Scan(x \o y, s).buffer = BufferOf(x \o y) /\ Scan(x \o y, s).synced = TRUE
        /\ Scan(x \o y, s).packets = PacketsOf(x \o y)
    BY <1>0, <1>1, ScanFields
  <2> QED BY <2>1, <2>2, <2>4, <2>5
<1>2. CASE s = FALSE /\ Unframed(x)
  <2>1. Scan(x, s).buffer = x /\ Scan(x, s).synced = FALSE /\ Scan(x, s).packets = << >>
    BY <1>2, ScanFields
  <2>2. Scan(x \o y, s).packets \in Seq(Packets) BY <1>0, ScanShape
  <2>3. << >> \o Scan(x \o y, s).packets = Scan(x \o y, s).packets BY <2>2, ConcatEmptySeq
  <2> QED BY <1>2, <2>1, <2>3
<1>3. CASE s = FALSE /\ ~Unframed(x)
  <2>1. PICK u, z \in Seq(Byte) : Unframed(u) /\ x = (u \o <<FLAG>>) \o z /\ After(x) = z
    BY <1>3, Delimited
  <2>2. Scan(x, s).buffer = BufferOf(z) /\ Scan(x, s).synced = TRUE
        /\ Scan(x, s).packets = PacketsOf(z)
    BY <1>3, <2>1, ScanFields
  <2>3. x \o y = (u \o <<FLAG>>) \o (z \o y) /\ z \o y \in Seq(Byte)
    BY <2>1, Reassociated
  <2>4. ~Unframed(x \o y) /\ After(x \o y) = z \o y
    <3> DEFINE w == z \o y
               t == x \o y
    <3>1. w \in Seq(Byte) /\ t = (u \o <<FLAG>>) \o w /\ Unframed(u) BY <2>1, <2>3
    <3> HIDE DEF w, t
    <3>2. ~Unframed(t) /\ After(t) = w BY <3>1, FramesFlag
    <3> QED BY <3>2 DEF w, t
  <2>5. /\ Scan(x \o y, s).buffer = BufferOf(z \o y) /\ Scan(x \o y, s).synced = TRUE
        /\ Scan(x \o y, s).packets = PacketsOf(z \o y)
    BY <1>0, <1>3, <2>4, ScanFields
  <2> DEFINE b == BufferOf(z)
  <2>6. /\ b \in Seq(Byte) /\ BufferOf(z \o y) = BufferOf(b \o y)
        /\ PacketsOf(z \o y) = PacketsOf(z) \o PacketsOf(b \o y)
    BY FramesConcat
  <2>7. Scan(x, s).buffer = b BY <2>2
  <2> HIDE DEF b
  <2>8. b \o y \in Seq(Byte) BY <2>6, ConcatProperties
  <2>9. /\ Scan(b \o y, TRUE).buffer = BufferOf(b \o y)
        /\ Scan(b \o y, TRUE).synced = TRUE
        /\ Scan(b \o y, TRUE).packets = PacketsOf(b \o y)
    BY <2>8, ScanFields
  <2> QED BY <2>2, <2>5, <2>6, <2>7, <2>9
<1> QED BY <1>1, <1>2, <1>3

\* Nothing that could still be decoded is lost with a buffer that is too long.
LEMMA DroppedBuffer ==
  ASSUME NEW b \in Seq(Byte), NEW z \in Seq(Byte), NEW s \in BOOLEAN,
         Unframed(b), Len(b) > MaxFrameLength
  PROVE  /\ Scan(z, FALSE).packets = Scan(b \o z, s).packets
         /\ Scan(z, FALSE).synced => /\ Scan(b \o z, s).synced
                                     /\ Scan(z, FALSE).buffer = Scan(b \o z, s).buffer
<1>0. b \o z \in Seq(Byte) BY ConcatProperties
<1>1. CASE Unframed(z)
  <2>1. Scan(z, FALSE).packets = << >> /\ Scan(z, FALSE).synced = FALSE BY <1>1, ScanFields
  <2>2. Unframed(b \o z) BY <1>1, UnframedConcat
  <2>3. Scan(b \o z, FALSE).packets = << >> BY <1>0, <2>2, ScanFields
  <2>4. Scan(b \o z, TRUE).packets = << >> BY <1>0, <2>2, ScanFields, FramesUnframed
  <2> QED BY <2>1, <2>3, <2>4
<1>2. CASE ~Unframed(z)
  <2>1. PICK u, y \in Seq(Byte) : Unframed(u) /\ z = (u \o <<FLAG>>) \o y /\ After(z) = y
    BY <1>2, Delimited
  <2>2. /\ Scan(z, FALSE).packets = PacketsOf(y) /\ Scan(z, FALSE).synced = TRUE
        /\ Scan(z, FALSE).buffer = BufferOf(y)
    BY <1>2, <2>1, ScanFields
  <2> DEFINE v == b \o u
  <2>3. v \in Seq(Byte) /\ Unframed(v) BY <2>1, UnframedConcat, ConcatProperties
  <2>4. Len(v) > MaxFrameLength
    <3>1. Len(v) = Len(b) + Len(u) BY ConcatProperties
    <3>2. Len(b) \in Nat /\ Len(u) \in Nat /\ MaxFrameLength \in Nat
      BY LenProperties, FramingAssumption
    <3> HIDE DEF v
    <3> QED BY <3>1, <3>2
  <2>5. b \o z = (v \o <<FLAG>>) \o y
    <3>1. u \o <<FLAG>> \in Seq(Byte) /\ <<FLAG>> \in Seq(Byte) BY Flags, ConcatProperties
    <3>2. b \o z = (b \o (u \o <<FLAG>>)) \o y BY <3>1, <2>1, ConcatAssociative, SMTT(20)
    <3>3. b \o (u \o <<FLAG>>) = v \o <<FLAG>> BY <3>1, ConcatAssociative
    <3> QED BY <3>2, <3>3
  <2> HIDE DEF v
  <2>6. Decoded(v) = << >> BY <2>3, <2>4, DecodedShape
  <2>7. /\ BufferOf(b \o z) = BufferOf(y)
        /\ PacketsOf(b \o z) = PacketsOf(y)
    <3>1. /\ BufferOf(b \o z) = BufferOf(y)
          /\ PacketsOf(b \o z) = Decoded(v) \o PacketsOf(y)
      <4> DEFINE t == b \o z
      <4>1. t = (v \o <<FLAG>>) \o y BY <2>5
      <4> HIDE DEF t
      <4>2. BufferOf(t) = BufferOf(y) /\ PacketsOf(t) = Decoded(v) \o PacketsOf(y)
        BY <4>1, <2>3, FramesFlag
      <4> QED BY <4>2 DEF t
    <3>2. PacketsOf(y) \in Seq(Packets) BY FramesShape
    <3>3. << >> \o PacketsOf(y) = PacketsOf(y) BY <3>2, ConcatEmptySeq
    <3> QED BY <3>1, <3>3, <2>6
  <2>8. ~Unframed(b \o z) /\ After(b \o z) = y
    <3> DEFINE t == b \o z
    <3>1. t = (v \o <<FLAG>>) \o y BY <2>5
    <3> HIDE DEF t
    <3>2. ~Unframed(t) /\ After(t) = y BY <3>1, <2>3, FramesFlag
    <3> QED BY <3>2 DEF t
  <2>9. CASE s = TRUE BY <1>0, <2>2, <2>7, <2>9, ScanFields
  <2>10. CASE s = FALSE BY <1>0, <2>2, <2>8, <2>10, ScanFields
  <2> QED BY <2>9, <2>10
<1> QED BY <1>1, <1>2

-----------------------------------------------------------------------------
(***************************************************************************)
(* Framing: the invariant                                                  *)
(***************************************************************************)

\* What the receiver will make of all that is written.
Remaining == Scan(buffer \o wire, synced)

\* Runs of noise after the last frame.
Since(ns) == ns \in Seq(Noise) /\ Len(ns) <= noises

\* What is delivered and what will be are the packets sent, in order; a receiver in
\* step then holds what follows the last frame, noise.
FramingInv ==
  /\ FramingTypeOK /\ noises <= MaxNoise
  /\ delivered \o Remaining.packets = sent
  /\ Remaining.synced =>
       \E ns : Since(ns) /\ Remaining.buffer = BufferOf(FlattenSeq(ns))

\* Noise.
LEMMA NoiseShape ==
  ASSUME NEW ns \in Seq(Noise), Len(ns) <= MaxNoise
  PROVE  /\ ns \in Seq(Seq(Byte)) /\ FlattenSeq(ns) \in Seq(Byte)
         /\ Len(ns) \in Nat
         /\ PacketsOf(FlattenSeq(ns) \o <<FLAG>>) = << >>
<1>1. Len(ns) \in Nat /\ ns \in [1..Len(ns) -> Noise] BY LenProperties
<1>2. Len(ns) \in 0..MaxNoise BY <1>1, FramingAssumption
<1>3. PacketsOf(FlattenSeq(ns) \o <<FLAG>>) = << >>
  BY <1>1, <1>2, FramingAssumption DEF PacketsOf
<1>4. ns \in Seq(Seq(Byte)) 
  <2>1. ns \in [1..Len(ns) -> Seq(Byte)] BY <1>1, FramingAssumption
  <2> QED BY <2>1, <1>1, FunctionIsSeq
<1> QED BY <1>1, <1>3, <1>4, FlattenType

\* Two lists of packets that make none.
LEMMA EmptyConcat ==
  ASSUME NEW x \in Seq(Packets), NEW y \in Seq(Packets), x \o y = << >>
  PROVE  x = << >> /\ y = << >>
BY ConcatEqualIffEmpty

\* What noise leaves in the buffer does not decode.
LEMMA NoiseDecodes ==
  ASSUME NEW ns \in Seq(Noise), Len(ns) <= MaxNoise
  PROVE  LET b == BufferOf(FlattenSeq(ns))
         IN  /\ b \in Seq(Byte) /\ Unframed(b)
             /\ PacketsOf(FlattenSeq(ns)) = << >> /\ Decoded(b) = << >>
<1> DEFINE x == FlattenSeq(ns)
           b == BufferOf(x)
<1>1. x \in Seq(Byte) /\ PacketsOf(x \o <<FLAG>>) = << >> BY NoiseShape
<1> HIDE DEF x
<1>2. /\ b \in Seq(Byte) /\ Unframed(b)
      /\ PacketsOf(x \o <<FLAG>>) = PacketsOf(x) \o PacketsOf(b \o <<FLAG>>)
  BY <1>1, Flags, FramesConcat
<1> HIDE DEF b
<1>3. b \o <<FLAG>> \in Seq(Byte) BY <1>2, Flags, ConcatProperties
<1>4. PacketsOf(x) \in Seq(Packets) /\ PacketsOf(b \o <<FLAG>>) \in Seq(Packets)
  BY <1>1, <1>3, FramesShape
<1>5. PacketsOf(x) = << >> /\ PacketsOf(b \o <<FLAG>>) = << >>
  BY <1>1, <1>2, <1>4, EmptyConcat
<1>6. PacketsOf(b \o <<FLAG>>) = Decoded(b) \o PacketsOf(<< >>)
  <2>1. << >> \in Seq(Byte) BY EmptySeq
  <2>2. (b \o <<FLAG>>) \o << >> = b \o <<FLAG>> BY <1>3, ConcatEmptySeq
  <2> DEFINE s == b \o <<FLAG>>
             e == << >>
  <2>3. e \in Seq(Byte) /\ s = (b \o <<FLAG>>) \o e BY <2>1, <2>2
  <2> HIDE DEF s, e
  <2>4. PacketsOf(s) = Decoded(b) \o PacketsOf(e) BY <2>3, <1>2, FramesFlag
  <2> QED BY <2>4 DEF s, e
<1>7. Decoded(b) \in Seq(Packets) /\ PacketsOf(<< >>) \in Seq(Packets)
  BY <1>2, EmptySeq, DecodedShape, FramesShape
<1>8. Decoded(b) = << >> BY <1>5, <1>6, <1>7, EmptyConcat
<1> QED BY <1>2, <1>5, <1>8 DEF x, b

\* A frame after noise, or after garbage, is delivered.
LEMMA FrameIsDelivered ==
  ASSUME NEW p \in Packets, NEW b \in Seq(Byte), NEW s \in BOOLEAN, Unframed(b),
         s => Decoded(b) = << >>
  PROVE  LET d == Scan(b \o Frame(p), s)
         IN  d.packets = <<p>> /\ d.synced /\ d.buffer = << >>
<1> DEFINE e == Escape(p)
           f == <<FLAG>>
           z == e \o f
           x == b \o Frame(p)
<1>1. e \in Seq(Byte) /\ Unframed(e) /\ Decoded(e) = <<p>> BY PacketIsDecoded
<1>2. f \in Seq(Byte) BY Flags
<1>3. z \in Seq(Byte) /\ << >> \in Seq(Byte) /\ Unframed(<< >>)
  BY <1>1, <1>2, ConcatProperties, EmptySeq DEF Unframed
<1>4. x = (b \o f) \o z
  <2>1. Frame(p) = (f \o e) \o f BY DEF Frame
  <2> HIDE DEF e, f
  <2>2. (f \o e) \o f = f \o (e \o f) BY <1>1, <1>2, ConcatAssociative
  <2>3. b \o (f \o (e \o f)) = (b \o f) \o (e \o f)
    <3> DEFINE c == e \o f
    <3>1. c \in Seq(Byte) BY <1>1, <1>2, ConcatProperties
    <3> HIDE DEF c, z
    <3>2. b \o (f \o c) = (b \o f) \o c BY <1>2, <3>1, ConcatAssociative
    <3> QED BY <3>2 DEF c
  <2> QED BY <2>1, <2>2, <2>3
<1>5. BufferOf(z) = << >> /\ PacketsOf(z) = <<p>>
  <2> DEFINE y == << >>
  <2>1. z = (e \o <<FLAG>>) \o y /\ y \in Seq(Byte) BY <1>3, ConcatEmptySeq
  <2>2. BufferOf(y) = << >> /\ PacketsOf(y) = << >> BY <1>3, FramesUnframed
  <2> HIDE DEF y, z, e
  <2>3. BufferOf(z) = BufferOf(y) /\ PacketsOf(z) = Decoded(e) \o PacketsOf(y)
    BY <1>1, <2>1, FramesFlag
  <2>4. <<p>> \in Seq(Packets) OBVIOUS
  <2>5. <<p>> \o << >> = <<p>> BY <2>4, ConcatEmptySeq
  <2> QED BY <1>1, <2>2, <2>3, <2>5
<1> HIDE DEF z, e
<1>6. x \in Seq(Byte)
  <2>1. b \o f \in Seq(Byte) BY <1>2, ConcatProperties
  <2> HIDE DEF f, x
  <2>2. (b \o f) \o z \in Seq(Byte) BY <2>1, <1>3, ConcatProperties
  <2> QED BY <2>2, <1>4
<1>7. /\ BufferOf(x) = << >> /\ PacketsOf(x) = Decoded(b) \o <<p>>
      /\ ~Unframed(x) /\ After(x) = z
  <2> HIDE DEF x
  <2>1. x = (b \o <<FLAG>>) \o z BY <1>4
  <2>2. z \in Seq(Byte) BY <1>3
  <2>3. /\ BufferOf(x) = BufferOf(z) /\ PacketsOf(x) = Decoded(b) \o PacketsOf(z)
        /\ ~Unframed(x) /\ After(x) = z
    BY <2>1, <2>2, FramesFlag
  <2> QED BY <2>3, <1>5
<1> HIDE DEF x
<1>8. CASE s = TRUE
  <2>1. << >> \o <<p>> = <<p>>
    <3>1. <<p>> \in Seq(Packets) OBVIOUS
    <3> QED BY <3>1, ConcatEmptySeq
  <2>2. PacketsOf(x) = <<p>> BY <1>7, <1>8, <2>1
  <2>3. Scan(x, TRUE).packets = <<p>> /\ Scan(x, TRUE).synced = TRUE /\ Scan(x, TRUE).buffer = << >>
    BY <1>6, <1>7, <2>2, ScanFields
  <2> QED BY <1>8, <2>3 DEF x
<1>9. CASE s = FALSE
  <2>3. Scan(x, FALSE).packets = <<p>> /\ Scan(x, FALSE).synced = TRUE /\ Scan(x, FALSE).buffer = << >>
    BY <1>5, <1>6, <1>7, ScanFields
  <2> QED BY <1>9, <2>3 DEF x
<1> QED BY <1>8, <1>9

\* A frame is bytes.
LEMMA FramingFrameShape ==
  ASSUME NEW p \in Packets
  PROVE  Frame(p) \in Seq(Byte)
<1>1. Escape(p) \in Seq(Byte) /\ <<FLAG>> \in Seq(Byte) BY PacketIsDecoded, Flags
<1>2. <<FLAG>> \o Escape(p) \in Seq(Byte) BY <1>1, ConcatProperties
<1> QED BY <1>1, <1>2, ConcatProperties DEF Frame

\* What the receiver is going to hold.
LEMMA RemainingShape ==
  ASSUME FramingTypeOK
  PROVE  /\ buffer \o wire \in Seq(Byte)
         /\ Remaining.buffer \in Seq(Byte) /\ Unframed(Remaining.buffer)
         /\ Remaining.synced \in BOOLEAN /\ Remaining.packets \in Seq(Packets)
<1>1. buffer \in Seq(Byte) /\ wire \in Seq(Byte) /\ synced \in BOOLEAN BY DEF FramingTypeOK
<1>2. buffer \o wire \in Seq(Byte) BY <1>1, ConcatProperties
<1> QED BY <1>1, <1>2, ScanShape DEF Remaining

\* What is written after the rest changes nothing of what the rest will be.
LEMMA WrittenAfter ==
  ASSUME FramingTypeOK, NEW y \in Seq(Byte), wire' = wire \o y, buffer' = buffer, synced' = synced
  PROVE  LET e == Scan(Remaining.buffer \o y, Remaining.synced)
         IN  /\ wire' \in Seq(Byte)
             /\ Remaining'.buffer = e.buffer /\ Remaining'.synced = e.synced
             /\ Remaining'.packets = Remaining.packets \o e.packets
<1> DEFINE x == buffer \o wire
<1>1. buffer \in Seq(Byte) /\ wire \in Seq(Byte) /\ synced \in BOOLEAN BY DEF FramingTypeOK
<1>2. x \in Seq(Byte) BY <1>1, ConcatProperties
<1>3. buffer' \o wire' = x \o y BY <1>1, ConcatAssociative
<1>4. Remaining' = Scan(x \o y, synced) BY <1>3 DEF Remaining
<1>5. Remaining = Scan(x, synced) BY DEF Remaining
<1> HIDE DEF x
<1>6. wire' \in Seq(Byte) BY <1>1, ConcatProperties
<1> QED BY <1>1, <1>2, <1>4, <1>5, <1>6, ScanConcat, ZenonT(40)

\* The invariant holds at first.
LEMMA FramingInit_Inv == FramingInit => FramingInv
<1> SUFFICES ASSUME FramingInit PROVE FramingInv
  OBVIOUS
<1>1. wire = << >> /\ buffer = << >> /\ synced = FALSE /\ sent = << >> /\ delivered = << >> /\ noises = 0
  BY DEF FramingInit
<1>2. << >> \in Seq(Byte) /\ << >> \in Seq(Packets) /\ Unframed(<< >>) /\ Len(<< >>) = 0
  BY EmptySeq DEF Unframed
<1>3. 0 <= MaxFrameLength /\ 0 <= MaxNoise /\ 0 \in Nat BY FramingAssumption
<1>4. FramingTypeOK BY <1>1, <1>2, <1>3 DEF FramingTypeOK
<1>5. Remaining.packets = << >> /\ Remaining.synced = FALSE
  <2>1. buffer \o wire = << >> BY <1>1, <1>2, ConcatEmptySeq
  <2>2. Scan(<< >>, FALSE).packets = << >> /\ Scan(<< >>, FALSE).synced = FALSE BY <1>2, ScanFields
  <2> QED BY <1>1, <2>1, <2>2 DEF Remaining
<1>6. delivered \o Remaining.packets = sent BY <1>1, <1>2, <1>5, ConcatEmptySeq
<1> QED BY <1>1, <1>3, <1>4, <1>5, <1>6 DEF FramingInv

\* What a receiver in step holds does not decode.
LEMMA HeldDecodes ==
  ASSUME FramingInv, Remaining.synced
  PROVE  Decoded(Remaining.buffer) = << >>
<1>1. PICK ns : Since(ns) /\ Remaining.buffer = BufferOf(FlattenSeq(ns)) BY DEF FramingInv
<1>2. ns \in Seq(Noise) /\ Len(ns) <= MaxNoise
  <2>1. ns \in Seq(Noise) /\ Len(ns) <= noises /\ noises <= MaxNoise /\ noises \in Nat
    BY <1>1 DEF Since, FramingInv, FramingTypeOK
  <2>2. Len(ns) \in Nat /\ MaxNoise \in Nat BY <2>1, LenProperties, FramingAssumption
  <2> QED BY <2>1, <2>2
<1> QED BY <1>1, <1>2, NoiseDecodes

\* A frame written behind noise is delivered, in its turn.
LEMMA SendKeeps ==
  ASSUME FramingInv, Send
  PROVE  FramingInv'
<1>0. FramingTypeOK BY DEF FramingInv
<1>1. PICK p \in Packets : wire' = wire \o Frame(p) /\ sent' = Append(sent, p) BY DEF Send
<1>2. UNCHANGED <<buffer, synced, delivered, noises>> BY DEF Send
<1>3. Frame(p) \in Seq(Byte) BY FramingFrameShape
<1> DEFINE e == Scan(Remaining.buffer \o Frame(p), Remaining.synced)
<1>4. /\ wire' \in Seq(Byte) /\ Remaining'.buffer = e.buffer /\ Remaining'.synced = e.synced
      /\ Remaining'.packets = Remaining.packets \o e.packets
  BY <1>0, <1>1, <1>2, <1>3, WrittenAfter
<1>5. e.packets = <<p>> /\ e.synced /\ e.buffer = << >>
  BY <1>0, RemainingShape, HeldDecodes, FrameIsDelivered
<1> HIDE DEF e
<1>6. sent' \in Seq(Packets) /\ sent' = sent \o <<p>>
  BY <1>0, <1>1, AppendProperties, AppendIsConcat DEF FramingTypeOK
<1>7. FramingTypeOK' BY <1>0, <1>2, <1>4, <1>6 DEF FramingTypeOK, Unframed
<1>8. (delivered \o Remaining.packets) \o <<p>> = delivered \o (Remaining.packets \o <<p>>)
  <2> DEFINE r == Remaining.packets
             t == <<p>>
  <2>1. delivered \in Seq(Packets) /\ r \in Seq(Packets) /\ t \in Seq(Packets)
    BY <1>0, RemainingShape DEF FramingTypeOK
  <2> HIDE DEF r, t
  <2>2. (delivered \o r) \o t = delivered \o (r \o t) BY <2>1, PacketsAssociative
  <2> QED BY <2>2 DEF r, t
<1>9. delivered' \o Remaining'.packets = sent'
  BY <1>2, <1>4, <1>5, <1>6, <1>8 DEF FramingInv
<1>10. \E ns : Since(ns)' /\ Remaining'.buffer = BufferOf(FlattenSeq(ns))
  <2>1. << >> \in Seq(Noise) /\ Len(<< >>) = 0 BY EmptySeq
  <2>2. Since(<< >>)' BY <1>0, <1>2, <2>1 DEF Since, FramingTypeOK
  <2>3. << >> \in Seq(Byte) /\ Unframed(<< >>) BY EmptySeq DEF Unframed
  <2>4. BufferOf(FlattenSeq(<< >>)) = << >> BY <2>3, FlattenEmpty, FramesUnframed
  <2> QED BY <2>2, <2>4, <1>4, <1>5
<1>11. noises' <= MaxNoise BY <1>2 DEF FramingInv
<1> QED BY <1>7, <1>9, <1>10, <1>11 DEF FramingInv

\* Noise behind a frame or noise adds nothing to what is delivered.
LEMMA MakeNoiseKeeps ==
  ASSUME FramingInv, MakeNoise
  PROVE  FramingInv'
<1>0. FramingTypeOK BY DEF FramingInv
<1>1. PICK n \in Noise : wire' = wire \o n BY DEF MakeNoise
<1>2. /\ UNCHANGED <<buffer, synced, sent, delivered>>
      /\ noises < MaxNoise /\ noises' = noises + 1
  BY DEF MakeNoise
<1>3. n \in Seq(Byte) /\ noises \in Nat /\ MaxNoise \in Nat
  BY <1>0, FramingAssumption DEF FramingTypeOK
<1>4. noises' \in Nat /\ noises' <= MaxNoise /\ 1 <= noises' /\ 1 <= MaxNoise BY <1>2, <1>3
<1> DEFINE r == Remaining
           e == Scan(r.buffer \o n, r.synced)
<1>5. /\ wire' \in Seq(Byte) /\ Remaining'.buffer = e.buffer /\ Remaining'.synced = e.synced
      /\ Remaining'.packets = r.packets \o e.packets
  BY <1>0, <1>1, <1>2, <1>3, WrittenAfter
<1>6. /\ r.buffer \in Seq(Byte) /\ Unframed(r.buffer) /\ r.synced \in BOOLEAN
      /\ r.packets \in Seq(Packets)
  BY <1>0, RemainingShape
<1>7. FramingTypeOK' BY <1>0, <1>2, <1>4, <1>5 DEF FramingTypeOK, Unframed
<1>8. \A ns : ns \in Seq(Noise) /\ Len(ns) <= noises' => Since(ns)' BY DEF Since
<1>9. delivered \o r.packets = sent BY DEF FramingInv
<1>10. r.packets \o << >> = r.packets BY <1>6, ConcatEmptySeq
<1>11. SUFFICES /\ e.packets = << >>
                /\ e.synced => \E ns : /\ ns \in Seq(Noise) /\ Len(ns) <= noises'
                                       /\ e.buffer = BufferOf(FlattenSeq(ns))
  BY <1>2, <1>4, <1>5, <1>7, <1>8, <1>9, <1>10 DEF FramingInv
<1>12. CASE r.synced
  <2>1. PICK ns : Since(ns) /\ r.buffer = BufferOf(FlattenSeq(ns)) BY <1>12 DEF FramingInv
  <2>2. ns \in Seq(Noise) /\ Len(ns) <= noises /\ Len(ns) \in Nat
    BY <2>1, LenProperties DEF Since
  <2> DEFINE more == Append(ns, n)
             x == FlattenSeq(ns)
  <2>3. more \in Seq(Noise) /\ Len(more) = Len(ns) + 1 BY <2>2, AppendProperties
  <2> HIDE DEF more
  <2>4. Len(more) <= noises' /\ Len(more) <= MaxNoise BY <2>2, <2>3, <1>2, <1>3
  <2>5. ns \in Seq(Seq(Byte)) /\ x \in Seq(Byte)
    <3>1. Len(ns) <= MaxNoise BY <2>2, <1>2, <1>3
    <3> QED BY <2>2, <3>1, NoiseShape
  <2>6. FlattenSeq(more) = x \o n BY <2>5, <1>3, FlattenAppend DEF more
  <2>7. PacketsOf(FlattenSeq(more)) = << >> BY <2>3, <2>4, NoiseDecodes
  <2> HIDE DEF x
  <2>8. /\ BufferOf(x \o n) = BufferOf(r.buffer \o n)
        /\ PacketsOf(x \o n) = PacketsOf(x) \o PacketsOf(r.buffer \o n)
    <3>1. r.buffer = BufferOf(x) BY <2>1 DEF x
    <3> HIDE DEF r
    <3> QED BY <3>1, <2>5, <1>3, FramesConcat
  <2>9. r.buffer \o n \in Seq(Byte) BY <1>3, <1>6, ConcatProperties
  <2>10. PacketsOf(x) \in Seq(Packets) /\ PacketsOf(r.buffer \o n) \in Seq(Packets)
    BY <2>5, <2>9, FramesShape
  <2>11. PacketsOf(r.buffer \o n) = << >> BY <2>6, <2>7, <2>8, <2>10, EmptyConcat
  <2>12. e.packets = PacketsOf(r.buffer \o n) /\ e.buffer = BufferOf(r.buffer \o n)
    <3>1. r.synced = TRUE BY <1>6, <1>12
    <3> HIDE DEF r
    <3> QED BY <3>1, <2>9, ScanFields
  <2> HIDE DEF e, r
  <2> QED BY <2>3, <2>4, <2>6, <2>8, <2>11, <2>12
<1>13. CASE ~r.synced
  <2> DEFINE v == r.buffer \o n
  <2>1. v \in Seq(Byte) /\ v = r.buffer \o n BY <1>3, <1>6, ConcatProperties
  <2>2. e = Scan(v, FALSE)
    <3>1. r.synced = FALSE BY <1>6, <1>13
    <3> HIDE DEF r
    <3> QED BY <3>1
  <2> HIDE DEF v, e, r
  <2>3. CASE Unframed(v) BY <2>1, <2>2, <2>3, ScanFields
  <2>4. CASE ~Unframed(v)
    <3>1. ~Unframed(n) BY <2>1, <2>4, <1>3, <1>6, UnframedConcat
    <3>2. PICK u, z \in Seq(Byte) : Unframed(u) /\ n = (u \o <<FLAG>>) \o z
      BY <3>1, <1>3, Delimited
    <3> DEFINE w == r.buffer \o u
    <3>3. w \in Seq(Byte) /\ Unframed(w) BY <3>2, <1>6, UnframedConcat, ConcatProperties
    <3>4. v = (w \o <<FLAG>>) \o z
      <4>1. u \o <<FLAG>> \in Seq(Byte) /\ <<FLAG>> \in Seq(Byte) BY <3>2, Flags, ConcatProperties
      <4>2. v = (r.buffer \o (u \o <<FLAG>>)) \o z
        <5> DEFINE c == u \o <<FLAG>>
                   b == r.buffer
        <5>1. c \in Seq(Byte) /\ b \in Seq(Byte) /\ v = b \o (c \o z) BY <4>1, <1>6, <2>1, <3>2
        <5> HIDE DEF c, b
        <5>2. v = (b \o c) \o z BY <5>1, ConcatAssociative
        <5> QED BY <5>2 DEF c, b
      <4>3. r.buffer \o (u \o <<FLAG>>) = w \o <<FLAG>>
        <5> DEFINE c == <<FLAG>>
                   b == r.buffer
        <5>1. c \in Seq(Byte) /\ b \in Seq(Byte) BY <4>1, <1>6
        <5> HIDE DEF c, b
        <5>2. b \o (u \o c) = (b \o u) \o c BY <5>1, <3>2, ConcatAssociative
        <5> QED BY <5>2 DEF c, b, w
      <4> QED BY <4>2, <4>3
    <3> HIDE DEF w
    <3>5. After(v) = z BY <3>3, <3>4, FramesFlag
    <3>6. BufferOf(n) = BufferOf(z) /\ PacketsOf(n) = Decoded(u) \o PacketsOf(z)
      BY <3>2, FramesFlag
    <3> DEFINE one == <<n>>
    <3>7. one \in Seq(Noise) /\ Len(one) = 1 BY <1>1
    <3>8. FlattenSeq(one) = n BY <1>3, FlattenOne
    <3> HIDE DEF one
    <3>9. Len(one) <= MaxNoise /\ Len(one) <= noises' BY <3>7, <1>4
    <3>10. PacketsOf(n) = << >> BY <3>7, <3>8, <3>9, NoiseDecodes
    <3>11. Decoded(u) \in Seq(Packets) /\ PacketsOf(z) \in Seq(Packets)
      BY <3>2, DecodedShape, FramesShape
    <3>12. PacketsOf(z) = << >> BY <3>6, <3>10, <3>11, EmptyConcat
    <3>13. e.packets = PacketsOf(z) /\ e.buffer = BufferOf(z) BY <2>1, <2>2, <2>4, <3>5, ScanFields
    <3> QED BY <3>6, <3>7, <3>8, <3>9, <3>12, <3>13
  <2> QED BY <2>3, <2>4
<1> QED BY <1>12, <1>13

\* Limited gives up a buffer that is too long, and keeps the packets.
LEMMA LimitedFields ==
  ASSUME NEW d \in [buffer : Seq(Byte), synced : BOOLEAN, packets : Seq(Packets)]
  PROVE  /\ ~(Len(d.buffer) > MaxFrameLength) => Limited(d) = d
         /\ Len(d.buffer) > MaxFrameLength =>
              /\ Limited(d).buffer = << >> /\ Limited(d).synced = FALSE
              /\ Limited(d).packets = d.packets
BY DEF Limited

\* What Scan returns, as a record.
LEMMA ScanType ==
  ASSUME NEW x \in Seq(Byte), NEW s \in BOOLEAN
  PROVE  Scan(x, s) \in [buffer : Seq(Byte), synced : BOOLEAN, packets : Seq(Packets)]
<1> DEFINE d == Scan(x, s)
<1>1. d.buffer \in Seq(Byte) /\ d.synced \in BOOLEAN /\ d.packets \in Seq(Packets) BY ScanShape
<1>2. d = [buffer |-> d.buffer, synced |-> d.synced, packets |-> d.packets] BY DEF Scan
<1> HIDE DEF d
<1>3. d \in [buffer : Seq(Byte), synced : BOOLEAN, packets : Seq(Packets)] BY <1>1, <1>2
<1> QED BY <1>3 DEF d

\* A chunk, of any size: what was going to be delivered is delivered, or still going
\* to be, and a buffer that is given up held nothing that could be decoded.
LEMMA PushKeeps ==
  ASSUME FramingInv, Push
  PROVE  FramingInv'
<1>0. /\ FramingTypeOK /\ wire \in Seq(Byte) /\ buffer \in Seq(Byte) /\ synced \in BOOLEAN
      /\ delivered \in Seq(Packets) /\ sent \in Seq(Packets)
  BY DEF FramingInv, FramingTypeOK
<1>1. PICK n \in 1..MaxChunk :
        /\ n <= Len(wire)
        /\ LET d == Limited(Scan(buffer \o SubSeq(wire, 1, n), synced))
           IN  /\ buffer' = d.buffer /\ synced' = d.synced
               /\ delivered' = delivered \o d.packets
        /\ wire' = SubSeq(wire, n + 1, Len(wire))
        /\ UNCHANGED <<sent, noises>>
  BY DEF Push
<1>2. n \in 0..Len(wire)
  <2>1. n \in Nat /\ Len(wire) \in Nat BY <1>0, LenProperties, FramingAssumption
  <2> QED BY <2>1, <1>1
<1> DEFINE a == SubSeq(wire, 1, n)
           z == SubSeq(wire, n + 1, Len(wire))
           x == buffer \o a
           c == Scan(x, synced)
           d == Limited(c)
<1>3. a \in Seq(Byte) /\ z \in Seq(Byte) /\ wire = a \o z BY <1>0, <1>2, TakeDrop
<1>4. /\ wire' = z /\ buffer' = d.buffer /\ synced' = d.synced
      /\ delivered' = delivered \o d.packets /\ sent' = sent /\ noises' = noises
  BY <1>1
<1> HIDE DEF a, z
<1>5. x \in Seq(Byte) /\ buffer \o wire = x \o z
  <2>1. x \in Seq(Byte) BY <1>0, <1>3, ConcatProperties
  <2>2. buffer \o (a \o z) = (buffer \o a) \o z
    <3>1. buffer \in Seq(Byte) /\ a \in Seq(Byte) /\ z \in Seq(Byte) BY <1>0, <1>3
    <3> QED BY <3>1, ConcatAssociative
  <2>3. buffer \o wire = buffer \o (a \o z) BY <1>3
  <2> QED BY <2>1, <2>2, <2>3
<1>6. Remaining = Scan(x \o z, synced) BY <1>5 DEF Remaining
<1> HIDE DEF x
<1>7. /\ c.buffer \in Seq(Byte) /\ Unframed(c.buffer) /\ c.synced \in BOOLEAN
      /\ c.packets \in Seq(Packets)
  BY <1>0, <1>5, ScanShape
<1>8. c \in [buffer : Seq(Byte), synced : BOOLEAN, packets : Seq(Packets)]
  BY <1>0, <1>5, ScanType
<1> DEFINE e == Scan(c.buffer \o z, c.synced)
<1>9. /\ Remaining.buffer = e.buffer /\ Remaining.synced = e.synced
      /\ Remaining.packets = c.packets \o e.packets
  BY <1>0, <1>3, <1>5, <1>6, ScanConcat, ZenonT(40)
<1> HIDE DEF c
<1>10. Remaining' = Scan(d.buffer \o z, d.synced) BY <1>4 DEF Remaining
<1>11. /\ d.buffer \in Seq(Byte) /\ Unframed(d.buffer) /\ d.synced \in BOOLEAN
       /\ d.packets = c.packets /\ Len(d.buffer) <= MaxFrameLength
       /\ Remaining'.packets = e.packets
       /\ Remaining'.synced => e.synced /\ Remaining'.buffer = e.buffer
  <2>1. CASE Len(c.buffer) > MaxFrameLength
    <3>1. d.buffer = << >> /\ d.synced = FALSE /\ d.packets = c.packets
      BY <1>8, <2>1, LimitedFields
    <3>2. << >> \in Seq(Byte) /\ Unframed(<< >>) /\ Len(<< >>) = 0 /\ 0 <= MaxFrameLength
      BY EmptySeq, FramingAssumption DEF Unframed
    <3>3. << >> \o z = z BY <1>3, ConcatEmptySeq
    <3>4. Remaining' = Scan(z, FALSE) BY <1>10, <3>1, <3>3
    <3>5. /\ Scan(z, FALSE).packets = e.packets
          /\ Scan(z, FALSE).synced => e.synced /\ Scan(z, FALSE).buffer = e.buffer
      <4> DEFINE b == c.buffer
                 s == c.synced
      <4>1. b \in Seq(Byte) /\ Unframed(b) /\ s \in BOOLEAN /\ Len(b) > MaxFrameLength
        BY <1>7, <2>1
      <4> HIDE DEF b, s
      <4>2. /\ Scan(z, FALSE).packets = Scan(b \o z, s).packets
            /\ Scan(z, FALSE).synced => /\ Scan(b \o z, s).synced
                                        /\ Scan(z, FALSE).buffer = Scan(b \o z, s).buffer
        BY <4>1, <1>3, DroppedBuffer
      <4> QED BY <4>2 DEF b, s
    <3> HIDE DEF d, e
    <3> QED BY <3>1, <3>2, <3>4, <3>5
  <2>2. CASE ~(Len(c.buffer) > MaxFrameLength)
    <3>1. d = c BY <1>8, <2>2, LimitedFields
    <3>2. Remaining' = e BY <1>10, <3>1
    <3>3. Len(c.buffer) <= MaxFrameLength
      <4>1. Len(c.buffer) \in Nat /\ MaxFrameLength \in Nat BY <1>7, LenProperties, FramingAssumption
      <4> QED BY <4>1, <2>2
    <3> HIDE DEF d, e
    <3> QED BY <3>1, <3>2, <3>3, <1>7
  <2> QED BY <2>1, <2>2
<1> HIDE DEF d
<1>12. delivered' \in Seq(Packets) BY <1>0, <1>4, <1>7, <1>11, ConcatProperties
<1>13. FramingTypeOK' BY <1>0, <1>3, <1>4, <1>11, <1>12 DEF FramingTypeOK
<1>14. e.packets \in Seq(Packets)
  <2>1. c.buffer \o z \in Seq(Byte) BY <1>3, <1>7, ConcatProperties
  <2> QED BY <2>1, <1>7, ScanShape
<1> HIDE DEF e
<1>15. (delivered \o c.packets) \o e.packets = delivered \o (c.packets \o e.packets)
  <2> DEFINE p == c.packets
             q == e.packets
  <2>1. p \in Seq(Packets) /\ q \in Seq(Packets) BY <1>7, <1>14
  <2> HIDE DEF p, q
  <2>2. (delivered \o p) \o q = delivered \o (p \o q) BY <2>1, <1>0, PacketsAssociative
  <2> QED BY <2>2 DEF p, q
<1>16. delivered' \o Remaining'.packets = sent'
  BY <1>4, <1>9, <1>11, <1>15 DEF FramingInv
<1>17. Remaining'.synced => \E ns : Since(ns)' /\ Remaining'.buffer = BufferOf(FlattenSeq(ns))
  <2> SUFFICES ASSUME Remaining'.synced
               PROVE  \E ns : Since(ns)' /\ Remaining'.buffer = BufferOf(FlattenSeq(ns))
    OBVIOUS
  <2>1. Remaining.synced BY <1>9, <1>11
  <2>2. PICK ns : Since(ns) /\ Remaining.buffer = BufferOf(FlattenSeq(ns))
    BY <2>1 DEF FramingInv
  <2>3. Since(ns)' BY <2>2, <1>4 DEF Since
  <2> QED BY <2>2, <2>3, <1>9, <1>11
<1>18. noises' <= MaxNoise BY <1>4 DEF FramingInv
<1> QED BY <1>13, <1>16, <1>17, <1>18 DEF FramingInv

\* Every step preserves it.
LEMMA FramingNext_Inv ==
  ASSUME FramingInv, [FramingNext]_framingVars
  PROVE  FramingInv'
<1>1. CASE Send BY <1>1, SendKeeps
<1>2. CASE MakeNoise BY <1>2, MakeNoiseKeeps
<1>3. CASE Push BY <1>3, PushKeeps
<1>4. CASE UNCHANGED framingVars
  <2>1. Remaining' = Remaining BY <1>4 DEF framingVars, Remaining
  <2>2. FramingTypeOK' = FramingTypeOK BY <1>4 DEF framingVars, FramingTypeOK, Unframed
  <2>3. \A ns : Since(ns)' = Since(ns) BY <1>4 DEF framingVars, Since
  <2> QED BY <1>4, <2>1, <2>2, <2>3 DEF framingVars, FramingInv
<1> QED BY <1>1, <1>2, <1>3, <1>4 DEF FramingNext

\* When everything is pushed, what is delivered is what was sent.
LEMMA Framing_NothingLost ==
  ASSUME FramingInv
  PROVE  NothingLost
<1> SUFFICES ASSUME wire = << >> PROVE delivered = sent
  BY DEF NothingLost
<1>1. /\ buffer \in Seq(Byte) /\ Unframed(buffer) /\ synced \in BOOLEAN
      /\ delivered \in Seq(Packets)
  BY DEF FramingInv, FramingTypeOK
<1>2. Remaining = Scan(buffer, synced) BY <1>1, ConcatEmptySeq DEF Remaining
<1>3. Remaining.packets = << >>
  <2>1. CASE synced = TRUE BY <1>1, <1>2, <2>1, ScanFields, FramesUnframed
  <2>2. CASE synced = FALSE BY <1>1, <1>2, <2>2, ScanFields
  <2> QED BY <1>1, <2>1, <2>2
<1> QED BY <1>1, <1>3, ConcatEmptySeq DEF FramingInv

\* NothingLost: for any packets, noise that holds none, and sizes of chunks, the
\* receiver delivers all packets sent, in order, and no other.
THEOREM NothingIsLost == CodecsSpec => []NothingLost
<1>1. CodecsInit => FramingInv BY FramingInit_Inv DEF CodecsInit
<1>2. FramingInv /\ [CodecsNext]_<<framingVars, codecVars>> => FramingInv'
  <2> SUFFICES ASSUME FramingInv, [CodecsNext]_<<framingVars, codecVars>> PROVE FramingInv'
    OBVIOUS
  <2>1. [FramingNext]_framingVars
    <3>1. CASE BuildReport BY <3>1 DEF BuildReport
    <3>2. CASE BuildParameters BY <3>2 DEF BuildParameters
    <3>3. CASE BuildPassthrough BY <3>3 DEF BuildPassthrough
    <3>4. CASE Read BY <3>4 DEF Read
    <3>5. CASE Stream BY <3>5 DEF Stream
    <3>6. CASE UNCHANGED <<framingVars, codecVars>> BY <3>6
    <3> QED BY <3>1, <3>2, <3>3, <3>4, <3>5, <3>6 DEF CodecsNext
  <2> QED BY <2>1, FramingNext_Inv
<1>3. FramingInv => NothingLost BY Framing_NothingLost
<1> QED BY <1>1, <1>2, <1>3, PTL DEF CodecsSpec

-----------------------------------------------------------------------------
(***************************************************************************)
(* The summary of a report's items does not depend on their order          *)
(***************************************************************************)

\* What a summary may hold.
Contents == Seq({"10B", "7B"} \cup Int)

\* What SummariseExtras may return.
Summary == [SummaryFields -> Contents]

\* The fields that one id fills.
Plain == SummaryFields \ {"lbs", "batteryPercent"}

\* The item that a field is taken from.
Fills(id, value, field) ==
  /\ HasDecoded(id, value)
  /\ \/ field = "batteryMv" /\ id = 86
     \/ id \in DOMAIN FieldOf \ {93, 225} /\ FieldOf[id] = field

\* What an item says, for a field.
Content(value, field) == IF field = "batteryMv" THEN <<50 * value[2]>> ELSE value

\* FieldOf, id by id.
LEMMA Fields ==
  /\ DOMAIN FieldOf = {1, 48, 49, 93, 225, 226, 227, 230, 231, 232}
  /\ FieldOf[93] = "lbs" /\ FieldOf[225] = "lbs" /\ FieldOf[48] = "signalStrength"
  /\ FieldOf[49] = "satellites" /\ FieldOf[226] = "imei" /\ FieldOf[227] = "firmwareVersion"
  /\ FieldOf[230] = "iccid" /\ FieldOf[1] = "mileageKm" /\ FieldOf[231] = "e7Alarms"
  /\ FieldOf[232] = "switches"
BY DEF FieldOf

\* The fields of a summary.
LEMMA FieldSet ==
  SummaryFields = {"batteryPercent", "batteryMv", "lbs", "signalStrength", "satellites", "imei",
                   "firmwareVersion", "iccid", "mileageKm", "e7Alarms", "switches"}
BY Fields DEF SummaryFields

\* One item, and one only, fills a field.
LEMMA FilledByOne ==
  ASSUME NEW i, NEW j, NEW v, NEW w, NEW field \in Plain, Fills(i, v, field), Fills(j, w, field)
  PROVE  i = j
<1>1. field # "lbs" /\ field # "batteryPercent" /\ field \in SummaryFields BY DEF Plain
<1>2. \A k \in DOMAIN FieldOf : FieldOf[k] # "batteryMv" BY Fields
<1>3. CASE field = "batteryMv" BY <1>2, <1>3 DEF Fills
<1>4. CASE field # "batteryMv"
  <2>1. /\ i \in DOMAIN FieldOf \ {93, 225} /\ FieldOf[i] = field
        /\ j \in DOMAIN FieldOf \ {93, 225} /\ FieldOf[j] = field
    BY <1>4 DEF Fills
  <2>2. \A k, l \in DOMAIN FieldOf \ {93, 225} : FieldOf[k] = FieldOf[l] => k = l BY Fields
  <2> QED BY <2>1, <2>2
<1> QED BY <1>3, <1>4

\* A byte is a number.
LEMMA ByteIsInt == Byte \subseteq Int
BY DEF Byte

\* A value may be in a summary.
LEMMA BytesAreContents ==
  ASSUME NEW v \in Seq(Byte)
  PROVE  v \in Contents
<1>1. Byte \subseteq {"10B", "7B"} \cup Int BY DEF Byte
<1> QED BY <1>1, SeqMonotonic DEF Contents

\* A sequence of one.
LEMMA Singleton ==
  ASSUME NEW S, NEW v \in S
  PROVE  <<v>> \in Seq(S)
OBVIOUS

\* And a number or a label on its own.
LEMMA OneContent ==
  ASSUME NEW v \in {"10B", "7B"} \cup Int
  PROVE  <<v>> \in Contents
<1> DEFINE S == {"10B", "7B"} \cup Int
<1>1. v \in S OBVIOUS
<1> HIDE DEF S
<1>2. <<v>> \in Seq(S) BY <1>1, Singleton
<1> QED BY <1>2 DEF Contents, S

\* And a value with the label of its base stations.
LEMMA LabelledContent ==
  ASSUME NEW l \in {"10B", "7B"}, NEW v \in Seq(Byte)
  PROVE  <<l>> \o v \in Contents
<1>1. <<l>> \in Contents /\ v \in Contents BY BytesAreContents, OneContent
<1> QED BY <1>1, ConcatProperties DEF Contents

\* Base stations are bytes.
LEMMA StationsShape ==
  ASSUME NEW v \in Seq(Byte), v # << >>
  PROVE  Stations(v) \in Seq(Byte)
<1>1. CASE Len(v) = 1 + 10 * v[1]
  <2>1. 1 \in 0..Len(v)
    <3>1. Len(v) \in Nat /\ Len(v) # 0 BY LenProperties, EmptySeq
    <3> QED BY <3>1
  <2>2. SubSeq(v, 1 + 1, Len(v)) \in Seq(Byte)
    <3> DEFINE z == SubSeq(v, 2, Len(v))
    <3>1. \A j \in 2..Len(v) : v[j] \in Byte
      <4>1. \A j \in 2..Len(v) : j \in 1..Len(v) BY LenProperties
      <4> QED BY <4>1, ElementOfSeq
    <3>2. Len(v) \in Int /\ 2 \in Int BY LenProperties
    <3>3. z \in Seq(Byte) BY <3>1, <3>2, SubSeqProperties
    <3> QED BY <3>3
  <2> QED BY <1>1, <2>2 DEF Stations
<1>2. CASE ~(Len(v) = 1 + 10 * v[1])
  <2>1. << >> \in Seq(Byte) BY EmptySeq
  <2> QED BY <1>2, <2>1 DEF Stations
<1> QED BY <1>1, <1>2

\* An item that is decoded is long enough for what is read of it.
LEMMA DecodedLengths ==
  ASSUME NEW id, NEW v \in Seq(Byte), HasDecoded(id, v)
  PROVE  /\ id = 233 => Len(v) = 1
         /\ id = 86 => Len(v) = 2
         /\ id = 93 => v # << >>
<1>1. /\ FixedLength[233] = 1 /\ FixedLength[86] = 2 /\ 93 \notin DOMAIN FixedLength
  BY DEF FixedLength
<1>2. \A k \in {233, 86, 93} : k \notin AnyLength /\ k \notin EvenLength
  BY DEF AnyLength, EvenLength
<1>3. \/ id \in DOMAIN FixedLength /\ Len(v) = FixedLength[id]
      \/ id \in AnyLength \/ id \in EvenLength
      \/ id = 93 /\ v # << >>
  BY DEF HasDecoded, LBS10B
<1> DEFINE l == Len(v)
           F == FixedLength
<1>a. F[233] = 1 /\ F[86] = 2 BY <1>1
<1>b. \/ l = F[id] \/ id \in AnyLength \/ id \in EvenLength \/ id = 93 BY <1>3
<1> HIDE DEF l, F
<1>4. id = 233 => l = 1
  <2> SUFFICES ASSUME id = 233 PROVE l = 1 OBVIOUS
  <2>1. id \notin AnyLength /\ id \notin EvenLength /\ id # 93 BY <1>2
  <2>2. l = F[id] BY <2>1, <1>b
  <2> QED BY <2>2, <1>a
<1>5. id = 86 => l = 2
  <2> SUFFICES ASSUME id = 86 PROVE l = 2 OBVIOUS
  <2>1. id \notin AnyLength /\ id \notin EvenLength /\ id # 93 BY <1>2
  <2>2. l = F[id] BY <2>1, <1>b
  <2> QED BY <2>2, <1>a
<1>6. id = 93 => v # << >> BY <1>1, <1>2, <1>3
<1> QED BY <1>4, <1>5, <1>6 DEF l

\* What an item makes of s in each field.
Adds(t, s, id, v) ==
  /\ \A field \in Plain :
       t[field] = IF Fills(id, v, field) THEN Content(v, field) ELSE s[field]
  /\ t["batteryPercent"] =
       IF HasDecoded(id, v) /\ id = 233 THEN v
       ELSE IF HasDecoded(id, v) /\ id = 86 /\ s["batteryPercent"] = << >>
            THEN <<10 * v[1]>> ELSE s["batteryPercent"]

\* summariseExtras, item by item.
LEMMA ItemFields ==
  ASSUME NEW s \in Summary, NEW id, NEW v \in Seq(Byte)
  PROVE  /\ SummariseItem(s, id, v) \in Summary
         /\ Adds(SummariseItem(s, id, v), s, id, v)
<1> USE DEF Adds
<1> DEFINE t == SummariseItem(s, id, v)
<1>1. /\ "batteryPercent" \in SummaryFields /\ "batteryMv" \in SummaryFields /\ "lbs" \in SummaryFields
      /\ \A field \in Plain : field \in SummaryFields /\ field # "lbs" /\ field # "batteryPercent"
  BY FieldSet DEF Plain
<1>2. v \in Contents BY BytesAreContents
<1>3. s = [f \in SummaryFields |-> s[f]] /\ \A f \in SummaryFields : s[f] \in Contents BY DEF Summary
<1>4. 233 \notin DOMAIN FieldOf /\ 86 \notin DOMAIN FieldOf /\ "batteryMv" # "lbs"
      /\ "batteryMv" # "batteryPercent"
      /\ \A k \in DOMAIN FieldOf \ {93, 225} :
           FieldOf[k] \in Plain /\ FieldOf[k] # "batteryMv"
  BY Fields, FieldSet DEF Plain
<1>5. CASE ~HasDecoded(id, v)
  <2>1. t = s BY <1>5 DEF SummariseItem
  <2>2. \A field : ~Fills(id, v, field) BY <1>5 DEF Fills
  <2> QED BY <2>1, <2>2, <1>5
<1>6. CASE HasDecoded(id, v) /\ id = 233
  <2>0. id # 86 /\ id # LBS10B /\ id # 225 /\ id \notin DOMAIN FieldOf \ {LBS10B, 225}
    BY <1>4, <1>6 DEF LBS10B
  <2>1. t = [s EXCEPT !.batteryPercent = v] BY <2>0, <1>6 DEF SummariseItem
  <2>2. t \in Summary BY <2>1, <1>1, <1>2 DEF Summary
  <2>3. \A field : field \in Plain => ~Fills(id, v, field) BY <1>4, <1>6 DEF Fills
  <2>4. \A field \in Plain : t[field] = s[field] BY <2>1, <1>1, <1>3
  <2>5. t["batteryPercent"] = v BY <2>1, <1>1, <1>3
  <2> QED BY <2>2, <2>3, <2>4, <2>5, <1>6
<1>7. CASE HasDecoded(id, v) /\ id = 86
  <2>0. id # 233 /\ id # LBS10B /\ id # 225 /\ id \notin DOMAIN FieldOf \ {LBS10B, 225}
    BY <1>4, <1>7 DEF LBS10B
  <2>1. t = Battery(s, v) BY <2>0, <1>7 DEF SummariseItem
  <2>2. Len(v) = 2 BY <1>7, DecodedLengths
  <2>3. v[1] \in Byte /\ v[2] \in Byte BY <2>2, ElementOfSeq
  <2> DEFINE a == <<10 * v[1]>>
             b == <<50 * v[2]>>
  <2>4. a \in Contents /\ b \in Contents
    <3>0. v[1] \in Int /\ v[2] \in Int BY <2>3, ByteIsInt
    <3>1. 10 * v[1] \in Int /\ 50 * v[2] \in Int BY <3>0
    <3> QED BY <3>1, OneContent
  <2>5. t = [s EXCEPT !.batteryPercent = IF s["batteryPercent"] = << >> THEN a ELSE s["batteryPercent"],
                      !.batteryMv = b]
    BY <2>1 DEF Battery, NotReported
  <2>6. \A field \in Plain : Fills(id, v, field) <=> field = "batteryMv"
    BY <1>4, <1>7 DEF Fills
  <2>7. Content(v, "batteryMv") = b BY DEF Content
  <2> HIDE DEF a, b, t
  <2>8. t \in Summary BY <2>4, <2>5, <1>1, <1>3 DEF Summary
  <2>9. /\ t["batteryMv"] = b
        /\ t["batteryPercent"] = IF s["batteryPercent"] = << >> THEN a ELSE s["batteryPercent"]
    BY <2>5, <1>1, <1>3, <1>4
  <2>10. \A field \in Plain : field # "batteryMv" => t[field] = s[field]
    BY <2>5, <1>1, <1>3
  <2>11. id # 233 BY <1>7
  <2> QED BY <2>6, <2>7, <2>8, <2>9, <2>10, <2>11, <1>7 DEF a, t
<1>8. CASE HasDecoded(id, v) /\ id \in {93, 225}
  <2> DEFINE l == IF id = 93 THEN <<"10B">> \o Stations(v) ELSE <<"7B">> \o v
  <2>0. id # 233 /\ id # 86 /\ id \notin DOMAIN FieldOf \ {LBS10B, 225}
    BY <1>8 DEF LBS10B
  <2>1. t = [s EXCEPT !.lbs = l]
    <3>1. CASE id = LBS10B
      <4>1. id # 225 /\ id = 93 BY <3>1 DEF LBS10B
      <4> QED BY <2>0, <3>1, <4>1, <1>8 DEF SummariseItem
    <3>2. CASE id = 225
      <4>1. id # LBS10B /\ id # 93 BY <3>2 DEF LBS10B
      <4> QED BY <2>0, <3>2, <4>1, <1>8 DEF SummariseItem
    <3> QED BY <3>1, <3>2, <1>8 DEF LBS10B
  <2>2. l \in Contents
    <3>1. CASE id = 93
      <4>1. v # << >> BY <1>8, <3>1, DecodedLengths
      <4>2. Stations(v) \in Seq(Byte) BY <4>1, StationsShape
      <4>3. "10B" \in {"10B", "7B"} OBVIOUS
      <4>4. <<"10B">> \o Stations(v) \in Contents BY <4>2, <4>3, LabelledContent
      <4> QED BY <3>1, <4>4
    <3>2. CASE id # 93
      <4>1. "7B" \in {"10B", "7B"} OBVIOUS
      <4>2. <<"7B">> \o v \in Contents BY <4>1, LabelledContent
      <4> QED BY <3>2, <4>2
    <3> QED BY <3>1, <3>2
  <2>3. \A field \in Plain : ~Fills(id, v, field) BY <1>8, <1>4 DEF Fills
  <2> HIDE DEF l, t
  <2>4. t \in Summary BY <2>1, <2>2, <1>1 DEF Summary
  <2>5. \A field \in Plain : t[field] = s[field] BY <2>1, <1>1, <1>3
  <2>6. t["batteryPercent"] = s["batteryPercent"] BY <2>1, <1>1, <1>3
  <2>7. id # 233 /\ id # 86 BY <1>8
  <2> QED BY <2>3, <2>4, <2>5, <2>6, <2>7 DEF t
<1>9. CASE HasDecoded(id, v) /\ id \in DOMAIN FieldOf \ {93, 225}
  <2>0. id # 233 /\ id # 86 /\ id # 93 /\ id # 225 BY <1>9, <1>4
  <2>1. t = [s EXCEPT ![FieldOf[id]] = v] BY <1>9, <2>0 DEF SummariseItem, LBS10B
  <2> DEFINE f == FieldOf[id]
  <2>2. f \in Plain /\ f # "batteryMv" /\ f \in SummaryFields BY <1>9, <1>4, <1>1
  <2>3. \A field \in Plain : Fills(id, v, field) <=> field = f BY <1>9, <2>0 DEF Fills
  <2>4. t = [s EXCEPT ![f] = v] BY <2>1
  <2> HIDE DEF f, t
  <2>5. t \in Summary BY <2>4, <2>2, <1>2 DEF Summary
  <2>6. t[f] = v /\ \A field \in SummaryFields : field # f => t[field] = s[field]
    BY <2>4, <2>2, <1>3
  <2>7. Content(v, f) = v BY <2>2 DEF Content
  <2>8. f # "batteryPercent" BY <2>2, <1>1
  <2> QED BY <2>0, <2>3, <2>5, <2>6, <2>7, <2>8, <1>1 DEF t
<1>10. CASE HasDecoded(id, v) /\ id \notin DOMAIN FieldOf /\ id # 233 /\ id # 86
  <2>0. id # 93 /\ id # 225 BY <1>10, Fields
  <2>1. t = s BY <1>10, <2>0 DEF SummariseItem, LBS10B
  <2>2. \A field : ~Fills(id, v, field) BY <1>10 DEF Fills
  <2> QED BY <2>1, <2>2, <1>10
<1> QED BY <1>5, <1>6, <1>7, <1>8, <1>9, <1>10

\* a[i] is the summary of the first i items.
Summarises(a, items) ==
  /\ a[0] = Nothing
  /\ \A i \in 1..Len(items) : a[i] = SummariseItem(a[i - 1], items[i].id[1], items[i].value)

\* The empty summary.
LEMMA NothingIsSummary == Nothing \in Summary /\ \A f \in SummaryFields : Nothing[f] = << >>
<1>1. << >> \in Contents BY EmptySeq DEF Contents
<1> QED BY <1>1 DEF Nothing, NotReported, Summary

\* SummariseExtras takes the items one after the other.
LEMMA SummaryEquation ==
  ASSUME NEW items \in Seq(Elements)
  PROVE  \E a \in [0..Len(items) -> Summary] :
           Summarises(a, items) /\ SummariseExtras(items) = a[Len(items)]
<1> DEFINE n == Len(items)
           D == 0..n
           V == Summary
           item(i, s) == SummariseItem(s, items[i].id[1], items[i].value)
           R(g) == [i \in 0..Len(items) |->
                     IF i = 0 THEN Nothing
                     ELSE SummariseItem(g[i - 1], items[i].id[1], items[i].value)]
           rank == [i \in D |-> i]
           final == {i \in D : i = 0}
           next == [i \in D |-> IF i = 0 THEN 0 ELSE i - 1]
           base == [i \in D |-> Nothing]
           comb == [x \in D \X V |-> IF x[1] = 0 THEN Nothing ELSE item(x[1], x[2])]
<1>1. n \in Nat /\ \A i \in 1..n : items[i].value \in Seq(Byte)
  <2>1. \A i \in 1..n : items[i] \in Elements BY ElementOfSeq
  <2> QED BY <2>1, LenProperties DEF Elements
<1>2. Nothing \in V BY NothingIsSummary
<1>3. \A i \in D, s \in V : i # 0 => item(i, s) \in V
  <2> SUFFICES ASSUME NEW i \in D, NEW s \in V, i # 0 PROVE item(i, s) \in V OBVIOUS
  <2>1. i \in 1..n BY <1>1
  <2> QED BY <2>1, <1>1, ItemFields
<1>4. IsRecursion(D, V, rank, final, next, base, comb)
  <2>1. rank \in [D -> Nat] /\ final \in SUBSET D BY <1>1
  <2>2. base \in [D -> V] BY <1>2
  <2>3. next \in [D -> D] /\ \A d \in D : d \notin final => rank[next[d]] < rank[d]
    BY <1>1
  <2>4. comb \in [D \X V -> V]
    <3> HIDE DEF item, V, D
    <3> QED BY <1>2, <1>3
  <2> HIDE DEF comb, rank, final, base, next, D, V
  <2> QED BY <2>1, <2>2, <2>3, <2>4 DEF IsRecursion
<1>5. PICK g \in [D -> V] :
        \A d \in D : g[d] = IF d \in final THEN base[d] ELSE comb[<<d, g[next[d]]>>]
  <2> HIDE DEF D, V, rank, final, next, base, comb
  <2> QED BY <1>4, Recursion
<1>6. ASSUME NEW i \in D PROVE g[i] = R(g)[i]
  <2>1. CASE i = 0
    <3>1. i \in final /\ base[i] = Nothing BY <2>1
    <3>2. g[i] = Nothing
      <4> HIDE DEF final, base, comb, next, D, V
      <4> QED BY <3>1, <1>5
    <3>3. R(g)[i] = Nothing BY <2>1
    <3> QED BY <3>2, <3>3
  <2>2. CASE i # 0
    <3>1. i \notin final /\ next[i] = i - 1 /\ i - 1 \in D BY <2>2, <1>1
    <3>2. g[i - 1] \in V
      <4> HIDE DEF V, D
      <4> QED BY <3>1
    <3>3. comb[<<i, g[i - 1]>>] = item(i, g[i - 1])
      <4> HIDE DEF V, D, item
      <4> QED BY <3>2, <2>2
    <3>4. g[i] = item(i, g[i - 1])
      <4> HIDE DEF final, base, comb, next, D, V, item
      <4> QED BY <3>1, <3>3, <1>5
    <3>5. R(g)[i] = item(i, g[i - 1]) BY <2>2
    <3> QED BY <3>4, <3>5
  <2> QED BY <2>1, <2>2
<1>7. g = R(g)
  <2>1. g = [i \in D |-> g[i]] OBVIOUS
  <2>2. R(g) = [i \in D |-> R(g)[i]] OBVIOUS
  <2> HIDE DEF R, D, V
  <2> QED BY <1>6, <2>1, <2>2
<1> DEFINE after == CHOOSE f : f = R(f)
<1>8. after = R(after)
  <2> HIDE DEF R
  <2> QED BY <1>7
<1>9. SummariseExtras(items) = after[n] BY DEF SummariseExtras
<1> HIDE DEF after
<1>10. \A i \in D : after[i] = IF i = 0 THEN Nothing ELSE item(i, after[i - 1])
  <2>1. \A i \in D : R(after)[i] = IF i = 0 THEN Nothing ELSE item(i, after[i - 1]) OBVIOUS
  <2> HIDE DEF R, D, item
  <2> QED BY <2>1, <1>8
<1>11. Summarises(after, items)
  <2>1. after[0] = Nothing
    <3>1. 0 \in D BY <1>1
    <3> QED BY <3>1, <1>10
  <2>2. ASSUME NEW i \in 1..n PROVE after[i] = item(i, after[i - 1])
    <3>1. i \in D /\ i # 0 BY <1>1
    <3> QED BY <3>1, <1>10
  <2> QED BY <2>1, <2>2 DEF Summarises
<1> DEFINE T == {k \in Nat : k \in D => after[k] \in V}
<1>12. ASSUME NEW k \in Nat, \A j \in Nat : j < k => j \in T PROVE k \in T
  <2> SUFFICES ASSUME k \in D PROVE after[k] \in V
    OBVIOUS
  <2>1. CASE k = 0 BY <2>1, <1>2, <1>10
  <2>2. CASE k # 0
    <3>1. k - 1 \in Nat /\ k - 1 < k /\ k - 1 \in D BY <2>2, <1>1
    <3>2. after[k - 1] \in V
      <4> HIDE DEF V, D
      <4> QED BY <3>1, <1>12
    <3> HIDE DEF V, D, item
    <3> QED BY <3>2, <2>2, <1>3, <1>10
  <2> QED BY <2>1, <2>2
<1>13. Nat \subseteq T
  <2> HIDE DEF T
  <2> QED BY <1>12, Induction
<1>14. after \in [D -> V]
  <2>1. \A k \in D : k \in Nat BY <1>1
  <2>2. \A k \in D : after[k] \in V
    <3> HIDE DEF V, D
    <3> QED BY <1>13, <2>1
  <2>3. R(after) = [i \in D |-> R(after)[i]] OBVIOUS
  <2> HIDE DEF V, D, R
  <2> QED BY <2>2, <2>3, <1>8
<1> QED BY <1>9, <1>11, <1>14

\* The i-th item fills a field, or tells the battery.
FilledBy(items, i, field) == Fills(items[i].id[1], items[i].value, field)

\* The i-th item is decoded, and has that id.
Tells(items, i, id) ==
  items[i].id[1] = id /\ HasDecoded(items[i].id[1], items[i].value)

\* No id occurs twice.
Distinct(items) ==
  \A i, j \in 1..Len(items) : items[i].id[1] = items[j].id[1] => i = j

\* s sums up the first k items.
SumsUp(s, items, k) ==
  /\ \A field \in Plain :
       /\ \A i \in 1..k : FilledBy(items, i, field) =>
            s[field] = Content(items[i].value, field)
       /\ (\A i \in 1..k : ~FilledBy(items, i, field)) => s[field] = << >>
  /\ \A i \in 1..k : Tells(items, i, 233) => s["batteryPercent"] = items[i].value
  /\ (\A i \in 1..k : ~Tells(items, i, 233)) =>
       /\ \A i \in 1..k : Tells(items, i, 86) =>
            s["batteryPercent"] = <<10 * items[i].value[1]>>
       /\ (\A i \in 1..k : ~Tells(items, i, 86)) => s["batteryPercent"] = << >>

\* One more item.
LEMMA SumsUpNext ==
  ASSUME NEW items \in Seq(Elements), Distinct(items), NEW k \in 1..Len(items),
         NEW s \in Summary, SumsUp(s, items, k - 1)
  PROVE  SumsUp(SummariseItem(s, items[k].id[1], items[k].value), items, k)
<1> DEFINE id == items[k].id[1]
           v == items[k].value
           t == SummariseItem(s, id, v)
<1>1. v \in Seq(Byte)
  <2>1. items[k] \in Elements BY ElementOfSeq
  <2> QED BY <2>1 DEF Elements
<1>2. Len(items) \in Nat BY LenProperties
<1>3. /\ \A field \in Plain :
           t[field] = IF Fills(id, v, field) THEN Content(v, field) ELSE s[field]
      /\ t["batteryPercent"] =
           IF HasDecoded(id, v) /\ id = 233 THEN v
           ELSE IF HasDecoded(id, v) /\ id = 86 /\ s["batteryPercent"] = << >>
                THEN <<10 * v[1]>> ELSE s["batteryPercent"]
  <2> HIDE DEF id, v, t
  <2>1. Adds(t, s, id, v)
    <3>1. Adds(SummariseItem(s, id, v), s, id, v) BY <1>1, ItemFields
    <3> QED BY <3>1 DEF t
  <2> QED BY <2>1 DEF Adds
<1> HIDE DEF t
<1>4. \A i \in 1..k : i = k \/ i \in 1..(k - 1) BY <1>2
<1>5. \A i \in 1..(k - 1) : i \in 1..k /\ i # k /\ i \in 1..Len(items) BY <1>2
<1>6. k \in 1..k BY <1>2
<1>7. ASSUME NEW field \in Plain
      PROVE /\ \A i \in 1..k : FilledBy(items, i, field) =>
                 t[field] = Content(items[i].value, field)
            /\ (\A i \in 1..k : ~FilledBy(items, i, field)) => t[field] = << >>
  <2>1. FilledBy(items, k, field) <=> Fills(id, v, field) BY DEF FilledBy
  <2>2. /\ \A i \in 1..(k - 1) : FilledBy(items, i, field) =>
             s[field] = Content(items[i].value, field)
        /\ (\A i \in 1..(k - 1) : ~FilledBy(items, i, field)) => s[field] = << >>
    BY DEF SumsUp
  <2>3. CASE FilledBy(items, k, field)
    <3>1. t[field] = Content(v, field) BY <1>3, <2>1, <2>3
    <3>2. \A i \in 1..(k - 1) : ~FilledBy(items, i, field)
      <4> SUFFICES ASSUME NEW i \in 1..(k - 1), FilledBy(items, i, field) PROVE FALSE OBVIOUS
      <4>1. items[i].id[1] = items[k].id[1] BY <2>3, FilledByOne DEF FilledBy
      <4> QED BY <4>1, <1>5 DEF Distinct
    <3>3. \A i \in 1..k : FilledBy(items, i, field) => i = k BY <3>2, <1>4
    <3> QED BY <2>3, <3>1, <3>3, <1>6
  <2>4. CASE ~FilledBy(items, k, field)
    <3>1. t[field] = s[field] BY <1>3, <2>1, <2>4
    <3>2. \A i \in 1..k : FilledBy(items, i, field) => i \in 1..(k - 1) BY <1>4, <2>4
    <3> HIDE DEF v
    <3> QED BY <3>1, <3>2, <2>2, <1>5
  <2> QED BY <2>3, <2>4
<1>8. /\ \A i \in 1..(k - 1) : Tells(items, i, 233) => s["batteryPercent"] = items[i].value
      /\ (\A i \in 1..(k - 1) : ~Tells(items, i, 233)) =>
           /\ \A i \in 1..(k - 1) : Tells(items, i, 86) =>
                s["batteryPercent"] = <<10 * items[i].value[1]>>
           /\ (\A i \in 1..(k - 1) : ~Tells(items, i, 86)) => s["batteryPercent"] = << >>
  BY DEF SumsUp
<1>9. \A i \in 1..(k - 1) : \A d : Tells(items, i, d) => ~Tells(items, k, d)
  <2> SUFFICES ASSUME NEW i \in 1..(k - 1), NEW d, Tells(items, i, d), Tells(items, k, d)
               PROVE  FALSE
    OBVIOUS
  <2>1. items[i].id[1] = items[k].id[1] BY DEF Tells
  <2> QED BY <2>1, <1>5 DEF Distinct
<1>10. \A i \in 1..(k - 1) : Tells(items, i, 233) => items[i].value # << >>
  <2> SUFFICES ASSUME NEW i \in 1..(k - 1), Tells(items, i, 233) PROVE items[i].value # << >>
    OBVIOUS
  <2>1. items[i] \in Elements BY <1>5, ElementOfSeq
  <2>2. items[i].value \in Seq(Byte) BY <2>1 DEF Elements
  <2>3. Len(items[i].value) = 1 BY <2>2, DecodedLengths DEF Tells
  <2>4. Len(<< >>) = 0 /\ 0 # 1 BY EmptySeq
  <2> QED BY <2>3, <2>4
<1>11. /\ Tells(items, k, 233) <=> HasDecoded(id, v) /\ id = 233
       /\ Tells(items, k, 86) <=> HasDecoded(id, v) /\ id = 86
  BY DEF Tells
<1> DEFINE b == s["batteryPercent"]
           c == t["batteryPercent"]
<1>12. c = IF Tells(items, k, 233) THEN items[k].value
           ELSE IF Tells(items, k, 86) /\ b = << >> THEN <<10 * items[k].value[1]>> ELSE b
  BY <1>3, <1>11
<1>a. b = s["batteryPercent"] /\ c = t["batteryPercent"] OBVIOUS
<1> HIDE DEF b, c, id, v
<1>13. /\ \A i \in 1..k : Tells(items, i, 233) => c = items[i].value
       /\ (\A i \in 1..k : ~Tells(items, i, 233)) =>
            /\ \A i \in 1..k : Tells(items, i, 86) => c = <<10 * items[i].value[1]>>
            /\ (\A i \in 1..k : ~Tells(items, i, 86)) => c = << >>
  <2>1. CASE Tells(items, k, 233)
    <3>1. c = items[k].value BY <1>12, <2>1
    <3>2. \A i \in 1..k : Tells(items, i, 233) => i = k BY <1>4, <1>9, <2>1
    <3> QED BY <3>1, <3>2, <2>1, <1>6
  <2>2. CASE ~Tells(items, k, 233) /\ Tells(items, k, 86)
    <3>1. \A i \in 1..(k - 1) : ~Tells(items, i, 86) BY <1>9, <2>2
    <3>2. CASE \A i \in 1..(k - 1) : ~Tells(items, i, 233)
      <4>1. b = << >> BY <1>8, <1>a, <3>1, <3>2
      <4>2. c = <<10 * items[k].value[1]>> BY <1>12, <2>2, <4>1
      <4>3. \A i \in 1..k : Tells(items, i, 86) => i = k BY <1>4, <3>1
      <4>4. \A i \in 1..k : ~Tells(items, i, 233) BY <1>4, <2>2, <3>2
      <4> QED BY <4>2, <4>3, <4>4, <2>2, <1>6
    <3>3. CASE \E i \in 1..(k - 1) : Tells(items, i, 233)
      <4>1. PICK j \in 1..(k - 1) : Tells(items, j, 233) BY <3>3
      <4>2. b = items[j].value /\ b # << >> BY <4>1, <1>8, <1>10, <1>a
      <4>3. c = b BY <1>12, <2>2, <4>2
      <4>4. \A i \in 1..k : Tells(items, i, 233) => i \in 1..(k - 1) BY <1>4, <2>2
      <4>5. \A i \in 1..k : Tells(items, i, 233) => c = items[i].value
        BY <4>3, <4>4, <1>8, <1>a
      <4>6. j \in 1..k BY <1>5
      <4> QED BY <4>1, <4>5, <4>6
    <3> QED BY <3>2, <3>3
  <2>3. CASE ~Tells(items, k, 233) /\ ~Tells(items, k, 86)
    <3>1. c = b BY <1>12, <2>3
    <3>2. \A i \in 1..k : Tells(items, i, 233) \/ Tells(items, i, 86) => i \in 1..(k - 1)
      BY <1>4, <2>3
    <3> QED BY <3>1, <3>2, <1>5, <1>8, <1>a
  <2> QED BY <2>1, <2>2, <2>3
<1>14. SumsUp(t, items, k) BY <1>7, <1>13, <1>a DEF SumsUp
<1> QED BY <1>14 DEF t, id, v

\* So does the summary of all items, if their ids differ.
LEMMA SummarySumsUp ==
  ASSUME NEW items \in Seq(Elements), Distinct(items)
  PROVE  SumsUp(SummariseExtras(items), items, Len(items))
<1>1. PICK a \in [0..Len(items) -> Summary] :
        Summarises(a, items) /\ SummariseExtras(items) = a[Len(items)]
  BY SummaryEquation
<1>2. Len(items) \in Nat BY LenProperties
<1> DEFINE T == {k \in Nat : k <= Len(items) => SumsUp(a[k], items, k)}
<1>3. ASSUME NEW k \in Nat, \A j \in Nat : j < k => j \in T PROVE k \in T
  <2> SUFFICES ASSUME k <= Len(items) PROVE SumsUp(a[k], items, k)
    OBVIOUS
  <2>1. CASE k = 0
    <3>1. a[0] = Nothing BY <1>1 DEF Summarises
    <3>2. \A field \in Plain : Nothing[field] = << >> BY NothingIsSummary DEF Plain
    <3>3. Nothing["batteryPercent"] = << >> BY NothingIsSummary, FieldSet
    <3>4. 1..0 = {} OBVIOUS
    <3> QED BY <2>1, <3>1, <3>2, <3>3, <3>4 DEF SumsUp
  <2>2. CASE k # 0
    <3>1. k - 1 \in Nat /\ k - 1 < k /\ k - 1 <= Len(items) /\ k \in 1..Len(items)
          /\ k - 1 \in 0..Len(items)
      BY <2>2, <1>2
    <3>2. SumsUp(a[k - 1], items, k - 1)
      <4> HIDE DEF SumsUp
      <4> QED BY <3>1, <1>3
    <3>3. a[k - 1] \in Summary BY <3>1
    <3>4. a[k] = SummariseItem(a[k - 1], items[k].id[1], items[k].value)
      BY <1>1, <3>1 DEF Summarises
    <3> QED BY <3>1, <3>2, <3>3, <3>4, SumsUpNext
  <2> QED BY <2>1, <2>2
<1>4. Nat \subseteq T
  <2> HIDE DEF T
  <2> QED BY <1>3, Induction
<1> QED BY <1>1, <1>2, <1>4

\* other is items in another order.
Reorders(p, items, other) ==
  /\ p \in Bijection(1..Len(items), 1..Len(items)) /\ Len(other) = Len(items)
  /\ \A i \in 1..Len(items) : other[i] = items[p[i]]

\* Two summaries of the same items agree, but for the base stations.
LEMMA SameSummary ==
  ASSUME NEW items \in Seq(Elements), NEW other \in Seq(Elements), NEW p,
         Distinct(items), Reorders(p, items, other), NEW field \in SummaryFields \ {"lbs"}
  PROVE  SummariseExtras(other)[field] = SummariseExtras(items)[field]
<1> DEFINE n == Len(items)
           s == SummariseExtras(items)
           t == SummariseExtras(other)
<1>1. /\ p \in [1..n -> 1..n] /\ \A i, j \in 1..n : p[i] = p[j] => i = j
      /\ \A k \in 1..n : \E i \in 1..n : p[i] = k
      /\ Len(other) = n /\ \A i \in 1..n : other[i] = items[p[i]]
  BY DEF Reorders, Bijection, Injection, Surjection, IsInjective
<1>2. Distinct(other)
  <2> SUFFICES ASSUME NEW i \in 1..n, NEW j \in 1..n, other[i].id[1] = other[j].id[1]
               PROVE  i = j
    BY <1>1 DEF Distinct
  <2>1. items[p[i]].id[1] = items[p[j]].id[1] /\ p[i] \in 1..n /\ p[j] \in 1..n BY <1>1
  <2>2. p[i] = p[j] BY <2>1 DEF Distinct
  <2> QED BY <2>2, <1>1
<1>3. SumsUp(s, items, n) /\ SumsUp(t, other, n) BY <1>1, <1>2, SummarySumsUp
<1> HIDE DEF s, t
<1>4. \A i \in 1..n : /\ p[i] \in 1..n
                      /\ FilledBy(other, i, field) <=> FilledBy(items, p[i], field)
                      /\ \A c : Tells(other, i, c) <=> Tells(items, p[i], c)
                      /\ other[i].value = items[p[i]].value
  BY <1>1 DEF FilledBy, Tells
<1>5. CASE field \in Plain
  <2>1. CASE \E i \in 1..n : FilledBy(other, i, field)
    <3>1. PICK i \in 1..n : FilledBy(other, i, field) BY <2>1
    <3>2. t[field] = Content(other[i].value, field) BY <3>1, <1>3, <1>5 DEF SumsUp
    <3>3. s[field] = Content(items[p[i]].value, field) BY <3>1, <1>3, <1>4, <1>5 DEF SumsUp
    <3> QED BY <3>2, <3>3, <1>4 DEF s, t
  <2>2. CASE \A i \in 1..n : ~FilledBy(other, i, field)
    <3>1. \A k \in 1..n : ~FilledBy(items, k, field) BY <2>2, <1>1, <1>4
    <3>2. t[field] = << >> /\ s[field] = << >> BY <3>1, <2>2, <1>3, <1>5 DEF SumsUp
    <3> QED BY <3>2 DEF s, t
  <2> QED BY <2>1, <2>2
<1>6. CASE field = "batteryPercent"
  <2> DEFINE b == s["batteryPercent"]
             c == t["batteryPercent"]
  <2>a. /\ \A i \in 1..n : Tells(items, i, 233) => b = items[i].value
        /\ (\A i \in 1..n : ~Tells(items, i, 233)) =>
             /\ \A i \in 1..n : Tells(items, i, 86) => b = <<10 * items[i].value[1]>>
             /\ (\A i \in 1..n : ~Tells(items, i, 86)) => b = << >>
    BY <1>3 DEF SumsUp
  <2>b. /\ \A i \in 1..n : Tells(other, i, 233) => c = other[i].value
        /\ (\A i \in 1..n : ~Tells(other, i, 233)) =>
             /\ \A i \in 1..n : Tells(other, i, 86) => c = <<10 * other[i].value[1]>>
             /\ (\A i \in 1..n : ~Tells(other, i, 86)) => c = << >>
    BY <1>3 DEF SumsUp
  <2>c. b = c => t[field] = s[field] BY <1>6
  <2> HIDE DEF b, c
  <2>1. CASE \E i \in 1..n : Tells(other, i, 233)
    <3>1. PICK i \in 1..n : Tells(other, i, 233) BY <2>1
    <3> QED BY <3>1, <1>4, <2>a, <2>b, <2>c DEF s, t
  <2>2. CASE \A i \in 1..n : ~Tells(other, i, 233)
    <3>1. \A k \in 1..n : ~Tells(items, k, 233) BY <2>2, <1>1, <1>4
    <3>2. CASE \E i \in 1..n : Tells(other, i, 86)
      <4>1. PICK i \in 1..n : Tells(other, i, 86) BY <3>2
      <4>2. c = <<10 * other[i].value[1]>> BY <4>1, <2>2, <2>b
      <4>3. b = <<10 * items[p[i]].value[1]>> BY <4>1, <3>1, <2>a, <1>4
      <4> QED BY <4>2, <4>3, <1>4, <2>c DEF s, t
    <3>3. CASE \A i \in 1..n : ~Tells(other, i, 86)
      <4>1. \A k \in 1..n : ~Tells(items, k, 86) BY <3>3, <1>1, <1>4
      <4> QED BY <4>1, <3>1, <3>3, <2>2, <2>a, <2>b, <2>c DEF s, t
    <3> QED BY <3>2, <3>3
  <2> QED BY <2>1, <2>2
<1> QED BY <1>5, <1>6 DEF Plain

\* As many ids as items: all are different.
LEMMA DistinctIds ==
  ASSUME NEW items \in Seq(Elements),
         \A i \in 1..Len(items) : Len(items[i].id) = 1,
         Cardinality({it.id : it \in ToSet(items)}) = Len(items)
  PROVE  Distinct(items)
<1> DEFINE n == Len(items)
           ids == {it.id : it \in ToSet(items)}
           f == [i \in 1..n |-> items[i].id]
<1>1. n \in Nat /\ DOMAIN items = 1..n BY LenProperties
<1>2. ids = {items[i].id : i \in 1..n} BY <1>1 DEF ToSet
<1>3. f \in [1..n -> ids] /\ \A e \in ids : \E i \in 1..n : f[i] = e BY <1>2
<1> HIDE DEF ids
<1>4. f \in Surjection(1..n, ids) BY <1>3 DEF Surjection
<1>5. IsFiniteSet(1..n) /\ Cardinality(1..n) = n
  <2>1. \A m \in Nat : IsFiniteSet(1..m) /\ Cardinality(1..m) = m
    <3> SUFFICES ASSUME NEW m \in Nat PROVE IsFiniteSet(1..m) /\ Cardinality(1..m) = m OBVIOUS
    <3>1. \A a, b \in Int : IsFiniteSet(a..b) /\ Cardinality(a..b) = IF a > b THEN 0 ELSE b - a + 1
      BY FS_Interval
    <3>2. 1 \in Int /\ m \in Int OBVIOUS
    <3>3. IsFiniteSet(1..m) /\ Cardinality(1..m) = IF 1 > m THEN 0 ELSE m - 1 + 1
      BY <3>1, <3>2, Zenon
    <3>4. (IF 1 > m THEN 0 ELSE m - 1 + 1) = m OBVIOUS
    <3> QED BY <3>3, <3>4
  <2> HIDE DEF n
  <2> QED BY <1>1, <2>1
<1>6. f \in Injection(1..n, ids)
  <2>1. Cardinality(ids) = Cardinality(1..n) BY <1>5 DEF ids
  <2> HIDE DEF f, n
  <2> QED BY <1>4, <1>5, <2>1, FS_Surjection
<1>7. ASSUME NEW i \in 1..n, NEW j \in 1..n, items[i].id[1] = items[j].id[1] PROVE i = j
  <2>1. items[i] \in Elements /\ items[j] \in Elements BY ElementOfSeq
  <2> DEFINE u == items[i].id
             v == items[j].id
  <2>2. u \in Seq(Byte) /\ v \in Seq(Byte) /\ Len(u) = 1 /\ Len(v) = 1 /\ u[1] = v[1]
    BY <2>1, <1>7 DEF Elements
  <2> HIDE DEF u, v
  <2>3. \A k \in 1..Len(u) : u[k] = v[k] BY <2>2
  <2>4. u = v BY <2>2, <2>3, SeqEqual
  <2>5. f[i] = f[j] BY <2>4 DEF u, v
  <2>6. i \in DOMAIN f /\ j \in DOMAIN f OBVIOUS
  <2> HIDE DEF f
  <2> QED BY <2>5, <2>6, <1>6 DEF Injection, IsInjective
<1> QED BY <1>7 DEF Distinct

\* The items in another order are as many, and the same.
LEMMA OtherOrder ==
  ASSUME NEW items \in Seq(Elements), NEW p \in Bijection(DOMAIN items, DOMAIN items),
         NEW other, other = [i \in DOMAIN p |-> items[p[i]]]
  PROVE  other \in Seq(Elements) /\ Reorders(p, items, other)
<1> DEFINE n == Len(items)
<1>1. n \in Nat /\ DOMAIN items = 1..n BY LenProperties
<1>2. p \in Bijection(1..n, 1..n) BY <1>1
<1>3. p \in [1..n -> 1..n] BY <1>2 DEF Bijection, Injection
<1>4. DOMAIN p = 1..n BY <1>3
<1>5. \A i \in 1..n : p[i] \in 1..n /\ items[p[i]] \in Elements
  <2> SUFFICES ASSUME NEW i \in 1..n PROVE p[i] \in 1..n /\ items[p[i]] \in Elements
    OBVIOUS
  <2>1. p[i] \in 1..n BY <1>3
  <2> QED BY <2>1, ElementOfSeq
<1>6. other = [i \in 1..n |-> items[p[i]]] BY <1>4
<1>7. other \in [1..n -> Elements] /\ \A i \in 1..n : other[i] = items[p[i]]
  BY <1>5, <1>6
<1>8. other \in Seq(Elements) /\ Len(other) = n
  <2> HIDE DEF n
  <2> QED BY <1>1, <1>7, FunctionIsSeq
<1> QED BY <1>2, <1>7, <1>8 DEF Reorders

\* The items of a report that is read are elements with ids of a byte.
LEMMA WholeItems ==
  ASSUME CodecsInv, IsRead("LOCATION_REPORT"), reading.ok
  PROVE  /\ reading.whole \in Seq(Elements)
         /\ \A i \in 1..Len(reading.whole) : Len(reading.whole[i].id) = 1
<1>1. PICK items \in Lists(Items), n \in Nat : message.of = items /\ message.body.length = 28 + n
  BY ReportData
<1>2. message.body.length - 28 = n BY <1>1
<1>3. reading.whole = Complete(items, n) BY <1>1, <1>2, ItemsRead
<1>4. IsList(items, 2) BY ItemLists
<1>5. PICK c : Holds(items, n, c) /\ Complete(items, n) = Cut(items, c)
  BY <1>4, CompleteHolds
<1>6. c \in 0..Len(items) BY <1>5 DEF Holds
<1>7. IsList(Cut(items, c), 2) BY <1>4, <1>6, CutList
<1> DEFINE whole == reading.whole
<1>8. /\ whole \in Seq(Elements)
      /\ \A i \in 1..Len(whole) : Len(whole[i].id) + 1 = 2
  BY <1>3, <1>5, <1>7 DEF IsList
<1>9. ASSUME NEW i \in 1..Len(whole) PROVE Len(whole[i].id) = 1
  <2>1. whole[i] \in Elements BY <1>8, ElementOfSeq
  <2> DEFINE id == whole[i].id
  <2>2. id \in Seq(Byte) BY <2>1 DEF Elements
  <2>3. Len(id) \in Nat BY <2>2, LenProperties
  <2>4. Len(id) + 1 = 2 BY <1>8
  <2> DEFINE l == Len(id)
  <2> HIDE DEF l
  <2>5. l \in Nat /\ l + 1 = 2 BY <2>3, <2>4 DEF l
  <2>6. l = 1 BY <2>5
  <2> QED BY <2>6 DEF l
<1> QED BY <1>8, <1>9

\* SummaryOrderFree: the items of a report in any other order have the same summary.
THEOREM SummaryIsOrderFree == CodecsSpec => []SummaryOrderFree
<1>1. ASSUME CodecsInv, IsRead("LOCATION_REPORT"), reading.ok,
             Cardinality({it.id : it \in ToSet(reading.whole)}) = Len(reading.whole),
             NEW p \in Bijection(DOMAIN reading.whole, DOMAIN reading.whole),
             NEW field \in SummaryFields \ {"lbs"}
      PROVE  SummariseExtras([i \in DOMAIN p |-> reading.whole[p[i]]])[field]
               = reading.extras[field]
  <2> DEFINE whole == reading.whole
             other == [i \in DOMAIN p |-> whole[p[i]]]
  <2>1. whole \in Seq(Elements) /\ \A i \in 1..Len(whole) : Len(whole[i].id) = 1
    BY <1>1, WholeItems
  <2>2. Cardinality({it.id : it \in ToSet(whole)}) = Len(whole) BY <1>1
  <2>3. p \in Bijection(DOMAIN whole, DOMAIN whole) BY <1>1
  <2>4. reading.extras = SummariseExtras(whole) BY <1>1, ReportData
  <2> HIDE DEF whole
  <2>5. Distinct(whole) BY <2>1, <2>2, DistinctIds
  <2>6. other \in Seq(Elements) /\ Reorders(p, whole, other) BY <2>1, <2>3, OtherOrder
  <2> HIDE DEF other
  <2>7. SummariseExtras(other)[field] = SummariseExtras(whole)[field]
    BY <2>1, <2>5, <2>6, <1>1, SameSummary
  <2> QED BY <2>4, <2>7 DEF other, whole
<1>2. CodecsInv => SummaryOrderFree
  BY <1>1, Zenon DEF SummaryOrderFree
<1> QED BY <1>2, CodecsInvariant, PTL
=============================================================================
