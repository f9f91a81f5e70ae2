------------------------------ MODULE Sessions ------------------------------
(***************************************************************************)
(* Connections, sessions and devices: server/src/tcp-listener/ with        *)
(* identify, the first half of handleItem and onDisconnect of              *)
(* services/protocol-handler.js, and the shutdown of platform.js.          *)
(*                                                                         *)
(* Each session has a queue of tasks that run one after the other: first   *)
(* the INSERT of its row, then its frames, last its disconnection.  Tasks  *)
(* of different sessions interleave at every await.  A step of a task      *)
(* applies the statement it awaits and runs on to the next await; where    *)
(* the order of the two matters they are separate steps.                   *)
(***************************************************************************)
EXTENDS Integers, Sequences

CONSTANTS
  Devices,          \* terminal IDs
  NoDevice,         \* absent device
  NumSessions,      \* bound: connections accepted, in the order 1..NumSessions
  Setups,           \* the installations considered, see Setup
  MayStop,          \* may the process be told to stop?
  SlowStop,         \* may disconnections then take more than 5 s?
  MaxFrames         \* bound: frames received over each connection

Sessions  == 1..NumSessions
NoSession == 0

\* An installation: the terminal IDs the frames of each connection may carry,
\* the devices that have a row from the start, whether the store is the
\* in-memory one or Postgres, and a bound on the statements that fail (none of
\* the in-memory store, but for the INSERT of DeviceCreated).
Setup == [ids: [Sessions -> SUBSET Devices], known: SUBSET Devices,
          instant: BOOLEAN, failures: Nat]

ASSUME SessionsAssumption ==
  /\ NoDevice \notin Devices
  /\ NumSessions \in Nat
  /\ Setups \subseteq Setup
  /\ \A i \in Setups : i.instant => i.failures = 0
  /\ MayStop \in BOOLEAN /\ SlowStop \in BOOLEAN
  /\ MaxFrames \in Nat

VARIABLES
  conn,       \* the socket: open, destroyed by us, closed ('close' emitted)
  queue,      \* Session.queue: the tasks that have not begun
  step,       \* what the running task of the session awaits
  tid,        \* terminal ID in the frame being processed
  terminal,   \* session.terminalId
  device,     \* session.device
  recorded,   \* session.dbId: it has a row
  all,        \* SessionManager.all
  byDevice,   \* SessionManager.byDevice
  exists,     \* rows of the devices table
  online,     \* their connection_status
  ended,      \* sessions whose row has a disconnected_at
  finished,   \* sessions whose promise `finished` is resolved
  stop,       \* TcpListener.stop and the end of the process
  awaited,    \* the sessions it waits for
  received,   \* frames received per connection
  failures,   \* store statements that failed
  setup       \* the installation, which does not change

session == <<terminal, device, recorded>>
manager == <<all, byDevice>>
tables  == <<exists, online, ended>>
ending  == <<finished, stop, awaited>>
used    == <<received, failures, setup>>
vars    == <<conn, queue, step, tid, session, manager, tables, ending, used>>

-----------------------------------------------------------------------------
DeviceOrNone == Devices \cup {NoDevice}

\* A frame names its terminal.
Task == [kind: {"create", "disconnect"}, tid: {NoDevice}]
        \cup [kind: {"frame"}, tid: Devices]

\* Statements a task may be waiting for, with the two resumptions ("found",
\* "checking") that read what others change.
Identifying == {"finding", "inserting", "found", "attaching", "attributing"}
Leaving     == {"ending", "checking", "offline"}
Statements  == {"creating", "finding", "inserting", "attaching", "attributing",
                "seeing", "ending", "offline"}

\* With the in-memory store a callback starts only when no other is half way,
\* and once the process stops its store is gone.
LoopFree == setup.instant => \A s \in Sessions :
                               step[s] = "idle" /\ queue[s] = << >>

GetByDeviceId(d) ==
  IF byDevice[d] # NoSession /\ conn[byDevice[d]] # "closed"
  THEN byDevice[d] ELSE NoSession

Enqueue(s, t) == queue' = [queue EXCEPT ![s] = Append(@, t)]

\* Session.close: nothing for a closed session; the socket is destroyed, and
\* its 'close' event follows.
Destroyed(S) ==
  [s \in Sessions |-> IF s \in S /\ conn[s] = "open" THEN "destroyed"
                                                     ELSE conn[s]]

Goto(s, label) == step' = [step EXCEPT ![s] = label]

-----------------------------------------------------------------------------
Init ==
  /\ conn = [s \in Sessions |-> "none"]
  /\ queue = [s \in Sessions |-> << >>]
  /\ step = [s \in Sessions |-> "idle"]
  /\ tid = [s \in Sessions |-> NoDevice]
  /\ terminal = [s \in Sessions |-> NoDevice]
  /\ device = [s \in Sessions |-> NoDevice]
  /\ recorded = [s \in Sessions |-> FALSE]
  /\ all = {}
  /\ byDevice = [d \in Devices |-> NoSession]
  /\ setup \in Setups
  /\ exists = setup.known
  /\ online = [d \in Devices |-> FALSE]
  /\ ended = {}
  /\ finished = {}
  /\ stop = "running"
  /\ awaited = {}
  /\ received = [s \in Sessions |-> 0]
  /\ failures = 0

-----------------------------------------------------------------------------
(***************************************************************************)
(* Events of the sockets                                                   *)
(***************************************************************************)

\* onConnection: the session is registered and its row will be created.
OnConnection(s) ==
  /\ LoopFree /\ stop = "running"
  /\ conn[s] = "none" /\ \A t \in Sessions : t < s => conn[t] # "none"
  /\ conn' = [conn EXCEPT ![s] = "open"]
  /\ all' = all \cup {s}
  /\ Enqueue(s, [kind |-> "create", tid |-> NoDevice])
  /\ UNCHANGED <<step, tid, session, byDevice, tables, ending, used>>

\* A frame is complete.  Only an open socket delivers data.
OnData(s) ==
  /\ LoopFree
  /\ conn[s] = "open" /\ received[s] < MaxFrames
  /\ received' = [received EXCEPT ![s] = @ + 1]
  /\ \E d \in setup.ids[s] : Enqueue(s, [kind |-> "frame", tid |-> d])
  /\ UNCHANGED <<conn, step, tid, session, manager, tables, ending, failures,
                 setup>>

\* The 'close' event, after the peer closed or the socket was destroyed.
OnClose(s) ==
  /\ LoopFree
  /\ conn[s] \in {"open", "destroyed"}
  /\ conn' = [conn EXCEPT ![s] = "closed"]
  /\ Enqueue(s, [kind |-> "disconnect", tid |-> NoDevice])
  /\ UNCHANGED <<step, tid, session, manager, tables, ending, used>>

\* sweep: no frame for DEVICE_OFFLINE_TIMEOUT_S, on any of the connections.
Sweep ==
  /\ LoopFree /\ stop = "running"
  /\ \E S \in SUBSET {s \in Sessions : conn[s] = "open"} :
       S # {} /\ conn' = Destroyed(S)
  /\ UNCHANGED <<queue, step, tid, session, manager, tables, ending, used>>

-----------------------------------------------------------------------------
(***************************************************************************)
(* The tasks of a session                                                  *)
(***************************************************************************)

\* Session.enqueue runs a task when the one before it has ended.
Dequeue(s, kind) ==
  /\ step[s] = "idle" /\ queue[s] # << >> /\ Head(queue[s]).kind = kind
  /\ queue' = [queue EXCEPT ![s] = Tail(@)]

Create(s) ==
  /\ Dequeue(s, "create") /\ Goto(s, "creating")
  /\ UNCHANGED <<conn, tid, session, manager, tables, ending, used>>

Created(s) ==
  /\ step[s] = "creating" /\ Goto(s, "idle")
  /\ recorded' = [recorded EXCEPT ![s] = TRUE]
  /\ UNCHANGED <<conn, queue, tid, terminal, device, manager, tables, ending,
                 used>>

\* identify returns at once for a terminal ID it knows of this connection.
\* Mutant: only the first frame is identified.
Identified_Once(s, d)  == device[s] # NoDevice
Identified(s, d) == terminal[s] = d /\ device[s] # NoDevice

HandleItem(s) ==
  /\ Dequeue(s, "frame")
  /\ LET d == Head(queue[s]).tid
     IN  /\ tid' = [tid EXCEPT ![s] = d]
         /\ Goto(s, IF Identified(s, d) THEN "logging" ELSE "finding")
  /\ UNCHANGED <<conn, session, manager, tables, ending, used>>

\* getDeviceByTerminalId; an unknown device is created.
DeviceLookedUp(s) ==
  /\ step[s] = "finding"
  /\ Goto(s, IF tid[s] \in exists THEN "found" ELSE "inserting")
  /\ UNCHANGED <<conn, queue, tid, session, manager, tables, ending, used>>

\* terminal_id is unique: a second INSERT fails, and identify with it.
DeviceCreated(s) ==
  /\ step[s] = "inserting"
  /\ Goto(s, IF tid[s] \in exists THEN "idle" ELSE "found")
  /\ exists' = exists \cup {tid[s]}
  /\ UNCHANGED <<conn, queue, tid, session, manager, online, ended, ending,
                 used>>

\* bind: the session bound before, if it is another, is closed.
Bind(s) ==
  /\ step[s] = "found" /\ Goto(s, "attaching")
  /\ terminal' = [terminal EXCEPT ![s] = tid[s]]
  /\ conn' = Destroyed({byDevice[tid[s]]} \ {s})
  /\ byDevice' = [byDevice EXCEPT ![tid[s]] = s]
  /\ UNCHANGED <<queue, tid, device, recorded, all, tables, ending, used>>

Attached(s) ==
  /\ step[s] = "attaching"
  /\ online' = [online EXCEPT ![tid[s]] = TRUE]
  /\ device' = [device EXCEPT ![s] = tid[s]]
  /\ Goto(s, IF recorded[s] THEN "attributing" ELSE "logging")
  /\ UNCHANGED <<conn, queue, tid, terminal, recorded, manager, exists, ended,
                 ending, used>>

Attributed(s) ==
  /\ step[s] = "attributing" /\ Goto(s, "logging")
  /\ UNCHANGED <<conn, queue, tid, session, manager, tables, ending, used>>

\* messageLog.rx, which swallows a failure.
Logged(s) ==
  /\ step[s] = "logging" /\ Goto(s, "seeing")
  /\ UNCHANGED <<conn, queue, tid, session, manager, tables, ending, used>>

\* last_seen_at and connection_status; the dispatch that follows changes
\* nothing here.
Seen(s) ==
  /\ step[s] = "seeing" /\ Goto(s, "idle")
  /\ online' = [online EXCEPT ![device[s]] = TRUE]
  /\ UNCHANGED <<conn, queue, tid, session, manager, exists, ended, ending,
                 used>>

\* remove: out of `all`, and out of byDevice unless another session took over.
\* Mutant: whoever is bound.
Released_Always(s) == [byDevice EXCEPT ![device[s]] = NoSession]
Released(s) ==
  IF device[s] # NoDevice /\ byDevice[device[s]] = s
  THEN [byDevice EXCEPT ![device[s]] = NoSession] ELSE byDevice

OnDisconnect(s) ==
  /\ Dequeue(s, "disconnect")
  /\ all' = all \ {s}
  /\ byDevice' = Released(s)
  /\ Goto(s, IF recorded[s] THEN "ending" ELSE "checking")
  /\ UNCHANGED <<conn, tid, session, tables, ending, used>>

SessionEnded(s) ==
  /\ step[s] = "ending" /\ Goto(s, "checking")
  /\ ended' = ended \cup {s}
  /\ UNCHANGED <<conn, queue, tid, session, manager, exists, online, ending,
                 used>>

\* The device is offline unless another session of it is live.
\* Mutant: unless any session is live.
OfflineDue_Alone(s)  == device[s] # NoDevice /\ all = {}
OfflineDue(s) ==
  device[s] # NoDevice /\ GetByDeviceId(device[s]) = NoSession

Checked(s) ==
  /\ step[s] = "checking"
  /\ IF OfflineDue(s) THEN Goto(s, "offline") /\ UNCHANGED finished
     ELSE Goto(s, "idle") /\ finished' = finished \cup {s}
  /\ UNCHANGED <<conn, queue, tid, session, manager, tables, stop, awaited, used>>

SetOffline(s) ==
  /\ step[s] = "offline" /\ Goto(s, "idle")
  /\ online' = [online EXCEPT ![device[s]] = FALSE]
  /\ finished' = finished \cup {s}
  /\ UNCHANGED <<conn, queue, tid, session, manager, exists, ended, stop,
                 awaited, used>>

\* A failed statement ends its task: the queue catches the error and goes on,
\* and a disconnection is finished whatever happened to it.
\* Mutant: a failed disconnection is not marked as finished.
FinishedByFailure_Never(s) == finished
FinishedByFailure(s) == IF step[s] \in Leaving THEN finished \cup {s}
                        ELSE finished

Fails(s) ==
  /\ step[s] \in Statements /\ Goto(s, "idle")
  /\ finished' = FinishedByFailure(s)
  /\ UNCHANGED <<conn, queue, tid, session, manager, tables, stop, awaited,
                 received, setup>>

StoreFails(s) ==
  /\ failures < setup.failures /\ failures' = failures + 1
  /\ Fails(s)

-----------------------------------------------------------------------------
(***************************************************************************)
(* Shutdown                                                                *)
(***************************************************************************)

\* stop: the sessions known now are closed, and waited for.
StopBegins ==
  /\ LoopFree /\ MayStop /\ stop = "running"
  /\ stop' = "stopping"
  /\ awaited' = all
  /\ conn' = Destroyed(all)
  /\ UNCHANGED <<queue, step, tid, session, manager, tables, finished, used>>

\* The server has no connection left and the sessions have finished, or the
\* 5 s allowed for it are over: the store is closed, and the process exits.
StopEnds ==
  /\ LoopFree /\ stop = "stopping"
  /\ \A s \in Sessions : conn[s] \in {"none", "closed"}
  /\ awaited \subseteq finished \/ SlowStop
  /\ stop' = "stopped"
  /\ UNCHANGED <<conn, queue, step, tid, session, manager, tables, finished,
                 awaited, used>>

-----------------------------------------------------------------------------
TaskStep(s) ==
  \/ Create(s) \/ Created(s) \/ HandleItem(s) \/ DeviceLookedUp(s)
  \/ DeviceCreated(s) \/ Bind(s) \/ Attached(s) \/ Attributed(s) \/ Logged(s)
  \/ Seen(s) \/ OnDisconnect(s) \/ SessionEnded(s) \/ Checked(s)
  \/ SetOffline(s)

Next ==
  \/ /\ stop # "stopped"
     /\ \E s \in Sessions :
          \/ OnConnection(s) \/ OnData(s) \/ OnClose(s)
          \/ TaskStep(s) \/ StoreFails(s)
  \/ Sweep \/ StopBegins \/ StopEnds

Spec == Init /\ [][Next]_vars

\* Tasks go on as their statements end; a destroyed socket emits 'close'.
Fairness ==
  \A s \in Sessions :
    /\ WF_vars(stop # "stopped" /\ TaskStep(s))
    /\ WF_vars(stop # "stopped" /\ conn[s] = "destroyed" /\ OnClose(s))

FairSpec == Spec /\ Fairness

-----------------------------------------------------------------------------
(***************************************************************************)
(* Properties                                                              *)
(***************************************************************************)

TypeOK ==
  /\ conn \in [Sessions -> {"none", "open", "destroyed", "closed"}]
  /\ queue \in [Sessions -> Seq(Task)]
  /\ step \in [Sessions -> {"idle", "logging"} \cup Statements \cup Identifying
                           \cup Leaving]
  /\ tid \in [Sessions -> DeviceOrNone]
  /\ terminal \in [Sessions -> DeviceOrNone]
  /\ device \in [Sessions -> DeviceOrNone]
  /\ recorded \in [Sessions -> BOOLEAN]
  /\ all \subseteq Sessions
  /\ byDevice \in [Devices -> Sessions \cup {NoSession}]
  /\ exists \subseteq Devices
  /\ online \in [Devices -> BOOLEAN]
  /\ ended \subseteq Sessions /\ finished \subseteq Sessions
  /\ stop \in {"running", "stopping", "stopped"}
  /\ awaited \subseteq Sessions
  /\ received \in [Sessions -> Nat] /\ failures \in Nat
  /\ setup \in Setups
  /\ \A s \in Sessions :
       step[s] \in {"logging", "seeing", "offline"} => device[s] \in Devices

\* Nothing is left to do: every task has run, no socket is about to close.
Quiet ==
  /\ \A s \in Sessions : queue[s] = << >> /\ step[s] = "idle"
                         /\ conn[s] # "destroyed"
  /\ stop # "stopped"

\* An identified connection that is still open is the one commands go to,
\* whatever the ends of older connections of the device do meanwhile.
OpenIsBound ==
  \A s \in Sessions : conn[s] = "open" /\ terminal[s] # NoDevice
                        => byDevice[terminal[s]] = s

OneTerminalEach == \A s \in Sessions : \E d \in Devices : setup.ids[s] = {d}

\* When all is quiet, a device is marked online if and only if it has a
\* connection, in whatever order the frames and the end of its connections were
\* processed.  A connection that changed its terminal ID may leave a mark, for
\* only its last device is marked offline; and with Postgres the UPDATE to
\* offline may take effect after a new connection's UPDATE to online.
OnlineIsConnected ==
  Quiet => \A d \in Devices :
    /\ failures = 0 /\ OneTerminalEach /\ online[d] => GetByDeviceId(d) # NoSession
    /\ setup.instant /\ GetByDeviceId(d) # NoSession => online[d]

\* A frame is logged and processed for the device whose terminal ID it carries.
FramesGoToTheirDevice ==
  failures = 0 =>
    \A s \in Sessions : step[s] \in {"logging", "seeing"} => device[s] = tid[s]

\* Every connection that closes is processed to its end, even when the store
\* fails, unless the process ends first.
SessionsFinish ==
  \A s \in Sessions : conn[s] = "closed" ~> s \in finished \/ stop = "stopped"

=============================================================================
