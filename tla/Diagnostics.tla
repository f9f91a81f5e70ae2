---------------------------- MODULE Diagnostics ----------------------------
(***************************************************************************)
(* Diagnostic requests to one device: request, waitForResponse and         *)
(* resolveWaiter of server/src/services/protocol-handler.js.               *)
(*                                                                         *)
(* A request is written by a task of its session's queue and registers its *)
(* waiter when that task ends, with the serial the frame was given; the    *)
(* response is processed by a later task of the same queue.  Nothing but   *)
(* the queue orders the two.                                               *)
(***************************************************************************)
EXTENDS Integers, Sequences

CONSTANTS
  Requests,         \* calls of request
  NoRequest,        \* the time sync that follows an authentication
  KindOf,           \* the kind of each call
  MaxSerial,        \* largest serial of a connection (0xffff in the code)
  NumSessions,      \* bound: connections of the device, one after the other
  MaxSyncs,         \* bound: time syncs after an authentication
  MaxStoreFailures  \* bound: store statements that fail

Sessions == 1..NumSessions
Callers  == Requests \cup {NoRequest}
Serials  == 0..MaxSerial
Kinds    == {"query_params", "query_location", "time_sync", "text"}

ASSUME DiagnosticsAssumption ==
  /\ NoRequest \notin Requests
  /\ KindOf \in [Requests -> Kinds]
  /\ MaxSerial \in Nat \ {0} /\ NumSessions \in Nat \ {0}
  /\ MaxSyncs \in Nat /\ MaxStoreFailures \in Nat

VARIABLES
  call,      \* state of each call of request
  waiters,   \* ProtocolHandler.waiters: keys and the calls they resolve
  answer,    \* history: whose frame the response of a call answered
  live,      \* the device's connection; those before it have closed
  closed,    \* connections whose socket has closed
  queue,     \* tasks of each session
  sending,   \* the frame whose tx row is being inserted, if any
  receiving, \* the response being processed, if any
  serial,    \* Session.serial
  down, up,  \* frames to and from the device
  syncs,     \* time syncs scheduled
  failures   \* store statements that failed

calls   == <<call, waiters, answer>>
session == <<queue, sending, receiving, serial>>
network == <<live, closed, down, up>>
used    == <<syncs, failures>>
vars    == <<calls, session, network, used>>

-----------------------------------------------------------------------------
\* The message that answers a request.
ResponseTo(kind) ==
  CASE kind = "query_params" -> "0x0104"
    [] kind = "query_location" -> "0x0201"
    [] kind \in {"time_sync", "text"} -> "0x0001"

KindOfCaller(r) == IF r = NoRequest THEN "time_sync" ELSE KindOf[r]

\* A frame of the platform and the device's response to it.
Frame    == [from: Callers, serial: Nat]
Response == [from: Callers, serial: Nat, msg: {"0x0001", "0x0104", "0x0201"}]
Task     == [kind: {"send"}, from: Callers] \cup [kind: {"rx"}, rx: Response]

None == << >>

\* Mutant: the session is no part of the key.
Key_NoSession(s, msg, n) == [session |-> 0, msg |-> msg, serial |-> n]
Key(s, msg, n) == [session |-> s, msg |-> msg, serial |-> n]

\* Tasks of a queue run one after the other.
\* Mutant: a frame is sent without waiting for its turn.
Free_Rx(s) == receiving[s] = None
Free(s) == sending[s] = None /\ receiving[s] = None

Enqueue(s, t) == queue' = [queue EXCEPT ![s] = Append(@, t)]

-----------------------------------------------------------------------------
Init ==
  /\ call = [r \in Requests |-> "idle"]
  /\ waiters = {}
  /\ answer = [r \in Requests |-> r]
  /\ live = 1 /\ closed = {}
  /\ queue = [s \in Sessions |-> << >>]
  /\ sending = [s \in Sessions |-> None]
  /\ receiving = [s \in Sessions |-> None]
  /\ serial = [s \in Sessions |-> 0]
  /\ down = [s \in Sessions |-> << >>]
  /\ up = [s \in Sessions |-> << >>]
  /\ syncs = 0 /\ failures = 0

\* request: refused without a live session, else its frame waits for its turn.
Request(r) ==
  /\ call[r] = "idle"
  /\ IF live \in closed
     THEN call' = [call EXCEPT ![r] = "refused"] /\ UNCHANGED queue
     ELSE /\ call' = [call EXCEPT ![r] = "queued"]
          /\ Enqueue(live, [kind |-> "send", from |-> r])
  /\ UNCHANGED <<waiters, answer, sending, receiving, serial, network, used>>

\* The time sync scheduled by an accepted authentication.
TimeSync ==
  /\ syncs < MaxSyncs /\ syncs' = syncs + 1
  /\ Enqueue(live, [kind |-> "send", from |-> NoRequest])
  /\ UNCHANGED <<calls, sending, receiving, serial, network, failures>>

NextTask(s, kind) ==
  /\ Free(s) /\ queue[s] # << >> /\ Head(queue[s]).kind = kind
  /\ queue' = [queue EXCEPT ![s] = Tail(@)]

\* send on a session that has closed: write throws, or sendTimeSync gives null,
\* and the call fails.  Mutant: the caller does not hear of it.
Rejected_Unheard(r) == call
Rejected(r) == [q \in Requests |-> IF q = r THEN "failed" ELSE call[q]]

SendFails(s) ==
  /\ s \in closed /\ NextTask(s, "send")
  /\ call' = Rejected(Head(queue[s]).from)
  /\ UNCHANGED <<waiters, answer, sending, receiving, serial, network, used>>

Send(s) ==
  /\ s \notin closed /\ NextTask(s, "send")
  /\ LET f == [from |-> Head(queue[s]).from, serial |-> serial[s]]
     IN  /\ sending' = [sending EXCEPT ![s] = f]
         /\ down' = [down EXCEPT ![s] = Append(@, f)]
  /\ serial' = [serial EXCEPT ![s] = (@ + 1) % (MaxSerial + 1)]
  /\ UNCHANGED <<calls, receiving, live, closed, up, used>>

\* The tx row is inserted (or that failed, which is swallowed); the call goes on
\* to waitForResponse before the next task of the queue begins.
Sent(s) ==
  /\ sending[s] # None
  /\ LET f == sending[s]
     IN  IF f.from = NoRequest THEN UNCHANGED <<call, waiters>>
         ELSE /\ call' = [call EXCEPT ![f.from] = "waiting"]
              /\ waiters' = waiters \cup
                   {[key |-> Key(s, ResponseTo(KindOf[f.from]), f.serial),
                     call |-> f.from]}
  /\ sending' = [sending EXCEPT ![s] = None]
  /\ UNCHANGED <<answer, queue, receiving, serial, network, used>>

\* The timer of waitForResponse.
Forgotten(r) == {w \in waiters : w.call # r}

Timeout(r) ==
  /\ call[r] = "waiting"
  /\ call' = [call EXCEPT ![r] = "no_response"]
  /\ waiters' = Forgotten(r)
  /\ UNCHANGED <<answer, session, network, used>>

\* A response has arrived and waits for its turn.
OnData(s) ==
  /\ s \notin closed /\ up[s] # << >>
  /\ up' = [up EXCEPT ![s] = Tail(@)]
  /\ Enqueue(s, [kind |-> "rx", rx |-> Head(up[s])])
  /\ UNCHANGED <<calls, sending, receiving, serial, live, closed, down, used>>

HandleItem(s) ==
  /\ NextTask(s, "rx")
  /\ receiving' = [receiving EXCEPT ![s] = Head(queue[s]).rx]
  /\ UNCHANGED <<calls, sending, serial, network, used>>

\* resolveWaiter, at the end of handleItem.
Resolved(found) == waiters \ found

ResolveWaiter(s) ==
  /\ receiving[s] # None
  /\ LET rx    == receiving[s]
         found == {w \in waiters : w.key = Key(s, rx.msg, rx.serial)}
     IN  /\ waiters' = Resolved(found)
         /\ call' = [r \in Requests |-> IF \E w \in found : w.call = r
                                        THEN "answered" ELSE call[r]]
         /\ answer' = [r \in Requests |-> IF \E w \in found : w.call = r
                                          THEN rx.from ELSE answer[r]]
  /\ receiving' = [receiving EXCEPT ![s] = None]
  /\ UNCHANGED <<queue, sending, serial, network, used>>

\* A statement of handleItem fails before the waiter is looked for.
StoreFails(s) ==
  /\ receiving[s] # None /\ failures < MaxStoreFailures
  /\ failures' = failures + 1
  /\ receiving' = [receiving EXCEPT ![s] = None]
  /\ UNCHANGED <<calls, queue, sending, serial, network, syncs>>

\* The device answers a frame, by the message for it or, when it does not know
\* the request, by a 0x0001.
DeviceAnswers(s) ==
  /\ down[s] # << >> /\ down' = [down EXCEPT ![s] = Tail(@)]
  /\ LET f == Head(down[s])
     IN  \E msg \in {"0x0001", ResponseTo(KindOfCaller(f.from))} :
           up' = [up EXCEPT ![s] = Append(@, [from |-> f.from,
                                              serial |-> f.serial,
                                              msg |-> msg])]
  /\ UNCHANGED <<calls, session, live, closed, used>>

\* The connection closes; what was in transit is lost.
Close ==
  /\ live \notin closed /\ closed' = closed \cup {live}
  /\ down' = [down EXCEPT ![live] = << >>]
  /\ up' = [up EXCEPT ![live] = << >>]
  /\ UNCHANGED <<calls, session, live, used>>

\* The device connects again.
Connect ==
  /\ live \in closed /\ live < NumSessions /\ live' = live + 1
  /\ UNCHANGED <<calls, session, closed, down, up, used>>

-----------------------------------------------------------------------------
QueueStep(s) == SendFails(s) \/ Send(s) \/ Sent(s) \/ HandleItem(s)
                \/ ResolveWaiter(s)

Next ==
  \/ \E r \in Requests : Request(r) \/ Timeout(r)
  \/ \E s \in Sessions :
       QueueStep(s) \/ OnData(s) \/ StoreFails(s) \/ DeviceAnswers(s)
  \/ TimeSync \/ Close \/ Connect

Spec == Init /\ [][Next]_vars

\* The event loop goes on with every task, and timers fire.
Fairness == /\ \A s \in Sessions : WF_vars(QueueStep(s) \/ StoreFails(s))
            /\ \A r \in Requests : WF_vars(Timeout(r))

FairSpec == Spec /\ Fairness

-----------------------------------------------------------------------------
(***************************************************************************)
(* Properties                                                              *)
(***************************************************************************)

Done == {"answered", "no_response", "failed", "refused"}

TypeOK ==
  /\ call \in [Requests -> {"idle", "queued", "waiting"} \cup Done]
  /\ \A w \in waiters : w.call \in Requests /\ w.key.session \in Sessions
                        /\ w.key.serial < serial[w.key.session]
  /\ answer \in [Requests -> Callers]
  /\ live \in Sessions /\ closed \subseteq Sessions
  /\ queue \in [Sessions -> Seq(Task)]
  /\ sending \in [Sessions -> Frame \cup {None}]
  /\ receiving \in [Sessions -> Response \cup {None}]
  /\ serial \in [Sessions -> Serials]
  /\ down \in [Sessions -> Seq(Frame)] /\ up \in [Sessions -> Seq(Response)]
  /\ syncs \in Nat /\ failures \in Nat

\* No response is processed before the call it answers has registered for it,
\* although the registration follows the transmission.
NoResponseTooEarly ==
  \A s \in Sessions : receiving[s] # None /\ receiving[s].from \in Requests
    => call[receiving[s].from] \in {"waiting"} \cup Done

\* A call is given the response to its own frame, never that of another call,
\* of a time sync or of another connection.
AnswersAreOwn == \A r \in Requests : answer[r] = r

\* Every call ends, whatever becomes of the connection and the device.
CallsEnd == \A r \in Requests : call[r] = "queued" ~> call[r] \in Done

=============================================================================
