------------------------------- MODULE Alarms -------------------------------
(***************************************************************************)
(* The alarms of one device: server/src/services/telemetry-service.js as   *)
(* its callers use it (dispatch and onUplinkPassthrough of                 *)
(* services/protocol-handler.js, onOperationReply of command-service.js).  *)
(*                                                                         *)
(* A report is processed by the queue of its connection, one at a time: a  *)
(* sequence of jobs, each a few store statements.  Reports of two          *)
(* connections interleave at every await, when the device reconnects while *)
(* a report of its former connection is being processed.                   *)
(***************************************************************************)
EXTENDS Integers, Sequences

CONSTANTS
  Types,            \* alarm types
  Absent,           \* a part that a report does not have
  Reports,          \* what the device may report, see IsReport
  NumSessions,      \* bound: connections, in the order they are identified
  Stores,           \* in-memory store (TRUE), Postgres (FALSE), or either
  MaxReports,       \* bound: reports processed
  MaxStoreFailures  \* bound: store statements that fail

Sessions == 1..NumSessions

\* Sources whose active alarms are reconciled with each report, and the source
\* of alarm events.
Reconciled == {"location_alarm_flags", "e7_alarm_status", "lock_status",
               "voltage"}
Sources    == Reconciled \cup {"lock_upload"}

IsPart(p) == p = Absent \/ p \in SUBSET Types

\* kind: a location report, the response to a location query, a lock upload or
\* an operation reply; then the alarm conditions per source; the alarm event of
\* an upload; whether the reply is the success of a clear_alarm.  An upload or a
\* reply may bring a GPS block: alarm flags, and a lock status of its own.
IsReport(r) ==
  /\ DOMAIN r = {"kind", "flags", "e7", "lock", "voltage", "event", "clears",
               "block"}
  /\ r.kind \in {"location", "query", "upload", "reply"}
  /\ IsPart(r.flags) /\ IsPart(r.e7) /\ IsPart(r.lock) /\ IsPart(r.voltage)
  /\ IsPart(r.block)
  /\ r.event \in Types \cup {Absent} /\ r.clears \in BOOLEAN
  /\ r.kind \in {"location", "query"} =>
       /\ r.flags # Absent /\ r.voltage = Absent
       /\ r.event = Absent /\ ~r.clears /\ r.block = Absent
  /\ r.kind \in {"upload", "reply"} =>
       /\ r.e7 = Absent /\ r.lock # Absent /\ r.voltage # Absent
       /\ r.block # Absent => r.flags # Absent
  /\ r.kind = "upload" => ~r.clears
  /\ r.kind = "reply" => r.event = Absent

ASSUME AlarmsAssumption ==
  /\ Absent \notin Types /\ \A S \in SUBSET Types : Absent # S
  /\ \A r \in Reports : IsReport(r)
  /\ NumSessions \in Nat \ {0} /\ Stores \subseteq BOOLEAN
  /\ MaxReports \in Nat /\ MaxStoreFailures \in Nat

VARIABLES
  alarms,    \* rows of the alarms table: source, type, who cleared it
  lock,      \* the alarm conditions in the device row's lock_status_code
  handler,   \* what is left of the report each connection processes
  live,      \* the device's connection; those before it are closed
  reported,  \* history: what the last report said of each source, or Absent
  begun,     \* reports processed
  failures,  \* store statements that failed
  instant    \* which store it is; it does not change

used == <<begun, failures, instant>>
vars == <<alarms, lock, handler, live, reported, used>>

-----------------------------------------------------------------------------
\* Jobs.  "save" stands for statements that concern no alarm.
Job == [kind: {"save"}] \cup [kind: {"status"}, current: SUBSET Types]
       \cup [kind: {"reconcile"}, source: Reconciled, current: SUBSET Types]
       \cup [kind: {"event"}, type: Types] \cup [kind: {"clear"}]

Reconcile(source, part) ==
  IF part = Absent THEN << >>
  ELSE <<[kind |-> "reconcile", source |-> source, current |-> part]>>

\* onLockStatus: the device row, the alarms of the lock, those of the battery.
OnLockStatus(status, voltage) ==
  (IF status = Absent THEN << >>
   ELSE <<[kind |-> "status", current |-> status]>>)
  \o Reconcile("lock_status", status) \o Reconcile("voltage", voltage)

OnLocation(flags, e7, status) ==
  <<[kind |-> "save"]>> \o Reconcile("location_alarm_flags", flags)
  \o Reconcile("e7_alarm_status", e7) \o OnLockStatus(status, Absent)

\* The GPS block of an upload or a reply comes before its payload.
GPSBlock(r) ==
  IF r.flags = Absent THEN << >> ELSE OnLocation(r.flags, Absent, r.block)

\* onLocation, onLockUpload, onOperationReply.
JobsOf(r) ==
  CASE r.kind \in {"location", "query"} -> OnLocation(r.flags, r.e7, r.lock)
    [] r.kind = "upload" ->
         GPSBlock(r) \o OnLockStatus(r.lock, r.voltage)
         \o (IF r.event = Absent THEN << >>
             ELSE <<[kind |-> "event", type |-> r.event]>>)
    [] r.kind = "reply" ->
         GPSBlock(r) \o OnLockStatus(r.lock, r.voltage) \o <<[kind |-> "save"]>>
         \o (IF r.clears THEN <<[kind |-> "clear"]>> ELSE << >>)

\* What a report says of a source when it is processed alone and to its end.
Says(r) ==
  [source \in Reconciled |->
     CASE source = "location_alarm_flags" -> r.flags
       [] source = "e7_alarm_status" -> r.e7
       [] source = "lock_status" -> IF r.clears THEN {} ELSE r.lock
       [] source = "voltage" -> r.voltage]

-----------------------------------------------------------------------------
\* A handler: jobs not begun; of the current job, the alarms it will raise, then
\* those it will clear, with their source and who is recorded as clearing them.
Idle == [jobs |-> << >>, raise |-> {}, clear |-> {}, source |-> "lock_upload",
         by |-> "nobody"]

Between(s) == handler[s].raise = {} /\ handler[s].clear = {}
Busy(s)    == handler[s].jobs # << >> \/ ~Between(s)
AllIdle    == \A s \in Sessions : ~Busy(s)

\* With the in-memory store a callback starts only when no other is half way.
LoopFree == instant => AllIdle

Init ==
  /\ alarms = << >> /\ lock = {}
  /\ handler = [s \in Sessions |-> Idle]
  /\ live = 1
  /\ reported = [source \in Reconciled |-> Absent]
  /\ begun = 0 /\ failures = 0
  /\ instant \in Stores

\* activeAlarms.
ActiveAlarms == {i \in DOMAIN alarms : alarms[i].by = "nobody"}

\* The active alarms reconcile looks at.
Compared(source) == {i \in ActiveAlarms : alarms[i].source = source}

TypesOf(rows) == {alarms[i].type : i \in rows}

\* Conditions that have no active alarm, and active alarms whose condition is
\* gone.  Mutant: the check is left out.
Appeared_All(active, current) == current
Appeared(active, current) == current \ TypesOf(active)
Gone(active, current) == {i \in active : alarms[i].type \notin current}

-----------------------------------------------------------------------------
\* A report is dispatched.  The reply that comes first fails on a connection
\* that has closed; the response to a query is not replied to.
Report(s) ==
  /\ LoopFree /\ ~Busy(s) /\ begun < MaxReports
  /\ \E r \in Reports :
       /\ s = live \/ (s < live /\ r.kind = "query")
       /\ handler' = [handler EXCEPT ![s].jobs = JobsOf(r)]
       /\ reported' = [source \in Reconciled |->
                         IF Says(r)[source] = Absent THEN reported[source]
                                                     ELSE Says(r)[source]]
  /\ begun' = begun + 1
  /\ UNCHANGED <<alarms, lock, live, failures, instant>>

\* The device is identified on a new connection.
Reconnect ==
  /\ LoopFree
  /\ live < NumSessions /\ live' = live + 1
  /\ UNCHANGED <<alarms, lock, handler, reported, used>>

NextJob(s, kind) == Between(s) /\ handler[s].jobs # << >>
                    /\ Head(handler[s].jobs).kind = kind

Save(s) ==
  /\ NextJob(s, "save")
  /\ handler' = [handler EXCEPT ![s].jobs = Tail(@)]
  /\ UNCHANGED <<alarms, lock, live, reported, used>>

\* updateDevice of onLockStatus.
UpdateStatus(s) ==
  /\ NextJob(s, "status")
  /\ lock' = Head(handler[s].jobs).current
  /\ handler' = [handler EXCEPT ![s].jobs = Tail(@)]
  /\ UNCHANGED <<alarms, live, reported, used>>

Plan(s, raise, clear, source, by) ==
  handler' = [handler EXCEPT ![s] =
                [jobs |-> Tail(@.jobs), raise |-> raise, clear |-> clear,
                 source |-> source, by |-> by]]

\* reconcile has read the active alarms and knows what to write.
ReadActive(s) ==
  /\ NextJob(s, "reconcile")
  /\ LET job    == Head(handler[s].jobs)
         active == Compared(job.source)
     IN  Plan(s, Appeared(active, job.current), Gone(active, job.current),
              job.source, "device_report")
  /\ UNCHANGED <<alarms, lock, live, reported, used>>

\* The alarm event of onLockUpload, unless it is active already.
ReadEvent(s) ==
  /\ NextJob(s, "event")
  /\ LET type   == Head(handler[s].jobs).type
         active == {i \in ActiveAlarms : alarms[i].source = "lock_upload"}
     IN  Plan(s, Appeared(active, {type}), {}, "lock_upload", "nobody")
  /\ UNCHANGED <<alarms, lock, live, reported, used>>

\* clearByCommand.  Mutant: the events only.
ByCommand_Events == {"lock_upload"}
ByCommand == {"lock_upload", "lock_status"}

ReadCleared(s) ==
  /\ NextJob(s, "clear")
  /\ Plan(s, {}, {i \in ActiveAlarms : alarms[i].source \in ByCommand},
          "lock_upload", "command")
  /\ UNCHANGED <<alarms, lock, live, reported, used>>

\* raise
Raise(s) ==
  /\ \E type \in handler[s].raise :
       /\ alarms' = Append(alarms, [source |-> handler[s].source,
                                    type |-> type, by |-> "nobody"])
       /\ handler' = [handler EXCEPT ![s].raise = @ \ {type}]
  /\ UNCHANGED <<lock, live, reported, used>>

\* clearAlarm.
Cleared(i, by) == [alarms EXCEPT ![i].by = by]

Clear(s) ==
  /\ handler[s].raise = {}
  /\ \E i \in handler[s].clear :
       /\ alarms' = Cleared(i, handler[s].by)
       /\ handler' = [handler EXCEPT ![s].clear = @ \ {i}]
  /\ UNCHANGED <<lock, live, reported, used>>

\* A statement fails: dispatch catches the error, the rest is not done.  What
\* the table says of the sources of this report is no longer known.
StoreFails(s) ==
  /\ Busy(s) /\ failures < MaxStoreFailures
  /\ failures' = failures + 1
  /\ handler' = [handler EXCEPT ![s] = Idle]
  /\ reported' = [source \in Reconciled |-> Absent]
  /\ UNCHANGED <<alarms, lock, live, begun, instant>>

Step(s) == Save(s) \/ UpdateStatus(s) \/ ReadActive(s) \/ ReadEvent(s)
           \/ ReadCleared(s) \/ Raise(s) \/ Clear(s)

Next == Reconnect \/ \E s \in Sessions : Report(s) \/ Step(s) \/ StoreFails(s)

Spec == Init /\ [][Next]_vars

-----------------------------------------------------------------------------
(***************************************************************************)
(* Properties                                                              *)
(***************************************************************************)

Alarm == [source: Sources, type: Types,
          by: {"nobody", "device_report", "command"}]

\* A handler refers to rows that exist.
HandlerOK(h) ==
  /\ h.jobs \in Seq(Job)
  /\ h.raise \subseteq Types /\ h.clear \subseteq DOMAIN alarms
  /\ h.source \in Sources /\ h.by \in {"nobody", "device_report", "command"}
  /\ h.clear # {} => h.by # "nobody"

TypeOK ==
  /\ alarms \in Seq(Alarm)
  /\ lock \subseteq Types
  /\ DOMAIN handler = Sessions /\ \A s \in Sessions : HandlerOK(handler[s])
  /\ live \in Sessions
  /\ DOMAIN reported = Reconciled
  /\ \A source \in Reconciled : IsPart(reported[source])
  /\ begun \in Nat /\ failures \in Nat /\ instant \in Stores

\* Reports are processed one after the other: over one connection, or with
\* atomic store operations.  (With Postgres a report of a former connection
\* and one of the new one interleave: each may raise the same alarm, and the
\* older may be the last to write.)
OneByOne == instant \/ live = 1

\* A condition that is there has one active alarm, however often it is reported.
OneActiveRow ==
  OneByOne => \A i, j \in ActiveAlarms :
    alarms[i].source = alarms[j].source /\ alarms[i].type = alarms[j].type
      => i = j

\* When no report is being processed, the active alarms of a source are those
\* the last report about it gave, or none after a clear_alarm; and none of those
\* of the lock is denied by the lock status in the device row.
AlarmsMatchReport ==
  AllIdle /\ OneByOne =>
    /\ \A source \in Reconciled : reported[source] # Absent =>
         TypesOf({i \in ActiveAlarms : alarms[i].source = source})
           = reported[source]
    /\ failures = 0 =>
         TypesOf({i \in ActiveAlarms : alarms[i].source = "lock_status"})
           \subseteq lock

=============================================================================
