--------------------------- MODULE CommandService ---------------------------
(***************************************************************************)
(* Lock commands of one device: server/src/services/command-service.js,    *)
(* with the parts of protocol-handler.js that carry its frames.            *)
(*                                                                         *)
(* The server is one event loop.  Every `await` of a store operation lets  *)
(* other callbacks run, and with Postgres (a pool of connections) the      *)
(* statements of different callbacks take effect in any order.  So an      *)
(* awaited statement is two steps: the database applies it, and later the  *)
(* callback goes on.  With the in-memory store (InstantStore) an await is  *)
(* only a microtask: a callback runs to its end before the next one.       *)
(***************************************************************************)
EXTENDS Integers, Sequences

CONSTANTS
  Commands,          \* command rows: one call of execute each
  Sessions,          \* TCP connections of the device, each used once
  NoCommand,         \* absent command
  NoSession,         \* absent session
  Types,             \* 'seal', 'unseal', 'clear_alarm'
  TypeOf,            \* the command_type of each request
  Waits,             \* the requests with ?wait=true
  MaxSerial,         \* largest business serial (0xffff in the code)
  StartSerials,      \* what the random start of a process may be
  EchoSerial,        \* does the device echo the business serial?
  AckResults,        \* whether the device's 0x0001 may accept, refuse
  LockResults,       \* whether its operations may succeed, fail
  InstantStore,      \* in-memory store (TRUE) or Postgres (FALSE)
  PromptCalls,       \* does execute always return before the timer is due?
  MaxKeypad,         \* bound: operations at the lock's own keypad
  MaxRetransmit,     \* bound: replies the device sends a second time
  MaxDisconnects,    \* bound: connections lost and not at once replaced
  MaxRestarts,       \* bound: restarts of the server process
  MaxDays,           \* bound: how often a day passes
  MaxStoreFailures   \* bound: store statements that fail

ASSUME CommandAssumption ==
  /\ NoCommand \notin Commands
  /\ NoSession \notin Sessions
  /\ Types # {} /\ TypeOf \in [Commands -> Types]
  /\ MaxSerial \in Nat \ {0}
  /\ StartSerials \subseteq 0..MaxSerial /\ StartSerials # {}
  /\ Waits \subseteq Commands
  /\ EchoSerial \in BOOLEAN /\ InstantStore \in BOOLEAN
  /\ PromptCalls \in BOOLEAN
  /\ AckResults \subseteq BOOLEAN /\ LockResults \subseteq BOOLEAN
  /\ MaxKeypad \in Nat /\ MaxRetransmit \in Nat /\ MaxDisconnects \in Nat
  /\ MaxRestarts \in Nat /\ MaxDays \in Nat /\ MaxStoreFailures \in Nat
  /\ InstantStore => MaxRestarts = 0   \* its rows do not outlive the process

VARIABLES
  rows,        \* the commands table
  inserted,    \* its rows in the order of requested_at
  old,         \* the commands requested more than a day ago
  pc,          \* where the call of execute (and of waitFor) stands
  serial,      \* business serial of the command, 0 before it has one
  target,      \* the session execute took for the command
  pending,     \* business serial -> command: the map CommandService.pending
  acked,       \* entry.acked
  timer,       \* entry.timer, and the onTimeout call it makes
  written,     \* commands in the order their frames were written; it is the
               \* order of entry.jt808Serial among those of one session
  bizSerial,   \* last business serial of this process, NoSerial if none
  currentKey,  \* the seal command whose key devices.current_key holds
  link,        \* the connection of each session
  current,     \* the live session of the device: sessions.getByDeviceId
  down,        \* 0x8900 frames of each session on their way to the device
  up,          \* the device's frames of each session, not yet processed
  handler,     \* the handleItem call of each session
  lock,        \* what the lock did with each command
  credit,      \* the command whose operation completed the row (history)
  used         \* how much of the bounds is used up, and how many replies came
               \* more than a day after their request (history)

calls  == <<pc, target, serial, bizSerial, written>>
entries == <<pending, acked, timer>>
store  == <<rows, inserted, old, currentKey, credit>>
wire   == <<link, current, down, up>>
vars   == <<calls, entries, handler, store, wire, lock, used>>

-----------------------------------------------------------------------------
NoSerial == -1
Serials  == 0..MaxSerial
CommandOrNone == Commands \cup {NoCommand}

OPEN     == {"pending", "sent", "acknowledged"}
FINAL    == {"completed", "rejected", "timeout", "send_failed"}
Outcomes == {"none", "success", "failure", "unknown", "timeout"}

Row    == [status: {"none"} \cup OPEN \cup FINAL, outcome: Outcomes]
NoRow  == [status |-> "none", outcome |-> "none"]

\* A frame of the device: a 0x0001 general response to the 0x8900 of command
\* `of`, or a 0x0900/0x55 operation reply.  `of` of a reply is history: the
\* command whose operation it reports (none for the keypad).
Frame == [kind: {"ack", "reply"}, of: CommandOrNone, serial: Serials,
          source: {"platform", "keypad"}, type: Types, ok: BOOLEAN]

NoFrame == [kind |-> "ack", of |-> NoCommand, serial |-> 0,
            source |-> "platform", type |-> CHOOSE t \in Types : TRUE,
            ok |-> FALSE]

AtRest  == [at |-> "idle", frame |-> NoFrame, cmd |-> NoCommand,
            entry |-> FALSE]

\* Steps of execute that await the store (or resume after it), and the ends.
Executing == {"refusing", "inserting", "inserted", "failing", "logging",
              "marking", "noting", "marked"}
Resting   == {"idle", "waiting", "returned", "answered", "failed", "gone"}

Open(c)  == rows[c].status \in OPEN
Final(c) == rows[c].status \in FINAL

Before(c, d, order) ==
  \E i, j \in DOMAIN order : i < j /\ order[i] = c /\ order[j] = d

IsPending(c) == pending[serial[c]] = c

\* With the in-memory store a callback starts only when no other is half way.
LoopFree ==
  InstantStore => /\ \A c \in Commands : pc[c] \in Resting
                                         /\ timer[c] \in {"off", "armed"}
                  /\ \A s \in Sessions : handler[s].at = "idle"

\* nextBusinessSerial: the serial after n, 1 after MaxSerial, never 0.
NextBusinessSerial(n) == (n % MaxSerial) + 1

\* Only PgStore looks at the age of a row: requested_at > now() - '1 day'.
Recent(c) == InstantStore \/ c \notin old

\* Mutant: a row that timed out is not looked for.
Matching_OpenOnly(n) ==
  {c \in Commands : serial[c] = n /\ Recent(c) /\ Open(c)}

\* findCommandByBusinessSerial: the newest row with this serial that is open
\* or timed out.
Matching(n) ==
  {c \in Commands : /\ serial[c] = n /\ Recent(c)
                    /\ rows[c].status \in OPEN \cup {"timeout"}}
FindCommandByBusinessSerial(n) ==
  {c \in Matching(n) : \A d \in Matching(n) : ~Before(c, d, inserted)}

\* The candidates of the fallback correlation.  Its sort compares serials of
\* the sessions' own counters, so the first in the sort is the oldest of its
\* session, of whichever session.
OldestPending(t) ==
  LET open == {c \in Commands : IsPending(c) /\ TypeOf[c] = t}
  IN  {c \in open : \A d \in open :
                       target[d] = target[c] => ~Before(d, c, written)}

SetStatus(c, s, o) ==
  rows' = [rows EXCEPT ![c] = [status |-> s, outcome |-> o]]

\* pending.delete(key)
Removed_Never(n) == pending   \* mutant: the entry stays
Removed(n) == [pending EXCEPT ![n] = NoCommand]

\* clearTimeout(entry.timer): an onTimeout that has started goes on.
Cleared(c) == IF timer[c] = "armed" THEN [timer EXCEPT ![c] = "off"] ELSE timer

\* Callers that wait for the command are answered.
Resolved_Never(c) == pc       \* mutant: the waiters are forgotten
Resolved(c) == IF pc[c] = "waiting" THEN [pc EXCEPT ![c] = "answered"] ELSE pc

\* finish(entry, row), with an entry or with the row alone.
FinishEntry(c) == /\ pending' = Removed(serial[c])
                  /\ timer' = Cleared(c)
                  /\ pc' = Resolved(c)
FinishRow(c)   == pc' = Resolved(c) /\ UNCHANGED <<pending, timer>>

-----------------------------------------------------------------------------
Init ==
  /\ rows = [c \in Commands |-> NoRow]
  /\ inserted = << >> /\ old = {}
  /\ pc = [c \in Commands |-> "idle"]
  /\ serial = [c \in Commands |-> 0]
  /\ target = [c \in Commands |-> NoSession]
  /\ pending = [n \in Serials |-> NoCommand]
  /\ acked = [c \in Commands |-> FALSE]
  /\ timer = [c \in Commands |-> "off"]
  /\ written = << >>
  /\ bizSerial = NoSerial
  /\ currentKey = NoCommand
  /\ link = [s \in Sessions |-> "new"]
  /\ current = NoSession
  /\ down = [s \in Sessions |-> << >>]
  /\ up = [s \in Sessions |-> << >>]
  /\ handler = [s \in Sessions |-> AtRest]
  /\ lock = [c \in Commands |-> "none"]
  /\ credit = [c \in Commands |-> NoCommand]
  /\ used = [keypad |-> 0, retransmit |-> 0, disconnect |-> 0,
             restart |-> 0, failure |-> 0, day |-> 0, late |-> 0]

-----------------------------------------------------------------------------
(***************************************************************************)
(* execute and waitFor                                                     *)
(***************************************************************************)

Goto(c, label) == pc' = [pc EXCEPT ![c] = label]

\* No live session, or one that is not authenticated: the row is recorded as
\* send_failed at once.
Refuse(c) ==
  /\ LoopFree /\ pc[c] = "idle" /\ current = NoSession
  /\ Goto(c, "refusing")
  /\ UNCHANGED <<target, serial, bizSerial, written, entries, handler, store,
                 wire, lock, used>>

\* A live session is captured, the serial drawn, and the INSERT issued.
Execute(c) ==
  /\ LoopFree /\ pc[c] = "idle" /\ current # NoSession
  /\ \E start \in StartSerials :
       bizSerial' = NextBusinessSerial(IF bizSerial = NoSerial THEN start
                                                               ELSE bizSerial)
  /\ serial' = [serial EXCEPT ![c] = bizSerial']
  /\ target' = [target EXCEPT ![c] = current]
  /\ Goto(c, "inserting")
  /\ UNCHANGED <<written, entries, handler, store, wire, lock, used>>

\* The database applies the statement that the call awaits.
Record(c, from, status, outcome, to) ==
  /\ pc[c] = from /\ Goto(c, to)
  /\ SetStatus(c, status, outcome)
  /\ inserted' = Append(inserted, c)
  /\ UNCHANGED <<target, serial, bizSerial, written, entries, handler,
                 old, currentKey, credit, wire, lock, used>>

RefusalInserted(c) == Record(c, "refusing", "send_failed", "failure", "failed")
CommandInserted(c) == Record(c, "inserting", "pending", "none", "inserted")

Failed(c) ==
  /\ pc[c] = "failing" /\ Goto(c, "failed")
  /\ SetStatus(c, "send_failed", "failure")
  /\ UNCHANGED <<target, serial, bizSerial, written, entries, handler,
                 inserted, old, currentKey, credit, wire, lock, used>>

\* 'sent' with the transmission data, or the data alone.
Marked(c) ==
  /\ pc[c] = "marking" /\ Goto(c, "marked")
  /\ SetStatus(c, "sent", rows[c].outcome)
  /\ UNCHANGED <<target, serial, bizSerial, written, entries, handler,
                 inserted, old, currentKey, credit, wire, lock, used>>

Noted(c) ==
  /\ pc[c] = "noting" /\ Goto(c, "marked")
  /\ UNCHANGED <<target, serial, bizSerial, written, entries, handler, store,
                 wire, lock, used>>

\* setTimeout(onTimeout)
Armed_Never(c) == timer       \* mutant: no timer
Armed(c) == [timer EXCEPT ![c] = "armed"]

\* After the INSERT: the entry is registered and, in the same callback, the
\* frame written, its 0x0001 serial noted and the timer armed.  A session
\* that closed meanwhile makes write throw, and the entry is taken out again.
Register(c) ==
  /\ pc[c] = "inserted"
  /\ IF link[target[c]] = "up"
     THEN /\ pending' = [pending EXCEPT ![serial[c]] = c]
          /\ timer' = Armed(c)
          /\ written' = Append(written, c)
          /\ down' = [down EXCEPT ![target[c]] = Append(@, c)]
          /\ Goto(c, "logging")
     ELSE /\ pending' = Removed(serial[c])
          /\ Goto(c, "failing")
          /\ UNCHANGED <<timer, written, down>>
  /\ UNCHANGED <<target, serial, bizSerial, acked, handler, store, link,
                 current, up, lock, used>>

\* Mutant: a log that fails counts as a frame that was not sent.
AfterLog_Fails(c) == IF IsPending(c) THEN "failing" ELSE "noting"

\* The row becomes 'sent' only if the entry is still there, unacknowledged.
AfterLog(c) == IF IsPending(c) /\ ~acked[c] THEN "marking" ELSE "noting"

\* The TX log is written (or has failed, which persist swallows).
Logged(c) ==
  /\ pc[c] = "logging"
  /\ Goto(c, AfterLog(c))
  /\ UNCHANGED <<target, serial, bizSerial, written, entries, handler, store,
                 wire, lock, used>>

\* execute returns the row: the caller leaves with it, or waits (?wait=true).
Return(c) ==
  /\ pc[c] = "marked"
  /\ Goto(c, IF c \in Waits THEN "waiting" ELSE "returned")
  /\ UNCHANGED <<target, serial, bizSerial, written, entries, handler, store,
                 wire, lock, used>>

\* waitFor's own timer, 5 s after the command's: the row is read as it is.
WaitExpires(c) ==
  /\ LoopFree /\ pc[c] = "waiting"
  /\ Goto(c, "answered")
  /\ UNCHANGED <<target, serial, bizSerial, written, entries, handler, store,
                 wire, lock, used>>

-----------------------------------------------------------------------------
(***************************************************************************)
(* onTimeout                                                               *)
(***************************************************************************)

\* Mutant: a command without reply is sent again.
TimerFires_Resends(c) ==
  /\ LoopFree /\ timer[c] = "armed" /\ link[target[c]] = "up"
  /\ down' = [down EXCEPT ![target[c]] = Append(@, c)]
  /\ timer' = [timer EXCEPT ![c] = "updating"]
  /\ UNCHANGED <<calls, pending, acked, handler, store, link, current, up,
                 lock, used>>

\* The command's timeout (60 s by default) is over.  Only a store that stalls
\* for as long lets that be while execute still runs.
TimerFires(c) ==
  /\ LoopFree /\ timer[c] = "armed"
  /\ PromptCalls => pc[c] \notin Executing
  /\ timer' = [timer EXCEPT ![c] = IF pending[serial[c]] # NoCommand
                                   THEN "updating" ELSE "off"]
  /\ UNCHANGED <<calls, pending, acked, handler, store, wire, lock, used>>

TimeoutApplied(c) ==
  /\ timer[c] = "updating"
  /\ SetStatus(c, "timeout", "timeout")
  /\ timer' = [timer EXCEPT ![c] = "updated"]
  /\ UNCHANGED <<calls, pending, acked, handler, inserted, old, currentKey,
                 credit, wire, lock, used>>

TimeoutFinishes(c) ==
  /\ timer[c] = "updated"
  /\ pending' = Removed(serial[c])
  /\ timer' = [timer EXCEPT ![c] = "off"]
  /\ pc' = Resolved(c)
  /\ UNCHANGED <<target, serial, bizSerial, written, acked, handler, store,
                 wire, lock, used>>

-----------------------------------------------------------------------------
(***************************************************************************)
(* The frames of a session, one at a time (Session.enqueue)                *)
(***************************************************************************)

NextIs(s, kind) ==
  /\ LoopFree
  /\ handler[s].at = "idle" /\ up[s] # << >> /\ Head(up[s]).kind = kind

Take(s) == up' = [up EXCEPT ![s] = Tail(@)]

\* The entry with the session and 0x0001 serial of an acknowledgement.
\* Mutant: a command of the session, whether it is still open or not.
AckEntry_Any(s, f) == IF f.of # NoCommand THEN f.of ELSE NoCommand
AckEntry(s, f) == IF f.of # NoCommand /\ IsPending(f.of) /\ target[f.of] = s
                  THEN f.of ELSE NoCommand

\* onTerminalAck: the entry is looked up and marked, then the row updated.
ReceiveAck(s) ==
  /\ NextIs(s, "ack")
  /\ LET f == Head(up[s])
         c == AckEntry(s, f)
     IN  IF c # NoCommand
         THEN /\ acked' = [acked EXCEPT ![c] = TRUE]
              /\ handler' = [handler EXCEPT ![s] =
                   [at |-> "acking", frame |-> f, cmd |-> c, entry |-> TRUE]]
         ELSE UNCHANGED <<acked, handler>>
  /\ Take(s)
  /\ UNCHANGED <<calls, pending, timer, store, link, current, down, lock,
                 used>>

\* Mutant: a device that took the message is taken to have done it.
AckRow_Success(c, ok) ==
  IF ok THEN [status |-> "completed", outcome |-> "success"]
        ELSE [status |-> "rejected", outcome |-> "failure"]
AckRow(c, ok) ==
  IF ok THEN [rows[c] EXCEPT !.status = "acknowledged"]
        ELSE [status |-> "rejected", outcome |-> "failure"]

AckApplied(s) ==
  /\ handler[s].at = "acking"
  /\ LET c  == handler[s].cmd
         ok == handler[s].frame.ok
     IN  /\ rows' = [rows EXCEPT ![c] = AckRow(c, ok)]
         /\ handler' = IF ok THEN [handler EXCEPT ![s] = AtRest]
                       ELSE [handler EXCEPT ![s].at = "rejected"]
  /\ UNCHANGED <<calls, entries, inserted, old, currentKey, credit, wire, lock,
                 used>>

RejectionFinishes(s) ==
  /\ handler[s].at = "rejected"
  /\ FinishEntry(handler[s].cmd)
  /\ handler' = [handler EXCEPT ![s] = AtRest]
  /\ UNCHANGED <<target, serial, bizSerial, written, acked, store, wire, lock,
                 used>>

\* onUplinkPassthrough acknowledges the reply before it processes it: on a
\* session that is closed by now the write throws, and the reply is dropped.
ReceiveReply(s) ==
  /\ NextIs(s, "reply")
  /\ handler' = IF link[s] = "up"
                THEN [handler EXCEPT ![s] = [AtRest EXCEPT !.at = "replying",
                                                     !.frame = Head(up[s])]]
                ELSE handler
  /\ Take(s)
  /\ UNCHANGED <<calls, entries, store, link, current, down, lock, used>>

\* onOperationReply looks for a pending entry with the business serial.
Correlate(s) ==
  /\ handler[s].at = "replying"
  /\ LET n == handler[s].frame.serial
     IN  IF pending[n] # NoCommand
         THEN handler' = [handler EXCEPT ![s].at = "correlated",
                            ![s].cmd = pending[n], ![s].entry = TRUE]
         ELSE handler' = [handler EXCEPT ![s].at = "finding"]
  /\ UNCHANGED <<calls, entries, store, wire, lock, used>>

\* History: a reply to a command whose row is past the reach of the look-up.
TooLate(f) == f.of # NoCommand /\ ~Recent(f.of)

\* A late reply: the command is looked for in the table.
LateFound(s) ==
  /\ handler[s].at = "finding"
  /\ LET n == handler[s].frame.serial
     IN  \/ /\ n = 0 \/ Matching(n) = {}
            /\ handler' = [handler EXCEPT ![s].at = "found"]
         \/ /\ n # 0
            /\ \E c \in FindCommandByBusinessSerial(n) :
                 handler' = [handler EXCEPT ![s].at = "found", ![s].cmd = c]
  /\ used' = IF TooLate(handler[s].frame) THEN [used EXCEPT !.late = @ + 1] ELSE used
  /\ UNCHANGED <<calls, entries, store, wire, lock>>

\* Mutant: whoever operated the lock.
MayFallBack_Always(f) == TRUE
MayFallBack(f) == f.source = "platform"

\* Neither: the oldest pending command of the type the result belongs to, for
\* a reply to the platform only; without one the reply is unsolicited.
FallBack(s) ==
  /\ handler[s].at = "found"
  /\ LET f == handler[s].frame
         oldest == OldestPending(f.type)
     IN  \/ /\ handler[s].cmd # NoCommand
            /\ handler' = [handler EXCEPT ![s].at = "correlated"]
         \/ /\ handler[s].cmd = NoCommand /\ MayFallBack(f)
            /\ \E c \in oldest :
                 handler' = [handler EXCEPT ![s].at = "correlated",
                               ![s].cmd = c, ![s].entry = TRUE]
         \/ /\ handler[s].cmd = NoCommand
            /\ ~MayFallBack(f) \/ oldest = {}
            /\ handler' = [handler EXCEPT ![s] = AtRest]
  /\ UNCHANGED <<calls, entries, store, wire, lock, used>>

\* A result of another command's type proves nothing about this one.
\* Mutant: its type is not looked at.
ReplyOutcome_AnyType(c, f) == IF f.ok THEN "success" ELSE "failure"
ReplyOutcome(c, f) == IF f.type # TypeOf[c] THEN "unknown"
                      ELSE IF f.ok THEN "success" ELSE "failure"

\* Mutant: the follow-up is done for a failure, too.
HasFollowUp_Always(c, f) == f.type \in {"seal", "clear_alarm"}
HasFollowUp(c, f) == /\ ReplyOutcome(c, f) = "success"
                     /\ f.type \in {"seal", "clear_alarm"}

\* The row is completed.  (The telemetry update and getCommand, awaited
\* before, touch neither the rows' status nor the entries.)
ReplyApplied(s) ==
  /\ handler[s].at = "correlated"
  /\ LET f == handler[s].frame
         c == handler[s].cmd
     IN  /\ SetStatus(c, "completed", ReplyOutcome(c, f))
         /\ credit' = [credit EXCEPT ![c] = f.of]
         /\ handler' = [handler EXCEPT ![s].at =
              IF HasFollowUp(c, f) THEN "completed" ELSE "finishing"]
  /\ UNCHANGED <<calls, entries, inserted, old, currentKey, wire, lock, used>>

\* What a success adds: a seal's key becomes the current key; a clear_alarm
\* clears alarm rows, which nothing here reads.
FollowUpApplied(s) ==
  /\ handler[s].at = "completed"
  /\ currentKey' = IF handler[s].frame.type = "seal" THEN handler[s].cmd
                   ELSE currentKey
  /\ handler' = [handler EXCEPT ![s].at = "finishing"]
  /\ UNCHANGED <<calls, entries, rows, inserted, old, credit, wire, lock, used>>

ReplyFinishes(s) ==
  /\ handler[s].at = "finishing"
  /\ IF handler[s].entry THEN FinishEntry(handler[s].cmd)
                         ELSE FinishRow(handler[s].cmd)
  /\ handler' = [handler EXCEPT ![s] = AtRest]
  /\ UNCHANGED <<target, serial, bizSerial, written, acked, store, wire, lock,
                 used>>

-----------------------------------------------------------------------------
(***************************************************************************)
(* Connections, restarts and store failures                                *)
(***************************************************************************)

\* Session s closes: of the device's frames, those that arrived are still
\* processed.  (Those to the device may still arrive, or never.)
Cut(s) ==
  \E n \in 0..Len(up[s]) : up' = [up EXCEPT ![s] = SubSeq(@, 1, n)]

\* The device's new connection is identified and authenticated; bind closes
\* the one before it.  (Until both are done it counts as none: execute refuses
\* an unauthenticated session as it refuses a missing one.)
Connect(s) ==
  /\ LoopFree /\ link[s] = "new"
  /\ IF current = NoSession
     THEN /\ link' = [link EXCEPT ![s] = "up"]
          /\ UNCHANGED up
     ELSE /\ link' = [link EXCEPT ![s] = "up", ![current] = "down"]
          /\ Cut(current)
  /\ current' = s
  /\ UNCHANGED <<calls, entries, handler, store, down, lock, used>>

Disconnect ==
  /\ LoopFree /\ current # NoSession
  /\ used.disconnect < MaxDisconnects
  /\ used' = [used EXCEPT !.disconnect = @ + 1]
  /\ link' = [link EXCEPT ![current] = "down"]
  /\ Cut(current)
  /\ current' = NoSession
  /\ UNCHANGED <<calls, entries, handler, store, down, lock>>

\* failOpenCommands closes the open rows; an outcome they have is kept.
Recovered(c) ==
  IF Open(c) THEN [status |-> "timeout",
                   outcome |-> IF rows[c].outcome = "none" THEN "timeout"
                               ELSE rows[c].outcome]
  ELSE rows[c]

\* The process dies and starts again: what it had in memory is gone, and
\* recoverAfterRestart closes the rows left open before it listens.
Restart ==
  /\ used.restart < MaxRestarts
  /\ used' = [used EXCEPT !.restart = @ + 1]
  /\ pc' = [c \in Commands |-> IF pc[c] \in Executing \cup {"waiting"}
                               THEN "gone" ELSE pc[c]]
  /\ pending' = [n \in Serials |-> NoCommand]
  /\ timer' = [c \in Commands |-> "off"]
  /\ bizSerial' = NoSerial
  /\ handler' = [s \in Sessions |-> AtRest]
  /\ link' = [s \in Sessions |-> IF link[s] = "up" THEN "down" ELSE link[s]]
  /\ current' = NoSession
  /\ up' = [s \in Sessions |-> << >>]
  /\ rows' = [c \in Commands |-> Recovered(c)]
  /\ UNCHANGED <<target, serial, written, acked, inserted, old, currentKey,
                 credit, down, lock>>

\* A day passes: the rows there are, or the older ones, are now more than a day
\* old.  (Where the store is prompt, calls and timers have ended long before.)
DayPasses ==
  /\ used.day < MaxDays
  /\ used' = [used EXCEPT !.day = @ + 1]
  /\ \E n \in DOMAIN inserted : old' = old \cup {inserted[i] : i \in 1..n}
  /\ PromptCalls =>
       \A c \in old' \ old : pc[c] \notin Executing /\ timer[c] = "off"
  /\ UNCHANGED <<calls, entries, rows, inserted, currentKey, credit, handler,
                 wire, lock>>

\* A statement fails: the call of execute rejects; the frame of a session is
\* given up (dispatch catches and logs); onTimeout ends without finish.
StoreFails ==
  /\ used.failure < MaxStoreFailures
  /\ used' = [used EXCEPT !.failure = @ + 1]
  /\ \/ \E c \in Commands :
          /\ pc[c] \in {"refusing", "inserting", "failing", "marking", "noting"}
          /\ Goto(c, "failed")
          /\ UNCHANGED <<timer, handler, up>>
     \/ \E c \in Commands :
          /\ timer[c] = "updating"
          /\ timer' = [timer EXCEPT ![c] = "off"]
          /\ UNCHANGED <<pc, handler, up>>
     \/ \E s \in Sessions :
          /\ handler[s].at \in {"acking", "finding", "correlated", "completed"}
          /\ handler' = [handler EXCEPT ![s] = AtRest]
          /\ UNCHANGED <<pc, timer, up>>
     \/ \E s \in Sessions :   \* before dispatch: updateDevice in handleItem
          /\ LoopFree /\ handler[s].at = "idle" /\ up[s] # << >>
          /\ Take(s)
          /\ UNCHANGED <<pc, timer, handler>>
  /\ UNCHANGED <<target, serial, bizSerial, written, pending, acked, store,
                 link, current, down, lock>>

-----------------------------------------------------------------------------
(***************************************************************************)
(* The device (external: modelled from what the server's handlers expect)  *)
(***************************************************************************)

Deliver(s, f) == up' = [up EXCEPT ![s] = Append(@, f)]

Reply(c, ok) ==
  [kind |-> "reply", of |-> c, serial |-> IF EchoSerial THEN serial[c] ELSE 0,
   source |-> "platform", type |-> TypeOf[c], ok |-> ok]

\* A 0x8900 arrives: the device answers 0x0001 at once and, unless it refuses
\* the message, will operate the lock.
DeviceReceives(s) ==
  /\ down[s] # << >>
  /\ LET c == Head(down[s])
     IN  \E ok \in AckResults :
           /\ lock' = [lock EXCEPT ![c] = IF ok THEN "accepted" ELSE "refused"]
           /\ IF link[s] = "up"
              THEN Deliver(s, [NoFrame EXCEPT !.of = c, !.ok = ok])
              ELSE UNCHANGED up
  /\ down' = [down EXCEPT ![s] = Tail(@)]
  /\ UNCHANGED <<calls, entries, handler, store, link, current, used>>

\* The lock operates once and reports it over the live connection, if any.
DeviceOperates(c) ==
  /\ lock[c] = "accepted"
  /\ \E ok \in LockResults :
       /\ lock' = [lock EXCEPT ![c] = IF ok THEN "succeeded" ELSE "failed"]
       /\ IF current # NoSession THEN Deliver(current, Reply(c, ok))
          ELSE UNCHANGED up
  /\ UNCHANGED <<calls, entries, handler, store, link, current, down, used>>

\* A reply is sent again (it went unacknowledged).
DeviceRetransmits(c) ==
  /\ used.retransmit < MaxRetransmit
  /\ lock[c] \in {"succeeded", "failed"} /\ current # NoSession
  /\ used' = [used EXCEPT !.retransmit = @ + 1]
  /\ Deliver(current, Reply(c, lock[c] = "succeeded"))
  /\ UNCHANGED <<calls, entries, handler, store, link, current, down, lock>>

\* Somebody operates the lock at its keypad: an unsolicited 0x55, serial 0.
Keypad ==
  /\ used.keypad < MaxKeypad /\ current # NoSession
  /\ used' = [used EXCEPT !.keypad = @ + 1]
  /\ \E t \in Types :
       Deliver(current, [kind |-> "reply", of |-> NoCommand, serial |-> 0,
                         source |-> "keypad", type |-> t, ok |-> TRUE])
  /\ UNCHANGED <<calls, entries, handler, store, link, current, down, lock>>

-----------------------------------------------------------------------------
Running(c)   == RefusalInserted(c) \/ CommandInserted(c) \/ Register(c)
                \/ Failed(c) \/ Logged(c) \/ Marked(c) \/ Noted(c) \/ Return(c)
CallStep(c)  == Refuse(c) \/ Execute(c) \/ Running(c) \/ WaitExpires(c)
TimerStep(c) == TimerFires(c) \/ TimeoutApplied(c) \/ TimeoutFinishes(c)
FrameStep(s) == ReceiveAck(s) \/ AckApplied(s) \/ RejectionFinishes(s)
                \/ ReceiveReply(s) \/ Correlate(s) \/ LateFound(s)
                \/ FallBack(s) \/ ReplyApplied(s) \/ FollowUpApplied(s)
                \/ ReplyFinishes(s)
Device       == \/ \E s \in Sessions : DeviceReceives(s)
                \/ \E c \in Commands : DeviceOperates(c) \/ DeviceRetransmits(c)
                \/ Keypad

Next ==
  \/ \E c \in Commands : CallStep(c) \/ TimerStep(c)
  \/ \E s \in Sessions : FrameStep(s) \/ Connect(s)
  \/ Disconnect \/ Restart \/ DayPasses \/ StoreFails
  \/ Device

Spec == Init /\ [][Next]_vars

\* The event loop runs every callback that is due: statements end, timers
\* fire, queued frames are processed.  Users, the network, the device and the
\* bounded faults owe nothing.
Fairness ==
  /\ \A c \in Commands : /\ WF_vars(Running(c))
                         /\ WF_vars(WaitExpires(c))
                         /\ WF_vars(TimerStep(c))
  /\ \A s \in Sessions : WF_vars(FrameStep(s))

FairSpec == Spec /\ Fairness

-----------------------------------------------------------------------------
(***************************************************************************)
(* Properties                                                              *)
(***************************************************************************)

Labels == Executing \cup Resting
Places == {"idle", "acking", "rejected", "replying", "finding", "found",
           "correlated", "completed", "finishing"}
WithCommand == {"acking", "rejected", "correlated", "completed", "finishing"}
LockStates == {"none", "accepted", "refused", "succeeded", "failed"}
Handlers == [at: Places, frame: Frame, cmd: CommandOrNone, entry: BOOLEAN]
Usage == [keypad: Nat, retransmit: Nat, disconnect: Nat, restart: Nat,
          failure: Nat, day: Nat, late: Nat]

\* The type of the state, with what the typing of a step rests on: a handler
\* that updates a row has found its command.
TypeOK ==
  /\ rows \in [Commands -> Row]
  /\ inserted \in Seq(Commands) /\ old \subseteq Commands
  /\ pc \in [Commands -> Labels]
  /\ serial \in [Commands -> Serials]
  /\ target \in [Commands -> Sessions \cup {NoSession}]
  /\ pending \in [Serials -> CommandOrNone]
  /\ acked \in [Commands -> BOOLEAN]
  /\ timer \in [Commands -> {"off", "armed", "updating", "updated"}]
  /\ written \in Seq(Commands)
  /\ bizSerial \in Serials \cup {NoSerial}
  /\ currentKey \in CommandOrNone
  /\ link \in [Sessions -> {"new", "up", "down"}]
  /\ current \in Sessions \cup {NoSession}
  /\ down \in [Sessions -> Seq(Commands)]
  /\ up \in [Sessions -> Seq(Frame)]
  /\ handler \in [Sessions -> Handlers]
  /\ \A s \in Sessions : handler[s].at \in WithCommand => handler[s].cmd # NoCommand
  /\ lock \in [Commands -> LockStates]
  /\ credit \in [Commands -> CommandOrNone]
  /\ used \in Usage

\* Two commands share a business serial: a wrap of the counter, or a new
\* process whose random start falls among a previous run's serials.
NoSerialReuse ==
  \A c, d \in Commands : c # d /\ serial[c] # 0 => serial[c] # serial[d]

\* The device echoes the business serial, sent nothing twice, and was not more
\* than a day late with a reply.
Plain == EchoSerial /\ used.retransmit = 0 /\ used.late = 0 /\ NoSerialReuse

\* No callback of the server has anything left to do for command c.
Settled(c) ==
  /\ pc[c] \in Resting /\ timer[c] = "off" /\ ~IsPending(c)
  /\ \A s \in Sessions : handler[s].cmd # c

\* The row of every frame that left for the device exists and does not say
\* send_failed: the catch of execute reports only what was never written.
SendFailedNeverSent ==
  \A i \in DOMAIN written : rows[written[i]].status \notin {"none", "send_failed"}

\* An operation at the lock's own keypad never completes a command of the
\* platform, whatever correlation it is tried by (D-28).
KeypadNeverCompletes ==
  \A c \in Commands : rows[c].status = "completed" => credit[c] # NoCommand

\* A reply is attributed to the command whose operation it reports and to no
\* other, after a timeout, on another connection, while the call still writes
\* its log, or in the next process, up to a day after the request (PgStore).
RepliesFindTheirCommand ==
  Plain => \A s \in Sessions :
    LET h == handler[s]
    IN  h.frame.kind = "reply" /\ h.frame.of # NoCommand
        /\ h.at \in {"found", "correlated", "completed", "finishing"}
          => h.cmd = h.frame.of

\* What the API presents as succeeded was done by the lock.
Succeeded(c) == rows[c].status = "completed" /\ rows[c].outcome = "success"
SuccessMeansExecuted ==
  Plain => \A c \in Commands : Succeeded(c) => lock[c] = "succeeded"

\* The same of a device that may send a reply twice, which JT/T 808 lets it
\* do when the platform's acknowledgement does not arrive, or that was without
\* a connection for more than a day.
SuccessIsTheCommandsOwn ==
  EchoSerial /\ NoSerialReuse
    => \A c \in Commands : Succeeded(c) => lock[c] = "succeeded"

\* Whatever is crossed, repeated or late, a success rests on an operation that
\* the lock carried out for a command of the platform of the same type.
SuccessRestsOnOperation ==
  \A c \in Commands : Succeeded(c) =>
    /\ credit[c] # NoCommand /\ lock[credit[c]] = "succeeded"
    /\ TypeOf[credit[c]] = TypeOf[c]

\* The stored key is that of a seal the lock carried out, not of one that
\* failed or never came.
KeyOfAnExecutedSeal ==
  Plain /\ currentKey # NoCommand
    => lock[currentKey] = "succeeded" /\ TypeOf[currentKey] = "seal"

\* An entry in the map has a timer that will take it out; only a failed
\* statement of onTimeout can leave one behind.
PendingHasTimer ==
  used.failure = 0 =>
    \A n \in Serials : pending[n] # NoCommand => timer[pending[n]] # "off"

\* A command nothing is going on for has left the open states: it is
\* completed, rejected, send_failed or timed out, and so not open for ever.
SettledIsFinal ==
  NoSerialReuse /\ used.failure = 0 =>
    \A c \in Commands : Settled(c) => ~Open(c)

\* A caller that waits for a command waits for something that will happen.
\* (A command with the same serial takes the entry: nobody ends the first one's
\* wait when the second has left the map before the first one's timer fires.)
NobodyWaitsInVain ==
  NoSerialReuse /\ used.failure = 0 => \A c \in Commands : pc[c] = "waiting" => ~Settled(c)

\* A completed row is not turned into a timeout by the command's timer.
TimerNeverDowngrades ==
  [][\A c \in Commands : rows[c].status = "completed"
                            => rows'[c].status # "timeout"]_vars

\* Every entry leaves the map, whatever the device and the network do: by the
\* reply, the refusal, or the timer.
EntriesLeave ==
  \A c \in Commands : IsPending(c) ~> ~IsPending(c)

\* With atomic store operations, a device that echoes the serial and repeats
\* nothing, and no reuse of serials, the module implements CommandLifecycle.
Lifecycle == INSTANCE CommandLifecycle WITH
               status  <- [c \in Commands |-> rows[c].status],
               outcome <- [c \in Commands |-> rows[c].outcome]
ImplementsLifecycle == Lifecycle!Spec

=============================================================================
