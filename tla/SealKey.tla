------------------------------ MODULE SealKey ------------------------------
(***************************************************************************)
(* The key of a sealed lock and the key the platform has stored for it:    *)
(* the lock of simulator/device.js (applyLockOperation, raiseTamper,       *)
(* keypadOperation) with the parts of execute and onOperationReply of      *)
(* server/src/services/command-service.js that choose, record and store    *)
(* the key.                                                                *)
(*                                                                         *)
(* The platform chooses the key at seal time and the lock opens with no    *)
(* other, so the two must not lose it between them: the row of the command *)
(* holds it before the frame leaves, and the device row gets it when the   *)
(* reply has been processed.  What becomes of a command in between, its    *)
(* acknowledgement and its timer is the subject of CommandService; here a  *)
(* reply completes its command however late it is.                         *)
(***************************************************************************)
EXTENDS Integers, Sequences, FiniteSets

CONSTANTS
  Commands,     \* calls of execute
  Keys,
  NoKey, NoCommand, NoReply,
  InitialKeys,  \* the option initialKey of the simulator
  NumSessions,  \* bound: connections, one after the other
  Overlap,      \* the device may be back before its last replies are processed
  MaxFailures,  \* bound: statements that fail, and restarts of the platform
  MaxLocal      \* bound: what people do at the lock, and PATCHes

Sessions == 1..NumSessions

ASSUME SealKeyAssumption ==
  /\ NoKey \notin Keys /\ InitialKeys \subseteq Keys \cup {NoKey}
  /\ NoCommand \notin Commands
  /\ NumSessions \in Nat \ {0} /\ Overlap \in BOOLEAN
  /\ MaxFailures \in Nat /\ MaxLocal \in Nat

VARIABLES
  lock,      \* SimulatedDevice.lock
  sealed,    \* history: somebody sealed the lock and nobody with the right to
             \* has unsealed it
  sealer,    \* history: the command whose key the lock has
  stored,    \* current_key of the devices row
  writer,    \* history: the command that stored it, or NoCommand
  cmd,       \* each call: how far it has got, its type, key and session
  now, open, \* the device's connection, and whether it is there
  down,      \* frames to the device
  delayed,   \* operations the lock will apply after replyDelayMs
  up,        \* replies in transit
  queue,     \* replies received, by session
  handler,   \* the reply being processed, by session
  failures, local

theLock  == <<lock, sealed, sealer>>
keyRow   == <<stored, writer>>
network  == <<now, open, down, up>>
platform == <<queue, handler>>
used     == <<failures, local>>
vars     == <<theLock, keyRow, cmd, network, delayed, platform, used>>

-----------------------------------------------------------------------------
Types == {"seal", "unseal", "clear_alarm"}

Outcome(code) ==
  CASE code \in {"0x80", "0x90", "0x70"} -> "success"
    [] code \in {"0x81", "0x97", "0x72"} -> "no_change"
    [] code \in {"0x83", "0x86", "0x93", "0x98", "0x73"} -> "failure"

\* applyLockOperation: what the lock answers to an operation with key k.
KeyFits(k) == lock.key \in {NoKey, k}

SealCode ==
  CASE lock.state = "alarm"  -> "0x86"
    [] lock.state # "alarm" /\ lock.low -> "0x83"
    [] lock.state = "sealed" /\ ~lock.low -> "0x81"
    [] lock.state = "unsealed" /\ ~lock.low -> "0x80"

UnsealCode(k) ==
  CASE lock.state = "alarm" -> "0x98"
    [] lock.state = "unsealed" -> "0x97"
    [] lock.state = "sealed" -> IF KeyFits(k) THEN "0x90" ELSE "0x93"

ClearCode(k) ==
  IF lock.state # "alarm" THEN "0x72"
  ELSE IF lock.before = "sealed" /\ ~KeyFits(k) THEN "0x73" ELSE "0x70"

Code(type, k) ==
  CASE type = "seal" -> SealCode
    [] type = "unseal" -> UnsealCode(k)
    [] type = "clear_alarm" -> ClearCode(k)

\* The lock after the operation.
Operated(code, k) ==
  CASE code = "0x80" -> [lock EXCEPT !.state = "sealed", !.key = k]
    [] code = "0x90" -> [lock EXCEPT !.state = "unsealed"]
    [] code = "0x70" -> [lock EXCEPT !.state = IF lock.before = "sealed"
                                               THEN "sealed" ELSE "unsealed"]
    [] code \notin {"0x80", "0x90", "0x70"} -> lock

\* raiseTamper.  Mutant: a second alarm forgets what was before the first.
Tampered_Again == [lock EXCEPT !.before = lock.state, !.state = "alarm"]
Tampered ==
  [lock EXCEPT !.before = IF lock.state = "alarm" THEN @ ELSE lock.state,
               !.state = "alarm"]

-----------------------------------------------------------------------------
Init ==
  /\ \E s \in {"sealed", "unsealed"}, k \in InitialKeys :
       /\ lock = [state |-> s, before |-> "none", key |-> k, low |-> FALSE]
       /\ sealed = (s = "sealed")
  /\ sealer = NoCommand
  /\ stored = NoKey /\ writer = NoCommand
  /\ cmd = [c \in Commands |-> [at |-> "idle", type |-> "seal", key |-> NoKey,
                                session |-> 1]]
  /\ now = 1 /\ open = TRUE
  /\ down = << >> /\ delayed = << >> /\ up = << >>
  /\ queue = [s \in Sessions |-> << >>]
  /\ handler = [s \in Sessions |-> NoReply]
  /\ failures = 0 /\ local = 0

Fail == failures < MaxFailures /\ failures' = failures + 1 /\ UNCHANGED local
Act  == local < MaxLocal /\ local' = local + 1 /\ UNCHANGED failures

\* execute up to the insertion of the row: the key given, or the one stored.
ReadDevice(c) ==
  /\ cmd[c].at = "idle" /\ open
  /\ \E type \in Types, given \in Keys \cup {NoKey} :
       LET key == IF given = NoKey THEN stored ELSE given
       IN  /\ key # NoKey
           /\ cmd' = [cmd EXCEPT ![c] = [at |-> "read", type |-> type, key |-> key,
                                         session |-> now]]
  /\ UNCHANGED <<theLock, keyRow, network, delayed, platform, used>>

InsertCommand(c) ==
  /\ cmd[c].at = "read"
  /\ cmd' = [cmd EXCEPT ![c].at = "recorded"]
  /\ UNCHANGED <<theLock, keyRow, network, delayed, platform, used>>

\* The insertion fails, or the platform stops: nothing is sent.
InsertFails(c) ==
  /\ cmd[c].at = "read" /\ Fail
  /\ cmd' = [cmd EXCEPT ![c].at = "failed"]
  /\ UNCHANGED <<theLock, keyRow, network, delayed, platform>>

\* The frame is written, or the session has closed and write throws.
\* Mutant: it is written before the row is inserted.
Writable_Early(c) == cmd[c].at \in {"read", "recorded"}
Writable(c) == cmd[c].at = "recorded"

Send(c) ==
  /\ Writable(c)
  /\ IF open /\ cmd[c].session = now
     THEN /\ cmd' = [cmd EXCEPT ![c].at = IF @ = "recorded" THEN "sent" ELSE @]
          /\ down' = Append(down, c)
     ELSE cmd' = [cmd EXCEPT ![c].at = "failed"] /\ UNCHANGED down
  /\ UNCHANGED <<theLock, keyRow, now, open, up, delayed, platform, used>>

\* handlePassthrough: the operation is applied after replyDelayMs, or never when
\* it names another LockID or the simulator has been told not to reply.
DeviceReceives ==
  /\ down # << >> /\ down' = Tail(down)
  /\ delayed' \in {delayed, Append(delayed, Head(down))}
  /\ UNCHANGED <<theLock, keyRow, cmd, now, open, up, platform, used>>

\* The reply goes out on the connection there is then, if any.
ApplyLockOperation ==
  /\ delayed # << >> /\ delayed' = Tail(delayed)
  /\ LET c == Head(delayed)
         code == Code(cmd[c].type, cmd[c].key)
     IN  /\ lock' = Operated(code, cmd[c].key)
         /\ sealed' = (code = "0x80" \/ (sealed /\ code # "0x90"))
         /\ sealer' = IF code = "0x80" THEN c ELSE sealer
         /\ up' = IF open THEN Append(up, [command |-> c, code |-> code]) ELSE up
  /\ UNCHANGED <<keyRow, cmd, now, open, down, platform, used>>

\* keypadOperation: what it reports completes no command.
KeypadUnseal ==
  /\ lock.state = "sealed" /\ Act
  /\ lock' = [lock EXCEPT !.state = "unsealed"] /\ sealed' = FALSE
  /\ UNCHANGED <<sealer, keyRow, cmd, network, delayed, platform>>

KeypadSeal ==
  /\ lock.state # "sealed" /\ Act
  /\ lock' = [lock EXCEPT !.state = "sealed"] /\ sealed' = TRUE
  /\ UNCHANGED <<sealer, keyRow, cmd, network, delayed, platform>>

RaiseTamper ==
  /\ Act /\ lock' = Tampered
  /\ UNCHANGED <<sealed, sealer, keyRow, cmd, network, delayed, platform>>

SetLowBattery ==
  /\ Act /\ lock' = [lock EXCEPT !.low = ~@]
  /\ UNCHANGED <<sealed, sealer, keyRow, cmd, network, delayed, platform>>

\* PATCH /api/devices/:id {"current_key": ...}
PatchKey ==
  /\ Act /\ stored' \in (Keys \cup {NoKey}) \ {stored} /\ writer' = NoCommand
  /\ UNCHANGED <<theLock, cmd, network, delayed, platform>>

-----------------------------------------------------------------------------
OnData ==
  /\ up # << >> /\ up' = Tail(up)
  /\ queue' = [queue EXCEPT ![now] = Append(@, Head(up))]
  /\ UNCHANGED <<theLock, keyRow, cmd, now, open, down, delayed, handler, used>>

\* onOperationReply finds the command.
FindCommand(s) ==
  /\ handler[s] = NoReply /\ queue[s] # << >>
  /\ queue' = [queue EXCEPT ![s] = Tail(@)]
  /\ handler' = [handler EXCEPT ![s] = Head(queue[s])]
  /\ UNCHANGED <<theLock, keyRow, cmd, network, delayed, used>>

\* updateCommand: the handler goes on only to store the key of a seal that
\* succeeded.  Mutant: also of one that changed nothing.
Stores_NoChange(r) ==
  cmd[r.command].type = "seal" /\ Outcome(r.code) \in {"success", "no_change"}
Stores(r) == cmd[r.command].type = "seal" /\ Outcome(r.code) = "success"

UpdateCommand(s) ==
  /\ handler[s] # NoReply /\ cmd[handler[s].command].at \in {"recorded", "sent"}
  /\ cmd' = [cmd EXCEPT ![handler[s].command].at = "completed"]
  /\ handler' = IF Stores(handler[s]) THEN handler ELSE [handler EXCEPT ![s] = NoReply]
  /\ UNCHANGED <<theLock, keyRow, network, delayed, queue, used>>

\* updateDevice: the key becomes the device's.
UpdateDevice(s) ==
  /\ handler[s] # NoReply /\ cmd[handler[s].command].at = "completed"
  /\ stored' = cmd[handler[s].command].key /\ writer' = handler[s].command
  /\ cmd' = [cmd EXCEPT ![handler[s].command].at = "stored"]
  /\ handler' = [handler EXCEPT ![s] = NoReply]
  /\ UNCHANGED <<theLock, network, delayed, queue, used>>

\* A statement of the handler fails.
HandlerFails(s) ==
  /\ handler[s] # NoReply /\ Fail
  /\ handler' = [handler EXCEPT ![s] = NoReply]
  /\ UNCHANGED <<theLock, keyRow, cmd, network, delayed, queue>>

Disconnected == open' = FALSE /\ down' = << >> /\ up' = << >>

Disconnect ==
  /\ open /\ Disconnected
  /\ UNCHANGED <<theLock, keyRow, cmd, now, delayed, platform, used>>

\* The platform stops and starts again: what it had received is lost, a call
\* that had not sent its frame never does, and rows stay.
Restart ==
  /\ Fail /\ Disconnected
  /\ queue' = [s \in Sessions |-> << >>] /\ handler' = [s \in Sessions |-> NoReply]
  /\ cmd' = [c \in Commands |-> IF cmd[c].at \in {"read", "recorded"}
                                THEN [cmd[c] EXCEPT !.at = "failed"] ELSE cmd[c]]
  /\ UNCHANGED <<theLock, keyRow, now, delayed>>

Connect ==
  /\ ~open /\ now < NumSessions
  /\ Overlap \/ \A s \in Sessions : queue[s] = << >> /\ handler[s] = NoReply
  /\ now' = now + 1 /\ open' = TRUE
  /\ UNCHANGED <<theLock, keyRow, cmd, down, up, delayed, platform, used>>

-----------------------------------------------------------------------------
Local == KeypadUnseal \/ KeypadSeal \/ RaiseTamper \/ SetLowBattery \/ PatchKey

Handler(s) ==
  FindCommand(s) \/ UpdateCommand(s) \/ UpdateDevice(s) \/ HandlerFails(s)

Next ==
  \/ \E c \in Commands :
       ReadDevice(c) \/ InsertCommand(c) \/ InsertFails(c) \/ Send(c)
  \/ DeviceReceives \/ ApplyLockOperation \/ Local
  \/ OnData \/ \E s \in Sessions : Handler(s)
  \/ Disconnect \/ Restart \/ Connect

Spec == Init /\ [][Next]_vars

-----------------------------------------------------------------------------
(***************************************************************************)
(* Properties                                                              *)
(***************************************************************************)

Reply == [command : Commands,
          code : {"0x70", "0x72", "0x73", "0x80", "0x81", "0x83", "0x86", "0x90",
                  "0x93", "0x97", "0x98"}]

TypeOK ==
  /\ lock \in [state : {"sealed", "unsealed", "alarm"}, low : BOOLEAN,
               before : {"none", "sealed", "unsealed"}, key : Keys \cup {NoKey}]
  /\ sealed \in BOOLEAN
  /\ sealer \in Commands \cup {NoCommand} /\ writer \in Commands \cup {NoCommand}
  /\ stored \in Keys \cup {NoKey}
  /\ cmd \in [Commands ->
                [at : {"idle", "read", "recorded", "sent", "completed", "stored",
                       "failed"},
                 type : Types, key : Keys \cup {NoKey}, session : Sessions]]
  /\ now \in Sessions /\ open \in BOOLEAN
  /\ down \in Seq(Commands) /\ delayed \in Seq(Commands)
  /\ up \in Seq(Reply) /\ queue \in [Sessions -> Seq(Reply)]
  /\ handler \in [Sessions -> Reply \cup {NoReply}]
  /\ failures \in Nat /\ local \in Nat

\* The rows of commands that hold a key.
Recorded(c) == cmd[c].at \in {"recorded", "sent", "completed", "stored"}

\* A key that the platform gave a lock is in the row of a seal command, whatever
\* becomes of the reply, the connection and the platform: a sealed lock can be
\* opened again.
KeyIsOnRecord ==
  sealer # NoCommand => /\ Recorded(sealer) /\ cmd[sealer].type = "seal"
                        /\ cmd[sealer].key = lock.key

\* A lock that was sealed stays sealed, through any number of alarms, until it
\* is unsealed with its key or at its keypad; and an unsealed one is not sealed
\* by an alarm and its clearance.
SealUnbroken ==
  sealed <=> \/ lock.state = "sealed"
             \/ lock.state = "alarm" /\ lock.before = "sealed"

\* The key stored for the device is the key of the lock, once the reply to the
\* seal that set it has been processed and unless someone has set it by hand.
\* (server/migrations/001_initial_schema.sql:16, "seal key")
StoredIsSealKey ==
  sealer # NoCommand /\ cmd[sealer].at = "stored" /\ writer # NoCommand
    => stored = lock.key

=============================================================================
