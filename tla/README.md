# A TLA+ model of the Kuluf smart-lock platform

The repository is a server that talks JT/T 808 over TCP to GPS locks (plus a REST API, a Postgres store, a
dashboard and a device simulator). This directory models the part of it whose correctness depends on *order*: what
happens to a lock command, a session, an alarm, an authentication code, a seal key, an operator's form and a schema
when callbacks, database statements, timers, requests, connections and processes interleave; and the codecs, whose
correctness depends on lengths and bytes that look like something else. Modules are checked with TLC on small instances;
their safety properties and the refinement are proved with TLAPS for every value of the constants, with the provisos that
section 4 names.

Paths below are relative to the repository (`server/src/...` is `src/server/src/...` in `PROJECT.json`).

## 1. The system

### How it executes

One Node.js process. Code runs to the next `await`; at each `await` on the store another callback may run. So a step
of a model is *what runs between two awaits, together with the effect of the statement awaited*, unless the order of
the two matters, in which case they are two steps. Frames of one TCP connection are processed one after the other by
the promise chain of `Session.enqueue`; frames of different connections, API calls and timers are not ordered.

Two stores implement one interface. With `PgStore` a statement takes effect some time after it was issued, and
statements of a pool are not ordered among each other. With `MemoryStore` the effect is at the call and the caller
resumes in the microtasks right after. `InstantStore` (or `instant`) selects: when TRUE, a step that begins a new
callback is only enabled when no handler is half way (`LoopFree`). Several properties hold with one and not with the
other; the runs say with which.

### Components

| Component | State | Operations | Talks to | Module |
|---|---|---|---|---|
| Command service (`services/command-service.js`) | `pending` (device:serial → entry with timer), `waiters`, `bizSerials`, rows of `commands` | `execute`, `waitFor`, `onTimeout`, `onTerminalAck`, `onOperationReply`, `recoverAfterRestart` | sessions, store, API, protocol handler | `CommandService`, abstractly `CommandLifecycle` |
| Sessions and listener (`tcp-listener/*`) | `all`, `byDevice`, each session's queue, device and socket | accept, data, close, sweep, `bind`, `remove`, `stop` | protocol handler | `Sessions` |
| Protocol handler (`services/protocol-handler.js`) | `waiters`, serial counters | `identify`, `handleItem`, `dispatch`, `onAuthenticate`, `onRegister`, `onUplinkPassthrough`, `request`, `onDisconnect` | all services | `Sessions`, `Authentication`, `Diagnostics` |
| Telemetry (`services/telemetry-service.js`) | rows of `alarms`, status columns of `devices` | `applyLockStatus`, `reconcileAlarms`, `raiseAlarm`, … | store | `Alarms` |
| Framing (`protocol/frame-decoder.js`, `escape.js`, `packet.js`) | buffer of the decoder | `push`, `escape`, `unescape` | sessions | `Framing` |
| Business frames (`protocol/tt-elock.js`) | none | encode, decode | command service, simulator | `BusinessFrame` |
| Locations and bodies (`protocol/location.js`, `messages.js`, `bytes.js`) | none | encode, decode, summarise | handler, simulator | `Bytes`, `LocationReport`, `MessageBodies`; `Codecs` puts the library together |
| Start-up (`index.js`, `platform.js`, `db/migrate.js`) | `schema_migrations`, ports | migrate, recover, listen, stop | everything | `Startup` |
| Lock (`simulator/device.js`, `simulate-device.js`) | state, key, code, phase of the handshake | handshake, lock operations, keypad, tamper | server | `SealKey`, `Authentication`, `CommandService` |
| REST API (`api/app.js`) | requests between two awaits | commands with `?wait=true`, diagnostics, details, PATCH | command service, handler, store | `DeviceSettings`; else in the callers' actions |
| Dashboard (`dashboard/src`) | selected device, its data, form, panel, polls out | select, poll, save, seal | REST API | `Dashboard` |
| Logger, capture, message log, configuration, tools | files, environment | I/O | – | not modelled |

### What is hard

`PROJECT.json` lists each hazard at its line. In groups:

- **Statements of two callbacks in an order nobody wrote a test for**: timer against reply, acknowledgement against
  timer, `sent` against `completed`, offline against online, two reports of alarms, two INSERTs of one device, a
  former connection's UPDATE of key or code against the present one's.
- **State read before an await and used after it**: the session of `execute`, the device of `identify`, the live
  session of `onDisconnect`, the list of active alarms.
- **The network**: retransmitted, late (also by days), lost and unsolicited (keypad) replies; closed sockets; a reconnection while
  the former connection's frames are still being processed; chunk boundaries.
- **Failure**: a statement that fails half way through a handler; a process killed with open commands, connected
  devices, or inside a migration; two processes at once.
- **Something that must happen**: every entry and waiter leaves its map, every closed session
  is finished, a request is answered, a process comes to serve.
- **Two writers of one column**: LockIDs are learned from reports, entered in a form and patched by API clients; key
  and key format are patched and stored by seals; the form shows what was so when it was opened.
- **Edges**: serials that wrap at 0xffff and skip 0, LEN readings that overlap, escapes at the ends of a buffer, lists
  cut in the middle of an element, values that look like headers, local time at the turn of a year.

## 2. Modules

`X.tla` is the component, `MCX.tla` its small instances (definitions for constants), `PP_*.cfg` the runs (`CS_`
`SN_` `AL_` `CO_` `DG_` `AU_` `SK_` `DB_` `SU_`), `*Proofs.tla` the proofs. A definition named `A_B` beside `A` is a mutant:
`A` as a plausible bug would have it. It is used in no specification; `PROJECT.json` says which property it breaks.

- **CommandService** – calls of `execute` (`pc`), the map `pending` with its timers, one row per command, and the frame
  in process of each session (`handler`). A call is `Execute → CommandInserted → Register → Logged → Marked → Noted →
  Return`; `Register` is the synchronous stretch that files the entry, arms the timer and writes the frame. A handler
  is `ReceiveAck → AckApplied → …` or `ReceiveReply → Correlate → LateFound/FallBack → ReplyApplied → …`. The
  device takes a frame, acknowledges or refuses it, operates, may retransmit its reply, and may be operated at its keypad.
  Faults: a connection lost with any prefix of its frames delivered, a restart, a failing statement, each bounded by
  a constant. A session that is not yet authenticated counts as none, since `execute` refuses both alike.
  `credit` and `written` are history: whose operation completed a row, and which frames were written.
  `findCommandByBusinessSerial` looks at the last day only: `old` is the commands that were requested longer ago
  (`DayPasses`, up to `MaxDays` times), and a reply to one of them is not found (`Matching`, `Recent`) and goes on to
  the fallback; `used.late` counts these look-ups (`TooLate`).
- **CommandLifecycle** – the abstract specification: the statuses of a row against what the lock has done.
  `CommandService` implements it (`ImplementsLifecycle`) with atomic statements.
- **Sessions** – sockets, task queues, `identify`/`bind`, the sweep, `onDisconnect`, `stop`. `getByDeviceId` between
  `destroy()` and the socket's `close` event still finds the session, as in the code.
- **Alarms** – reports as jobs of a few statements, the active rows, their history, the device's status columns. A
  frame with a GPS block is two jobs of its connection, the block's before the payload's.
- **Diagnostics** – `request`, the waiter's key (session, message, serial), answers, timeouts, the time
  synchronisation that uses the same serials.
- **Framing** – a stream of packets and noise in arbitrary chunks through `FrameDecoder` and `unescape`. Its loops
  (`Unescape`, `Frames`) are recursive functions on byte sequences.
- **Bytes**, **LocationReport**, **MessageBodies**, **BusinessFrame** – operators only, without state. Lists of items
  and parameters are real bytes, since a value may look like a header; the fixed part of a report is the fields that
  are computed with; a business frame is its lengths, its layout and the places where an additional 0x23 may be.
- **Codecs** – the state machine over them: a message is built by an encoder from a list of elements, a position or an
  operation, possibly cut at any byte, and read by `DecodeBody`; or, in other behaviours, the stream of Framing runs.
  The reference definitions the readings are compared with (`Complete`, `Start`) are beside the properties.
- **Authentication** – the stored code, the device's code and phase, two connection slots reused in turn. The simulator
  ends when its connection does (`Closed`) and is started again by hand, perhaps without the code it was issued
  (`Restart`). Between two runs of the platform the operator may change `AUTH_MODE` and the allowed codes
  (`Reconfigure`; "switch to known_devices after first capture"). `admitted` is history: the codes not issued by the
  platform that a configuration let in when they were presented, which `accept_all` stores.
- **SealKey** – the lock (`applyLockOperation`, keypad, tamper, battery), the keys in the command rows, the stored key.
  Timers and acknowledgements are left to CommandService.
- **DeviceSettings** – the columns that several parties write (`lock_id`, `current_key`, `key_format`): PATCH in its two
  stretches (read and validated, written), learning by the session's copy of the row, a seal from its validation to
  its reply. A key is the format it is written in, which is all that `encodeKey`'s refusal depends on.
  `attributed` and `loose` are history: the LockIDs that were reported or entered for a device, and the devices whose
  key and format were last written one without the other.
- **Dashboard** – extends DeviceSettings by one browser window: `usePoll` for the details of the selected device, the
  form of `DeviceConfig`, which is filled when it is mounted and saved whole, and `CommandPanel`.
- **Startup** – processes, their transactions on the schema, ports, recovery, one device's connection, and commands with
  the statements that their callbacks await (`awaits`): INSERT, `sent`, `acknowledged` or `rejected`, `completed`,
  `timeout`, `send_failed`, applied in any order (`Apply`), with `Register` and `finish` after them. A late one opens a
  final row again; `reopened` is history and holds these rows. A process that ends takes along its memory and the
  statements not yet applied; statements of a process that serves do not fail here (CommandService has that).

Interaction between modules: CommandService takes from Sessions what it relies on, a queue per session and at most one
live session per device (`OpenIsBound`), and gives Startup the meaning of an open row; SealKey takes from
CommandService that a reply finds its command (`RepliesFindTheirCommand`). Dashboard and DeviceSettings share the
settings, as the page and the server share the table; Codecs joins Framing and the bodies as `packet.js` and
`messages.js` do.

## 3. Runs

Twelve runs: ten pass, two are violations. Each run's `about` in `PROJECT.json` is its one-line result. Bounds are
constants of the modules and named there. Where a question needs the same instance under several configurations (which
store, which terminal IDs, which registration mode), the configuration is a variable that `Init` chooses and nothing
changes (`setup`, `instant`, `config`, `single`); a property that needs one of them says so in its premise.

| Run | Instance | Shows |
|---|---|---|
| `cs_postgres` | Postgres; a seal and an unseal; serials 0..2 starting at 1, so that the second command's wraps. `Scope`: the two undisturbed over one connection; the two with one of an operation that fails, a reply repeated, a day that passes at any point, a restart after which the unseal gets the seal's serial (and then they are called while no timer and no frame is being processed); the seal alone with two disturbances, over up to two connections | the frame of a `send_failed` command never left; a reply finds its command; `success` means the lock operated; the stored key is that of an executed seal; a keypad operation completes nothing; an entry in the map has a timer; whichever command a reply is taken for, a success rests on an operation of its kind that the lock carried out for the platform |
| `cs_instant` | in-memory store, two commands, two connections | settled is final, nobody waits in vain, every entry leaves the map, refinement of `CommandLifecycle` |
| `sn_sessions` | two connections: of one unknown device with a failing statement, of two devices in turn, each with either store; a shutdown | the open connection is the bound one; frames go to the device they name; `connection_status` is right when all is quiet; every closed connection is finished |
| `al_alarms` | two alarm types, three reports of every kind, with and without a GPS block, two connections, both stores, a failing statement | one active row per condition, the active alarms are those last reported and agree with the device row |
| `codecs` | a stream of two frames and two noise runs in chunks of up to eight bytes, around the length limit and made of escaped bytes; or one message: up to three of the items or parameters of the instance, cut at every byte; positions in each hemisphere and at turns of month and year; documented data and tail lengths, their neighbours, and some that add up to documented ones | the packets sent are the packets decoded; elements that are complete are recovered and no others; a position is recovered; the data built is the data found, each field where it was put, or a warning is given |
| `dg_requests` | two requests and a time synchronisation with the same response message, two connections, a failing statement | a response is not processed before its waiter exists, answers are a call's own, calls end |
| `au_handshake` | both registration modes, both values of `AUTH_MODE`, which may change between two runs of the platform, with and without an allowed code; two connection slots, three faults, one failing statement | only codes that were issued or let in get in, the row agrees with the device (code, flag), a device is refused only with a code that is not the stored one |
| `sk_key` | two commands, two keys, two local operations, two connections, one failure or restart | a seal is broken by its key or at the keypad only; its key is on record, and stored once the reply is processed |
| `db_dashboard` | two devices, one with a LockID and perhaps a key; two writes by anyone (connection, report, seal, PATCH, save), two polls that may be out at a time, a selection, a failing request | the page comes to show what is stored; a LockID goes to its device and is not lost; the stored key fits its format |
| `su_startup` | three processes of two builds, alone or side by side, three migrations of which one cannot run twice, a command, two kills and a SIGTERM; while the command is about, one process is down (`Scope`) | migrations once, whole, in order, before service; what is open while a process serves is in a process's hands, or was opened again by a late UPDATE; recovery closes nothing that is held; one serves in the end |

Why the bounds are enough. Two commands suffice for correlation: what goes wrong is one command's reply applied to
another. Two sessions suffice for staleness: the one captured and the one that replaced it. In `cs_postgres` two
commands meet one disturbance at most, and no lost connection, failing statement or keypad; the proofs of section 4
cover those for the properties proved, which are all of this run. In `su_startup` the constraint bounds nothing as long
as no command has been issued, so that `ComesUp` is checked there without it. In
`au_handshake` `onDisconnect`'s check and UPDATE are one step (Sessions takes them apart), and the codes are more than
its faults let the platform issue, so that `OnRegister` never waits for one.

`db_dashboard` has two writes because two requests between their awaits are what can cross; the two safety properties
are proved for any number (section 4). One poll that overtakes another needs two. In `codecs` three elements put one
before and one after an element that is cut or looks like a header; the table of lengths is the decoder's own, with
neighbours of its lengths. The proofs of section 4 hold for any lists, lengths, packets and chunks.

Each module with state has a type invariant. Those of CommandService, Sessions, Authentication, Alarms, Diagnostics,
SealKey and Startup are proved, and the safety proofs rest on them; that of Framing is part of its proved invariant; in the
other modules it documents the variables.

Symmetry is declared only in runs without liveness, over sets whose members no definition distinguishes.
`CHECK_DEADLOCK FALSE` stands where the bounded world ends: all commands issued, all frames received, all faults used.

### Where the code does not keep what it says
Two runs check a sentence of the documentation or of a comment and find it violated:

| Run | In short |
|---|---|
| `timer_downgrades` | the timer turns a row whose completion is being written into `timeout` |
| `sent_twice` | a retransmitted reply completes the next command through the fallback |

The models also show the following; the premise of the property named is what keeps it out of the passing runs, and TLC
finds the behaviour when the premise is removed:

- With Postgres a late `sent` or `acknowledged` reopens a final row, possibly for ever (`SettledIsFinal` and
  `ImplementsLifecycle`, checked with the in-memory store only). `OrphansClosed` says what remains true: such a row
  is closed when the next process starts. And a `wait=true` caller may register after the end
  and wait out its own limit (`NobodyWaitsInVain`).
- A reply that is looked up more than a day after its command is not taken for that command (`used.late = 0` in `Plain`,
  the premise of `RepliesFindTheirCommand`, `SuccessMeansExecuted` and `KeyOfAnExecutedSeal`). The fallback may give it
  to another pending command, which command-service.js:4-5 ("A command is successful only when the device returns the
  success result code for it") excludes, and the key of a seal that the lock never executed is then stored.
- Where two commands of a device share a serial, the second takes the first one's entry, and when it has left the map
  before the first one's timer fires, nobody ends the first one's wait but its own limit (`NoSerialReuse`, a premise
  of `SettledIsFinal` and `NobodyWaitsInVain` that the proof of the latter brought to light).
- The offline UPDATE of an old connection may follow the online UPDATE of a new one (`OnlineIsConnected`, in-memory
  store only), and a connection that changed its terminal ID leaves its first device online (`OneTerminalEach`).
- Reports of a former and of the new connection that interleave may raise an alarm twice, apply the older report
  last, or both clear an alarm (`OneByOne`).
- A registration still queued on a former connection replaces the code the device got in with (`InTurn`).
- The stored key may be that of a former seal when the device is back before its last replies are processed
  (`Overlap` of SealKey).
- A second process started beside a serving one times out the commands of the first before it finds the port taken
  (`single`).

- A saved form writes back the `key_format` it was opened with, and a key that was typed earlier: the stored key may
  then not fit its format, and a seal without a key is refused (`loose`). The same for a PATCH of one of the two.
- An operator's LockID that is newer than the session's copy of the row is replaced by the one the lock reports next
  (`Learn`); `LockIdsAreTheirs` takes both as the device's.
- Where a report has both 0xE1 and 0x5D, the later one tells the base stations (`SummaryOrderFree` leaves them out). A
  reply of 25 bytes of data and 38 more reads as one of 35 and 28 (`Ambiguous`).
- A reply of 25 bytes and 10 more, which is no documented length, reads without a warning as one of 35 and none, if
  the last of the ten is 0x23; likewise 25 and 45 or 48 as 35 and 35 or 38 (`Coincides`, the premise of
  `NoSilentMisread`; the attempt to prove the property with a weaker premise brought it to light, since the run's
  lengths had no such pair).

Four behaviours are part of the actions and have no property, because the code has nothing that prevents them: a reply
received on a connection that closed before it was processed is dropped (`ReceiveReply`); the first frame of a second
first connection is dropped before it is logged (`DeviceCreated`); a shutdown closes the store under a disconnection
that was already in progress (`StopBegins`, `StopEnds`); an older connection whose look-up is slow binds after a newer
one and closes it (`Bind`).

### Fairness
- CommandService, Sessions, Diagnostics: weak fairness of every step the event loop owes (statements end, timers fire,
  queued tasks run, a destroyed socket emits `close`). Users, the network, the device and faults owe nothing.
- Dashboard: the interval of `usePoll` goes on, and a request that is out is answered (weak fairness of `Ask`, `Serve`
  and `Arrive`), except that a bounded number fails. The operator, other clients and devices owe nothing. The writes
  being bounded, the view must settle on the last of them.
- Startup: `docker-compose.yml` has `restart: unless-stopped`, hence weak fairness of `Start`; a process goes on with
  its start-up and its exit. Kills are bounded; failed starts are not.

## 4. Proofs

| Theorem | Module | States |
|---|---|---|
| `TypeCorrect` | CommandServiceProofs | `[]TypeOK` of CommandService |
| `KeypadTheorem` | CommandServiceProofs | `[]KeypadNeverCompletes` |
| `SendFailedTheorem` | CommandServiceProofs | `[]SendFailedNeverSent` |
| `PendingTimerTheorem` | CommandServiceProofs | `[]PendingHasTimer` |
| `ReplyFindsItsCommand` | CommandServiceProofs | `[]RepliesFindTheirCommand` |
| `SuccessWasExecuted` | CommandServiceProofs | `[]SuccessMeansExecuted` |
| `KeyWasSealedWith` | CommandServiceProofs | `[]KeyOfAnExecutedSeal` |
| `SuccessRests` | CommandServiceProofs | `[]SuccessRestsOnOperation` |
| `SettledRowsAreFinal` | CommandServiceProofs | `[]SettledIsFinal`, in-memory store |
| `WaitersAreAnswered` | CommandServiceProofs | `[]NobodyWaitsInVain`, in-memory store |
| `ServiceImplementsLifecycle` | CommandServiceProofs | CommandService implements CommandLifecycle, in-memory store, while nothing is repeated, reused or failed |
| `TypeCorrect` | ConnectionProofs | `[]TypeOK` of Sessions |
| `OpenSessionIsBound` | ConnectionProofs | `[]OpenIsBound` |
| `FramesReachTheirDevice` | ConnectionProofs | `[]FramesGoToTheirDevice` |
| `OnlineMeansConnected` | ConnectionProofs | `[]OnlineIsConnected` |
| `NothingIsLost` | ConnectionProofs | `[]NothingLost` of Codecs (Framing) |
| `CodecsInvariant` | ConnectionProofs | `[]CodecsInv` |
| `DataIsRecovered` | ConnectionProofs | `[]DataRecovered` |
| `NoMisreadIsSilent` | ConnectionProofs | `[]NoSilentMisread` |
| `ElementsAreRecovered` | ConnectionProofs | `[]ElementsRecovered` |
| `SummaryIsOrderFree` | ConnectionProofs | `[]SummaryOrderFree`, which no run checks |
| `FixIsRecovered` | ConnectionProofs | `[]FixRecovered` |
| `TypeCorrect` | AuthenticationProofs | `[]TypeOK` of Authentication |
| `OnlyKnownGetIn` | AuthenticationProofs | `[]OnlyKnownCodes` |
| `RowAgreesWithDevice` | AuthenticationProofs | `[]RowAgrees` |
| `IssuedIsAccepted` | AuthenticationProofs | `[]NotTurnedAway` |
| `TypeCorrect` | AlarmsProofs | `[]TypeOK` of Alarms |
| `OneAlarmPerCondition` | AlarmsProofs | `[]OneActiveRow` |
| `AlarmsAreThoseReported` | AlarmsProofs | `[]AlarmsMatchReport` |
| `ResponsesAreAwaited` | DiagnosticsProofs | `[]NoResponseTooEarly` |
| `AnswersBelong` | DiagnosticsProofs | `[]AnswersAreOwn`, while serials last |
| `TypeCorrect` | DiagnosticsProofs | `[]TypeOK` of Diagnostics, while serials last |
| `TypeCorrect` | SealKeyProofs | `[]TypeOK` of SealKey |
| `LockKeepsItsSeal` | SealKeyProofs | `[]SealUnbroken` |
| `KeyStaysOnRecord` | SealKeyProofs | `[]KeyIsOnRecord` |
| `StoredKeyOpensTheLock` | SealKeyProofs | `[]StoredIsSealKey`, without `Overlap` |
| `StoredKeyAlwaysFits` | DashboardProofs | `[]StoredKeyFits` |
| `LockIdsAlwaysTheirs` | DashboardProofs | `LockIdsAreTheirs` |
| `StartupTypeCorrect` | StartupProofs | `[]TypeOK` of Startup |
| `MigrationsAppliedOnce` | StartupProofs | `[]AppliedOnce` |
| `MigrationsInOrder` | StartupProofs | `[]InOrder` |
| `SchemaBeforeService` | StartupProofs | `[]SchemaIsThere` |
| `NoOrphans` | StartupProofs | `[]OrphansClosed` |
| `OnlyOrphansClosed` | StartupProofs | `OnlyThePastIsClosed` |

### Assumptions

The named ASSUMEs of the modules (`CommandAssumption`, `SessionsAssumption`, `AuthenticationAssumption`,
`AlarmsAssumption`, `DiagnosticsAssumption`, `SealKeyAssumption`, `StartupAssumption`, `DeviceSettingsAssumption`,
`DashboardAssumption`) say what kind of value each constant is; TLC evaluates them in every run. Three say more: the keys of the first rows fit their formats; a setup
of Sessions with the in-memory store has no failing statement, since of those modelled `MemoryStore` rejects only the
INSERT of a device that has a row (`DeviceCreated`); and in
CommandService no restart goes with the in-memory store, whose rows do not outlive the process. The theorems
hold for any number of commands, sessions, requests, alarm types, reports, processes, migrations, devices and polls,
both stores and every bound on writes and faults, except where one of these hypotheses is stated:

- `InstantStore` (part 3 of CommandServiceProofs): the in-memory store. With Postgres the three statements are false; section 3
  tells the behaviours.
- `[](Plain /\ used.failure = 0)` (`ServiceImplementsLifecycle`): the lock echoes the serial, nothing is transmitted
  twice, no serial is used twice, no statement fails. These are the terms on which the abstract specification speaks of one
  operation per command. Connections may be lost, timers fire early or late and the keypad be used.
- `Plain` is also the premise of `RepliesFindTheirCommand`, `SuccessMeansExecuted` and `KeyOfAnExecutedSeal`: the serial
  is echoed, none is used twice, no reply is transmitted twice or looked up more than a day after its command.
  `SuccessRestsOnOperation` has no premise.
- `[]SerialsLast` (DiagnosticsProofs): no connection has used its last header serial. A serial that comes round again
  could only be mistaken for one that is still awaited, which takes 65,536 messages within one waiter's timeout.
  `ResponsesAreAwaited` does not need it.
- `~Overlap` (`StoredKeyOpensTheLock`): a former connection's replies are processed before the device is back. With
  overlap the statement is false (section 3).

The assumptions of the codecs say what their constants stand for:

- `FramingAssumption`: a packet, escaped, fits into the buffer. The longest that `encodePacket` writes is a header of
  16 bytes, a body of 1,023 and a checksum, at most 2,080 bytes escaped; `MAX_FRAME_LENGTH` is 4,096 unless it is
  configured otherwise. And noise, up to `MaxNoise` runs of it and a delimiter, holds no valid packet: noise that
  happens to be a packet with a right checksum would be delivered, and nothing in a receiver could tell.
- `BusinessFrameAssumption`: lengths are natural numbers, and data is not empty.
- `CodecsAssumption`: an item has an id of one byte and a parameter one of four; the length of a value and the number
  of elements fit into their byte; the local year of a position's instant has two digits (`encodeBcdTime` writes no
  more).

### How the proofs go

*CommandService.* None of the three safety properties is inductive. `KeypadNeverCompletes` needs to know why the
fallback does not take a keypad's reply: such a frame has serial 0 and source `keypad` in every queue (`FramesOK`)
and in every handler (`HandlersOK`), no command is filed under 0 (`PendingOK`; `NextBusinessSerial` skips 0,
`SerialNotZero`), and so no handler past correlation holds it without a command of its own. `SendFailedNeverSent` needs
that a call which may still report `send_failed` has not written its frame (`WrittenOK`). `PendingHasTimer` needs
that an entry belongs to a call that has begun. `CallInv` is the conjunction; there is one lemma per kind of step, and
frame lemmas that say what each kind leaves alone.

*Correlation.* That a reply finds its command is a fact about its whole way. `TransitInv` follows it there and back: a
frame that goes down was written and the lock has not seen it (`DownOK`), a written command has a serial (`SerialOK`), a
frame that comes up tells what the lock did (`FramesTell`). `CorrelationInv` says what becomes of it: there is one
reply to a command, in a queue or in a handler (`OneReply`); as long as it is awaited, the row is among those that the
look-ups by serial find (`RowsTell`: neither completed, rejected nor send_failed, though perhaps timed out, which is
what `LateFound` is for); and a handler that has found a row has found the right one (`HandlersTell`). The entry in the
map and the row have the same serial, so both ways of correlating agree, which is why a timer in between does no harm;
and as long as no look-up came too late, none has missed its row. What is left without these provisos
(`SuccessRestsOnOperation`) is a fact about each frame alone: one that reports a success names the operation it comes
from, in a queue and in a handler, and a row that it completes as successful has that operation's type.

*CommandService with atomic statements.* `OneAtATime`: with the in-memory store at most one call, timer or
handler is half way. `OneAck` and `AckedOnce`: a command's 0x0001 exists once, and is matched once. `RowsAtomic` ties the
three parts of the code that know of a command to its row: the call (`CallRow`), the entry and its timer (`EntryRow`:
an entry's row is open, unless its removal has begun) and the handler that has found it (`HandlerRow`). From these,
`SettledIsFinal` and `NobodyWaitsInVain` follow at once, and the refinement is a case per action:
`CommandInserted` is the abstract `Record`, a refused call's insert `Refuse`, the catch of `execute` `SendFail`, `Marked` `Send`,
`AckApplied` `Acknowledge` or `Reject`, `TimeoutApplied` `Expire`, `ReplyApplied` `Complete`, the lock's receiving and
operating `Take` and `Operate`; every other step leaves `status`, `outcome` and `lock` as they are.

*Sessions.* `OpenIsBound` needs which phase a session is in: what it has been given by `identify`, whether it has left
the maps (`Phases`). `FramesGoToTheirDevice` needs that the session's device is the one of the frame from the look-up
to the end of the task (`IdentifiedOK`). `OnlineIsConnected` has two halves. A marked device has a connection because a
session that has bound it is not finished (`OnlineHasSession`), and no other device's frames come on that connection (`IdsOK`).
A connected device is marked because the one callback that runs is about to do it, and none that is about to mark it
offline has been overtaken (`Exclusive`, `Marked`).

*Induction.* The loops of the codecs are recursive functions, and what they compute is proved by induction over a set:
a non-empty set of natural numbers has a least one (`Smallest`, from the theorems about finite sets), hence a set that
contains each number whose predecessors it contains is all of `Nat` (`Induction`), hence a function by recursion on a
rank exists (`Recursion`, by induction over the functions on initial segments). Each recursive definition gets an equation
from it (`UnescapeEquation`, `FramesEquation`, `WalkEquation`, `SummaryEquation`, `FlattenFunction`).

*Framing.* `unescape` undoes `escape` (`UnescapeEscape`) and accepts nothing else (`EscapeUnescape`). Scanning x and then
y with what x left in the buffer is scanning both at once (`ScanConcat`), so chunks do not matter; what is given up with
a buffer that is too long cannot have been part of a packet, because packets fit (`DroppedBuffer`). The invariant
`FramingInv` speaks of what the receiver is *going* to hold when all that is written has arrived (`Remaining`): what was
delivered and what will be are the packets sent, and a receiver in step will hold only noise, which the first delimiter
of the next frame ends (`FrameIsDelivered`). A push changes nothing of this, a frame adds itself.

*Codecs.* `CodecsInv` is that the message is one its encoder built, whole or cut, and the reading what the decoder makes
of it; the rest is about the decoders. `ElementsRecovered`: `Walk` at the first byte of the k-th element reads that
element, or finds it broken if it is cut (`PieceAt`), and so, from the last element backwards, reads what is complete
(`WalkRecovers`). `DataRecovered`: the reading meant is a candidate, and a candidate that precedes it would make the
frame ambiguous (`Recovered`); the fields are then compared one by one (`FieldsRead`). `NoSilentMisread`: a reading
without warning has a known length and a known tail, and both add up to the frame's (`MisreadWarned`).
`SummaryOrderFree`: what a field of the summary is can be said without an order when no id occurs twice (`SumsUp`).
`FixRecovered`: year, month and day of an instant stand for it (`MonthBounds`, over the table `Calendar`), and the signs
of a position are in its status bits (`PositionRecovered`).

*Authentication.* A device and its session take turns: a connection has at most one message, on its way up, queued, in a
handler or on its way down (`Turns`). `OnlyKnownCodes` needs that the row, and the copy of it a handler took when its message
was begun, have no code that was neither issued nor admitted, since it is what the code is compared with
(`CodesKnown`); `admitted` only grows, so a change of the configuration does not matter. `RowAgrees` is a fact about
each phase: what is on the connection is what the phase asks for, and an acceptance on its way rests on a row that has
the code (`Handshake`, where connections follow each other; `FactoryOnly`, where nobody is registered). `NotTurnedAway`
is the same for a refusal: it was given to another code than the one stored then, and nothing has been stored since.

*Alarms.* Where reports are processed one after the other, at most one connection is busy (`Orderly`). What
`AlarmsMatchReport` says of the end is said of the middle by what the handler has still to do: either a job that settles
a source is still to come, and none that touches the source comes after it, or the alarms that will be active when the
planned writes are done are those reported (`ReportKept`, `Stays`). That the jobs of a report begin so is a fact about
their order (`JobsOfReport`, over the concatenations of `JobsOf`): the payload's jobs come after those of the GPS block,
`clear` after both. The row's lock status is written just before the alarms of the lock are compared with it, every time
(`Paired`), so that the two differ only there (`StatusKept`). `OneActiveRow` needs that what is planned to be raised is
not active (`Fresh`).

*Diagnostics.* `NoResponseTooEarly` needs that a session does one task at a time (`Turn`) and that a response on its way
belongs to a call that waits, or whose task is still running (`Registered`). `AnswersAreOwn` needs that everything with
one serial on one connection (frame, response, waiter) comes from one call (`OneOrigin`).

*SealKey.* `SealUnbroken` and `KeyIsOnRecord` need that a command on its way, or the one that sealed the lock, is
recorded with its key (`KeyInv`). `StoredIsSealKey` is about order: each command has one reply (`OnceOnTheWay`,
`RepliesOpen`), only the live connection has any to process (`OneSession`), replies are processed in the order in which the
lock operated, so that no seal's reply is behind that of the latest seal (`InOrder`), and none is left when its key is
stored (`LastSeal`). `OrderInv` is the conjunction.

*Startup.* `AppliedOnce` needs that a transaction that has noted its version will not commit it a second time: nobody
has recorded it (`Fresh`) and nobody else has noted it (`Alone`), which is what the primary key of
`schema_migrations` is for. `InOrder` and `SchemaIsThere` need that what a process has passed in its loop is
recorded (`Track`). Four lemmas cover what all steps do to the invariant: leave it alone, go on, go down, commit.
Recovery: only a process that has served has anything in memory or on its way to the rows (`MemoryOK`), and from its
recovery on every open command has its entry, is on the way to one or to `send_failed`, or was reopened (`Keeps`), and
its `finish` is not due unless it was reopened (`OwnCommands`, where `single`): `finish` follows a statement that closed
the row, and one that opened it again since has left its trace. No row opens out of nothing, because all but the INSERT
comes after it (`RowsOK`).

*Dashboard.* `StoredKeyFits` needs that what is on its way to the row fits: every seal in flight (`SealsFit`) and every
PATCH past its validation that gives both columns (`PatchesFit`). `LockIdsAreTheirs` needs where a LockID may come
from: the row and the requests (`ServerLocks`), the answers on the way and the form (`PageLocks`), all of them for the
selected device, which is where the `key` of `DeviceDetail` matters (`LockSelect`).

Only model-checked: liveness (outside the prover's reach under fairness): `EntriesLeave`, `SessionsFinish`, `CallsEnd`,
`ViewConverges`, `ComesUp`; and the three disagreements of section 3, which are violations.

## 5. What is abstracted or left out

- Of time, whether a day has passed since a command (`old`), nothing else; a timer may fire at any moment. Of a change of
  configuration, `AUTH_MODE` and the allowed codes; `REGISTRATION_MODE` stays as it is.
- Message texts, lock IDs, timestamps, log lines, masking and presentation. Data are model values or small sets.
- Validation in `execute` (type, LockID, key format) ends a call before it changes any state.
- Events (`events.emit`) have no listener in the server that changes state.
- The JT/T 808 header, GBK strings and message bodies of fixed fields (registration, acknowledgements, attributes);
  alarm bits and other flags that are only named; key formats; BLE tools and the scenario runner.
- Of the dashboard: the device list and the tables, which are polled by the same hook; the map, tables and badges. Of
  PATCH: `display_name`, and an empty string, which clears a column and which the dashboard never sends for these.
- Lists longer than 255 bytes per element: `Encoded` has the `% 256` of the length byte, and no caller reaches it.
- JT/T 808 header serials wrap after `MaxSerial` in Diagnostics; the run's `MaxSerial` and `SerialsLast` keep them from
  it: 65,536 messages on one connection within one 15 s timeout are not met.
- Postgres is external: atomic statements, transactions that vanish with their connection, uniqueness that waits
  for a concurrent transaction. `CREATE TABLE IF NOT EXISTS` by two processes at once may fail in Postgres; the model
  counts that among the deaths of a process.

## 6. Plan

Done: the core (CommandService and its abstract specification), then in the order of their importance Sessions, Alarms,
Framing, Diagnostics, BusinessFrame, Authentication, SealKey, Startup; the codecs of locations, parameters and business
data with Codecs; DeviceSettings and Dashboard; the proofs above.

Next:
1. **Proofs** – the type invariants of Dashboard and CommandLifecycle; the refinement without the proviso on serials.
2. **Composition** – Sessions with CommandService, so that the connection a command captured is a session with its
   queue and its `close` event; Sessions with Alarms for reports of a replaced connection.
3. **The rest of the codecs** – the header and the bodies of fixed fields, if a property is found that a table of
   examples would not settle.
