------------------------------ MODULE Startup ------------------------------
(***************************************************************************)
(* A process of the server from start to end: the migrations of            *)
(* server/src/db/migrate.js, the order of server/src/index.js and          *)
(* createPlatform (platform.js), recoverAfterRestart and shutdown.         *)
(*                                                                         *)
(* Several processes share one Postgres database and one host, so also its *)
(* two ports.  docker-compose keeps one of them running (`restart:         *)
(* unless-stopped`); nothing keeps a second from being started by hand     *)
(* (`npm start`, `npm run migrate`), and no step of the start-up asks      *)
(* whether there is another before the port is bound.                      *)
(*                                                                         *)
(* Of a command the model keeps whether its row is open, and the statements*)
(* its callbacks await: the database applies them in any order, and a      *)
(* process that ends takes along those it has not applied.  (Statements of *)
(* a serving process do not fail here; CommandService has that.)           *)
(***************************************************************************)
EXTENDS Integers

CONSTANTS
  Servers,        \* processes
  NoServer,
  NumMigrations,  \* files of server/migrations in the newest build
  Build,          \* how many of them the build of each process has
  Colliding,      \* migrations whose SQL fails when it has run before
  Commands,
  OneAtATime,     \* is a process started only when none runs? or both cases
  MaxDeaths,      \* bound: processes killed, or ended by a failing statement
  MaxStops        \* bound: SIGTERMs

Migrations == 1..NumMigrations

ASSUME StartupAssumption ==
  /\ NoServer \notin Servers
  /\ NumMigrations \in Nat
  /\ Build \in [Servers -> 0..NumMigrations]
  /\ Colliding \subseteq Migrations
  /\ OneAtATime \subseteq BOOLEAN
  /\ MaxDeaths \in Nat /\ MaxStops \in Nat

VARIABLES
  schema,    \* how often the committed SQL of each migration has run
  recorded,  \* rows of schema_migrations
  at,        \* what each process is about to do
  todo,      \* files it has not passed in the loop of migrate
  status,    \* status of each row of commands
  pending,   \* the commands with an entry in CommandService.pending
  acked,     \* those of them whose entry.acked is set
  armed,     \* those of them whose entry.timer is armed
  awaits,    \* what the callbacks of each process are about to do to a row,
             \* or to its command once a statement has been applied
  reopened,  \* the rows a late UPDATE of a process opened again (history)
  link,      \* the process the device is connected to
  single,    \* is a process started only when none runs?
  deaths, stops

database == <<schema, recorded>>
memory   == <<pending, acked, armed, awaits, reopened>>
commands == <<status, memory>>
used     == <<deaths, stops, single>>
vars     == <<database, at, todo, commands, link, used>>

-----------------------------------------------------------------------------
\* `open` is pending, sent or acknowledged.
Final == {"completed", "rejected", "timeout", "send_failed"}

\* The statements of execute, onTerminalAck, onTimeout and onOperationReply, by
\* the status they write, and what follows one: "register" the INSERT, "finish"
\* the last UPDATE.  "log" is the TX log, which is no statement on the row.
Statements == {"insert", "sent", "acknowledged"} \cup Final
Work == [cmd: Commands, of: Statements \cup {"register", "log", "finish"}]

Labels == {"down", "reading", "migrating", "ran", "noted", "recovering",
           "listening", "opening", "serving", "stopping"}

\* Who has the port of the devices, and who that of the API.
Accepting(p) == at[p] \in {"opening", "serving"}
ApiOpen(p)   == at[p] \in {"serving", "stopping"}

\* The steps of index.js and createPlatform once the schema is up to date.
Follows(label) ==
  CASE label = "migrating"  -> "recovering"
    [] label = "recovering" -> "listening"
    [] label = "listening"  -> "opening"
    [] label = "opening"    -> "serving"
    [] label = "serving"    -> "serving"

\* Mutant: it is called again later, as when the database comes back.
RecoversIn_Later == {"recovering", "serving"}

RecoversIn == {"recovering"}

\* Mutant: a migration that failed is logged and the server starts.
AfterError_GoesOn == "recovering"

\* An error during start-up leaves index.js; the process ends.
AfterError == "down"

Goto(p, label) == at' = [at EXCEPT ![p] = label]

\* What a process takes along when it ends: its memory, its connections and
\* its transaction, which the database rolls back.
Gone(p) ==
  /\ pending' = [pending EXCEPT ![p] = {}]
  /\ acked' = [acked EXCEPT ![p] = {}]
  /\ armed' = [armed EXCEPT ![p] = {}]
  /\ awaits' = [awaits EXCEPT ![p] = {}]
  /\ reopened' = [reopened EXCEPT ![p] = {}]
  /\ todo' = [todo EXCEPT ![p] = {}]
  /\ link' = IF link = p THEN NoServer ELSE link

Fails(p) == Goto(p, AfterError) /\ Gone(p) /\ UNCHANGED <<database, status, used>>

-----------------------------------------------------------------------------
Init ==
  /\ schema = [f \in Migrations |-> 0]
  /\ recorded = {}
  /\ at = [p \in Servers |-> "down"]
  /\ todo = [p \in Servers |-> {}]
  /\ status = [c \in Commands |-> "none"]
  /\ pending = [p \in Servers |-> {}]
  /\ acked = [p \in Servers |-> {}]
  /\ armed = [p \in Servers |-> {}]
  /\ awaits = [p \in Servers |-> {}]
  /\ reopened = [p \in Servers |-> {}]
  /\ link = NoServer
  /\ single \in OneAtATime
  /\ deaths = 0 /\ stops = 0

-----------------------------------------------------------------------------
(* migrate *)

Start(p) ==
  /\ at[p] = "down"
  /\ single => \A q \in Servers : at[q] = "down"
  /\ Goto(p, "reading")
  /\ UNCHANGED <<database, todo, commands, link, used>>

\* Mutant: the versions that are recorded are not skipped.
ReadVersions_All(p) ==
  /\ at[p] = "reading"
  /\ todo' = [todo EXCEPT ![p] = 1..Build[p]]
  /\ Goto(p, "migrating")
  /\ UNCHANGED <<database, commands, link, used>>

\* schema_migrations is created if need be and read, once, before the loop.
ReadVersions(p) ==
  /\ at[p] = "reading"
  /\ todo' = [todo EXCEPT ![p] = 1..Build[p] \ recorded]
  /\ Goto(p, "migrating")
  /\ UNCHANGED <<database, commands, link, used>>

\* Mutant: the files in the order readdir happens to return them.
Due_Unsorted(p, f) == f \in todo[p]

\* The file the loop has come to: the files are sorted.
Due(p, f) == f \in todo[p] /\ \A g \in todo[p] : f <= g

\* A statement that would break a uniqueness in the catalogue, or the key of
\* schema_migrations, waits for the transaction it depends on.
RunsBeside(p, f)  == \E q \in Servers \ {p} : at[q] \in {"ran", "noted"} /\ Due(q, f)
NotedBeside(p, f) == \E q \in Servers \ {p} : at[q] = "noted" /\ Due(q, f)

\* The SQL creates what is there already.
Collides(f) == f \in Colliding /\ schema[f] > 0

\* BEGIN, then the SQL of the file.
RunSql(p, f) ==
  /\ at[p] = "migrating" /\ Due(p, f)
  /\ ~(f \in Colliding /\ RunsBeside(p, f))
  /\ \/ /\ Collides(f)
        /\ Fails(p)
     \/ /\ ~Collides(f)
        /\ Goto(p, "ran")
        /\ UNCHANGED <<database, todo, commands, link, used>>

\* Mutant: INSERT ... ON CONFLICT DO NOTHING.
AlreadyNoted_Never(f) == FALSE

\* The version is the primary key.
AlreadyNoted(f) == f \in recorded

NoteVersion(p, f) ==
  /\ at[p] = "ran" /\ Due(p, f)
  /\ ~NotedBeside(p, f)
  /\ \/ /\ AlreadyNoted(f)
        /\ Fails(p)
     \/ /\ ~AlreadyNoted(f)
        /\ Goto(p, "noted")
        /\ UNCHANGED <<database, todo, commands, link, used>>

Commit(p, f) ==
  /\ at[p] = "noted" /\ Due(p, f)
  /\ schema' = [schema EXCEPT ![f] = @ + 1]
  /\ recorded' = recorded \cup {f}
  /\ todo' = [todo EXCEPT ![p] = @ \ {f}]
  /\ Goto(p, "migrating")
  /\ UNCHANGED <<commands, link, used>>

UpToDate(p) ==
  /\ at[p] = "migrating" /\ todo[p] = {}
  /\ Goto(p, Follows("migrating"))
  /\ UNCHANGED <<database, todo, commands, link, used>>

-----------------------------------------------------------------------------
(* createPlatform *)

\* Mutant: recoverAfterRestart is not called.
Recover_Never(p) ==
  /\ at[p] \in RecoversIn
  /\ Goto(p, Follows(at[p]))
  /\ UNCHANGED <<database, todo, commands, link, used>>

\* failOpenCommands: every open row, whoever opened it.
Recover(p) ==
  /\ at[p] \in RecoversIn
  /\ status' = [c \in Commands |-> IF status[c] = "open" THEN "timeout"
                                                         ELSE status[c]]
  /\ Goto(p, Follows(at[p]))
  /\ UNCHANGED <<database, todo, memory, link, used>>

\* A port that is taken: EADDRINUSE.
Listen(p) ==
  /\ at[p] = "listening"
  /\ \/ /\ \E q \in Servers : Accepting(q)
        /\ Fails(p)
     \/ /\ \A q \in Servers : ~Accepting(q)
        /\ Goto(p, Follows("listening"))
        /\ UNCHANGED <<database, todo, commands, link, used>>

OpenApi(p) ==
  /\ at[p] = "opening"
  /\ \/ /\ \E q \in Servers : ApiOpen(q)
        /\ Fails(p)
     \/ /\ \A q \in Servers : ~ApiOpen(q)
        /\ Goto(p, Follows("opening"))
        /\ UNCHANGED <<database, todo, commands, link, used>>

-----------------------------------------------------------------------------
(* The platform at work, as far as its end concerns it *)

Connect(p) ==
  /\ Accepting(p) /\ link = NoServer
  /\ link' = p
  /\ UNCHANGED <<database, at, todo, commands, used>>

\* The connection ends, and the platform processes its end.
Disconnect(p) ==
  /\ link = p
  /\ link' = NoServer
  /\ UNCHANGED <<database, at, todo, commands, used>>

Awaited(p, c) == {w \in awaits[p] : w.cmd = c}

\* Process p is done with `from` of command c, and goes on with `next`.
GoesOn(p, c, from, next) ==
  /\ [cmd |-> c, of |-> from] \in awaits[p]
  /\ awaits' = [awaits EXCEPT ![p] =
                  (@ \ {[cmd |-> c, of |-> from]})
                  \cup {[cmd |-> c, of |-> n] : n \in next}]

Awaits(p, c, statement) ==
  awaits' = [awaits EXCEPT ![p] = @ \cup {[cmd |-> c, of |-> statement]}]

\* execute: the INSERT of the row.
Issue(p, c) ==
  /\ at[p] = "serving" /\ link = p /\ status[c] = "none"
  /\ \A q \in Servers : Awaited(q, c) = {}
  /\ Awaits(p, c, "insert")
  /\ UNCHANGED <<database, at, todo, status, pending, acked, armed, reopened,
                 link, used>>

\* The entry, the frame and the timer; or the session is closed by now, the
\* write throws and the entry is taken out again.
Register(p, c) ==
  /\ \/ /\ link = p
        /\ GoesOn(p, c, "register", {"log"})
        /\ pending' = [pending EXCEPT ![p] = @ \cup {c}]
        /\ armed' = [armed EXCEPT ![p] = @ \cup {c}]
     \/ /\ GoesOn(p, c, "register", {"send_failed"})
        /\ UNCHANGED <<pending, armed>>
  /\ UNCHANGED <<database, at, todo, status, acked, reopened, link, used>>

\* The TX log is written: 'sent' if the entry is there and not acknowledged.
Logged(p, c) ==
  /\ GoesOn(p, c, "log", IF c \in pending[p] \ acked[p] THEN {"sent"} ELSE {})
  /\ UNCHANGED <<database, at, todo, status, pending, acked, armed, reopened,
                 link, used>>

\* onTerminalAck, for an entry.
Ack(p, c) ==
  /\ link = p /\ c \in pending[p]
  /\ acked' = [acked EXCEPT ![p] = @ \cup {c}]
  /\ \E update \in {"acknowledged", "rejected"} : Awaits(p, c, update)
  /\ UNCHANGED <<database, at, todo, status, pending, armed, reopened, link,
                 used>>

\* onOperationReply, for an entry or for a row that is open or timed out.
Reply(p, c) ==
  /\ link = p
  /\ c \in pending[p] \/ status[c] \in {"open", "timeout"}
  /\ Awaits(p, c, "completed")
  /\ UNCHANGED <<database, at, todo, status, pending, acked, armed, reopened,
                 link, used>>

\* The timer fires; onTimeout goes on if the entry is there.
Expire(p, c) ==
  /\ c \in armed[p]
  /\ armed' = [armed EXCEPT ![p] = @ \ {c}]
  /\ Awaits(p, c, "timeout")
  /\ UNCHANGED <<database, at, todo, status, pending, acked, reopened, link,
                 used>>

\* The database applies a statement.  None of the UPDATEs looks at the status
\* it replaces: one that comes late opens a row that was final.
Apply(p, c, statement) ==
  /\ GoesOn(p, c, statement, CASE statement = "insert" -> {"register"}
                                [] statement \in Final \ {"send_failed"} -> {"finish"}
                                [] OTHER -> {})
  /\ status' = [status EXCEPT ![c] = IF statement \in Final THEN statement
                                                            ELSE "open"]
  /\ reopened' = [reopened EXCEPT ![p] =
        IF statement \in Final THEN @ \ {c}
        ELSE IF status[c] \in Final THEN @ \cup {c} ELSE @]
  /\ UNCHANGED <<database, at, todo, pending, acked, armed, link, used>>

\* finish: the entry and its timer are gone.
Finish(p, c) ==
  /\ GoesOn(p, c, "finish", {})
  /\ pending' = [pending EXCEPT ![p] = @ \ {c}]
  /\ acked' = [acked EXCEPT ![p] = @ \ {c}]
  /\ armed' = [armed EXCEPT ![p] = @ \ {c}]
  /\ UNCHANGED <<database, at, todo, status, reopened, link, used>>

-----------------------------------------------------------------------------
(* The end *)

\* SIGTERM once the handlers are there: the listener closes, its sessions with
\* it, and waits for their ends to be processed.
Stop(p) ==
  /\ at[p] = "serving" /\ stops < MaxStops
  /\ stops' = stops + 1
  /\ Goto(p, "stopping")
  /\ link' = IF link = p THEN NoServer ELSE link
  /\ UNCHANGED <<database, todo, commands, deaths, single>>

\* The API closes, the timers are cleared and the process exits.
Exit(p) ==
  /\ at[p] = "stopping"
  /\ Goto(p, "down") /\ Gone(p)
  /\ UNCHANGED <<database, status, used>>

\* The process is killed, or a statement of its start-up fails; `npm run
\* migrate` ends like this once the schema is up to date.
Dies(p) ==
  /\ at[p] # "down" /\ deaths < MaxDeaths
  /\ deaths' = deaths + 1
  /\ Goto(p, "down") /\ Gone(p)
  /\ UNCHANGED <<database, status, stops, single>>

-----------------------------------------------------------------------------
Migrating(p) ==
  \/ ReadVersions(p)
  \/ \E f \in Migrations : RunSql(p, f) \/ NoteVersion(p, f) \/ Commit(p, f)
  \/ UpToDate(p)

StartingUp(p) == Migrating(p) \/ Recover(p) \/ Listen(p) \/ OpenApi(p)

Working(p) ==
  \/ Connect(p) \/ Disconnect(p)
  \/ \E c \in Commands :
       \/ Issue(p, c) \/ Register(p, c) \/ Logged(p, c)
       \/ Ack(p, c) \/ Reply(p, c) \/ Expire(p, c)
       \/ \E statement \in Statements : Apply(p, c, statement)
       \/ Finish(p, c)

Next ==
  \E p \in Servers :
    Start(p) \/ StartingUp(p) \/ Working(p) \/ Stop(p) \/ Exit(p) \/ Dies(p)

Spec == Init /\ [][Next]_vars

\* The supervisor starts the process again, and a process goes on with its
\* start-up and with its end.
FairSpec ==
  /\ Spec
  /\ \A p \in Servers : WF_vars(Start(p)) /\ WF_vars(StartingUp(p)) /\ WF_vars(Exit(p))

-----------------------------------------------------------------------------
(* Properties *)

TypeOK ==
  /\ schema \in [Migrations -> Nat] /\ recorded \subseteq Migrations
  /\ at \in [Servers -> Labels]
  /\ todo \in [Servers -> SUBSET Migrations]
  /\ status \in [Commands -> {"none", "open"} \cup Final]
  /\ pending \in [Servers -> SUBSET Commands]
  /\ acked \in [Servers -> SUBSET Commands]
  /\ armed \in [Servers -> SUBSET Commands]
  /\ awaits \in [Servers -> SUBSET Work]
  /\ reopened \in [Servers -> SUBSET Commands]
  /\ link \in Servers \cup {NoServer} /\ single \in OneAtATime
  /\ deaths \in 0..MaxDeaths /\ stops \in 0..MaxStops

\* migrate: whatever processes run it at once and wherever they are killed,
\* the SQL of a migration has run once if its version is recorded and has left
\* nothing behind if it is not.
AppliedOnce ==
  \A f \in Migrations : schema[f] = IF f \in recorded THEN 1 ELSE 0

\* migrate ("forward-only ... in order"): no migration is there without those
\* before it, also when processes of an older build take part.
InOrder == \A f \in recorded : 1..f \subseteq recorded

\* index.js: a process gets to the commands, the port and the API only with
\* every migration its code relies on.
SchemaIsThere ==
  \A p \in Servers :
    at[p] \in {"recovering", "listening", "opening", "serving", "stopping"}
      => 1..Build[p] \subseteq recorded

\* A process has an entry for the command, or a callback that is at work on it.
Holds(p, c) == c \in pending[p] \/ Awaited(p, c) # {}

\* recoverAfterRestart closes what "a previous run" left open: a command is
\* open only while a process that runs holds it, or because an UPDATE to 'sent'
\* or 'acknowledged' of such a process came after the last one (then it stays
\* open until the next start).  That is where the service manager runs one
\* process at a time.
OrphansClosed ==
  single => \A p \in Servers : at[p] = "serving" =>
    \A c \in Commands : status[c] = "open" =>
      \E q \in Servers : Holds(q, c) \/ c \in reopened[q]

\* recoverAfterRestart leaves alone the commands of a process that is running.
\* (A second process started beside the first would time them out: it recovers
\* before it finds the port taken.)
OnlyThePastIsClosed ==
  [][\A p \in Servers : single /\ Recover(p) =>
       \A c \in Commands : status[c] = "open" =>
         \A q \in Servers : ~Holds(q, c)]_vars

\* Deaths and competing processes end: a platform serves in the end, and
\* whenever it is stopped one serves again.
ComesUp == []<>(\E p \in Servers : at[p] = "serving")
=============================================================================
