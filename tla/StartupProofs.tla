--------------------------- MODULE StartupProofs ---------------------------
(***************************************************************************)
(* Migrations are applied once, whole and in order, for any number of      *)
(* processes, builds and migrations, and wherever a process is killed.     *)
(*                                                                         *)
(* The argument: what a process has passed in its loop is recorded (Track),*)
(* so the file it has come to is the first that may be missing; between    *)
(* its INSERT and its COMMIT nobody else has noted that file and nobody    *)
(* has committed it (Alone, Fresh), which is what the primary key is for.  *)
(***************************************************************************)
EXTENDS Startup, TLAPS

\* The files a process no longer has to apply are recorded.
Track ==
  \A p \in Servers : at[p] \in {"migrating", "ran", "noted"} =>
    /\ todo[p] \subseteq 1..Build[p]
    /\ 1..Build[p] \ todo[p] \subseteq recorded

\* A version that is noted and not committed is not recorded ...
Fresh ==
  \A p \in Servers, f \in Migrations :
    at[p] = "noted" /\ Due(p, f) => f \notin recorded

\* ... and noted in one transaction only.
Alone ==
  \A p, q \in Servers, f \in Migrations :
    at[p] = "noted" /\ Due(p, f) /\ at[q] = "noted" /\ Due(q, f) => p = q

StartInv ==
  TypeOK /\ Track /\ Fresh /\ Alone /\ AppliedOnce /\ InOrder /\ SchemaIsThere

-----------------------------------------------------------------------------
\* The invariant holds at first.
LEMMA InitInv == Init => StartInv
<1> SUFFICES ASSUME Init PROVE StartInv
  OBVIOUS
<1>1. TypeOK
  <2>1. schema \in [Migrations -> Nat] /\ at \in [Servers -> Labels]
    BY DEF Init, Labels
  <2>2. deaths \in 0..MaxDeaths /\ stops \in 0..MaxStops
    BY StartupAssumption DEF Init
  <2> QED
    BY <2>1, <2>2 DEF Init, TypeOK
<1>2. \A p \in Servers : at[p] = "down"
  BY DEF Init
<1>3. AppliedOnce /\ InOrder
  BY DEF Init, AppliedOnce, InOrder
<1> QED
  BY <1>1, <1>2, <1>3 DEF StartInv, Track, Fresh, Alone, SchemaIsThere

\* What the invariant says only depends on the schema, the versions, the
\* processes and their files.
LEMMA Untouched ==
  ASSUME StartInv, TypeOK', UNCHANGED <<schema, recorded, at, todo>>
  PROVE  StartInv'
BY DEF StartInv, TypeOK, Track, Fresh, Alone, AppliedOnce, InOrder,
       SchemaIsThere, Due

\* A process that gives up or is killed leaves the database as it is.
LEMMA GoingDown ==
  ASSUME StartInv, TypeOK', NEW p \in Servers, UNCHANGED database,
         Goto(p, "down"), todo' = [todo EXCEPT ![p] = {}]
  PROVE  StartInv'
<1>1. \A q \in Servers \ {p} : at'[q] = at[q] /\ todo'[q] = todo[q]
  BY DEF Goto, StartInv, TypeOK
<1>2. at'[p] = "down"
  BY DEF Goto, StartInv, TypeOK
<1>3. Track' /\ Fresh' /\ Alone' /\ SchemaIsThere'
  BY <1>1, <1>2
  DEF StartInv, Track, Fresh, Alone, SchemaIsThere, Due, database
<1> QED
  BY <1>3 DEF StartInv, AppliedOnce, InOrder, database

\* A process goes to a label and keeps its files; the database stays as it is.
LEMMA GoingOn ==
  ASSUME StartInv, TypeOK', NEW p \in Servers, NEW label,
         UNCHANGED <<schema, recorded, todo>>, Goto(p, label),
         label \in {"migrating", "ran", "noted"} =>
           at[p] \in {"migrating", "ran", "noted"},
         label = "noted" =>
           \A f \in Migrations : Due(p, f) =>
             /\ f \notin recorded
             /\ \A q \in Servers \ {p} : ~(at[q] = "noted" /\ Due(q, f)),
         label \in {"recovering", "listening", "opening", "serving", "stopping"} =>
           1..Build[p] \subseteq recorded
  PROVE  StartInv'
<1>1. \A q \in Servers \ {p} : at'[q] = at[q]
  BY DEF Goto, StartInv, TypeOK
<1>2. at'[p] = label
  BY DEF Goto, StartInv, TypeOK
<1>3. \A q \in Servers, f \in Migrations : Due(q, f)' <=> Due(q, f)
  BY DEF Due
<1>4. Track' /\ SchemaIsThere'
  BY <1>1, <1>2 DEF StartInv, Track, SchemaIsThere
<1>5. Fresh' /\ Alone'
  BY <1>1, <1>2, <1>3 DEF StartInv, Fresh, Alone
<1> QED
  BY <1>4, <1>5 DEF StartInv, AppliedOnce, InOrder

-----------------------------------------------------------------------------
(* Type correctness *)

LEMMA GoneType ==
  ASSUME TypeOK, NEW p \in Servers, Gone(p)
  PROVE  /\ pending' \in [Servers -> SUBSET Commands]
         /\ acked' \in [Servers -> SUBSET Commands]
         /\ armed' \in [Servers -> SUBSET Commands]
         /\ awaits' \in [Servers -> SUBSET Work]
         /\ reopened' \in [Servers -> SUBSET Commands]
         /\ todo' \in [Servers -> SUBSET Migrations]
         /\ link' \in Servers \cup {NoServer}
BY DEF Gone, TypeOK

LEMMA GotoType ==
  ASSUME TypeOK, NEW p \in Servers, NEW label \in Labels, Goto(p, label)
  PROVE  at' \in [Servers -> Labels]
BY DEF Goto, TypeOK

LEMMA FailsType ==
  ASSUME TypeOK, NEW p \in Servers, Fails(p)
  PROVE  TypeOK'
<1>1. AfterError \in Labels
  BY DEF AfterError, Labels
<1>2. at' \in [Servers -> Labels]
  BY <1>1, GotoType DEF Fails
<1> QED
  BY <1>2, GoneType DEF Fails, TypeOK, database, used

LEMMA MigratingType ==
  ASSUME TypeOK, NEW p \in Servers, Migrating(p)
  PROVE  TypeOK'
<1> USE DEF database, commands, memory, used
<1>1. CASE ReadVersions(p)
  <2>1. 1..Build[p] \subseteq Migrations
    BY StartupAssumption DEF Migrations
  <2>2. "migrating" \in Labels
    BY DEF Labels
  <2>3. at' \in [Servers -> Labels]
    BY <1>1, <2>2, GotoType DEF ReadVersions
  <2> QED
    BY <1>1, <2>1, <2>3 DEF ReadVersions, TypeOK
<1>2. ASSUME NEW f \in Migrations, RunSql(p, f) PROVE TypeOK'
  <2>1. CASE Fails(p)
    BY <2>1, FailsType
  <2>2. CASE Goto(p, "ran") /\ UNCHANGED <<database, todo, commands, link, used>>
    <3>1. at' \in [Servers -> Labels]
      BY <2>2, GotoType DEF Labels
    <3> QED
      BY <2>2, <3>1 DEF TypeOK
  <2> QED
    BY <1>2, <2>1, <2>2 DEF RunSql
<1>3. ASSUME NEW f \in Migrations, NoteVersion(p, f) PROVE TypeOK'
  <2>1. CASE Fails(p)
    BY <2>1, FailsType
  <2>2. CASE Goto(p, "noted") /\ UNCHANGED <<database, todo, commands, link, used>>
    <3>1. at' \in [Servers -> Labels]
      BY <2>2, GotoType DEF Labels
    <3> QED
      BY <2>2, <3>1 DEF TypeOK
  <2> QED
    BY <1>3, <2>1, <2>2 DEF NoteVersion
<1>4. ASSUME NEW f \in Migrations, Commit(p, f) PROVE TypeOK'
  <2>1. at' \in [Servers -> Labels]
    BY <1>4, GotoType DEF Commit, Labels
  <2>2. schema' \in [Migrations -> Nat]
    BY <1>4 DEF Commit, TypeOK
  <2> QED
    BY <1>4, <2>1, <2>2 DEF Commit, TypeOK
<1>5. CASE UpToDate(p)
  <2>1. at' \in [Servers -> Labels]
    BY <1>5, GotoType DEF UpToDate, Follows, Labels
  <2> QED
    BY <1>5, <2>1 DEF UpToDate, TypeOK
<1> QED
  BY <1>1, <1>2, <1>3, <1>4, <1>5 DEF Migrating

LEMMA PlatformType ==
  ASSUME TypeOK, NEW p \in Servers, Recover(p) \/ Listen(p) \/ OpenApi(p)
  PROVE  TypeOK'
<1> USE DEF database, commands, memory, used
<1>1. CASE Recover(p)
  <2>1. at' \in [Servers -> Labels]
    BY <1>1, GotoType DEF Recover, RecoversIn, Follows, Labels
  <2> QED
    BY <1>1, <2>1 DEF Recover, TypeOK, Final
<1>2. CASE Listen(p)
  <2>1. CASE Goto(p, Follows("listening")) /\ UNCHANGED <<database, todo, commands, link, used>>
    <3>1. at' \in [Servers -> Labels]
      BY <2>1, GotoType DEF Follows, Labels
    <3> QED
      BY <2>1, <3>1 DEF TypeOK
  <2> QED
    BY <1>2, <2>1, FailsType DEF Listen
<1>3. CASE OpenApi(p)
  <2>1. CASE Goto(p, Follows("opening")) /\ UNCHANGED <<database, todo, commands, link, used>>
    <3>1. at' \in [Servers -> Labels]
      BY <2>1, GotoType DEF Follows, Labels
    <3> QED
      BY <2>1, <3>1 DEF TypeOK
  <2> QED
    BY <1>3, <2>1, FailsType DEF OpenApi
<1> QED
  BY <1>1, <1>2, <1>3

LEMMA GoesOnType ==
  ASSUME TypeOK, NEW p \in Servers, NEW c \in Commands, NEW from,
         NEW next \in SUBSET (Statements \cup {"register", "log", "finish"}),
         GoesOn(p, c, from, next)
  PROVE  awaits' \in [Servers -> SUBSET Work]
<1>1. {[cmd |-> c, of |-> n] : n \in next} \subseteq Work
  BY DEF Work
<1> QED
  BY <1>1 DEF GoesOn, TypeOK

LEMMA AwaitsType ==
  ASSUME TypeOK, NEW p \in Servers, NEW c \in Commands, NEW u \in Statements,
         Awaits(p, c, u)
  PROVE  awaits' \in [Servers -> SUBSET Work]
<1>1. [cmd |-> c, of |-> u] \in Work
  BY DEF Work
<1> QED
  BY <1>1 DEF Awaits, TypeOK

LEMMA WorkingType ==
  ASSUME TypeOK, NEW p \in Servers, Working(p)
  PROVE  TypeOK'
<1> USE DEF database, commands, memory, used
<1>1. CASE Connect(p) \/ Disconnect(p)
  BY <1>1 DEF Connect, Disconnect, TypeOK
<1>2. ASSUME NEW c \in Commands, Issue(p, c) \/ Register(p, c) \/ Logged(p, c)
      PROVE  TypeOK'
  <2>1. awaits' \in [Servers -> SUBSET Work]
    BY <1>2, GoesOnType, AwaitsType DEF Issue, Register, Logged, Statements, Final
  <2> QED
    BY <1>2, <2>1 DEF Issue, Register, Logged, TypeOK
<1>3. ASSUME NEW c \in Commands, Ack(p, c) \/ Reply(p, c) \/ Expire(p, c)
      PROVE  TypeOK'
  <2>1. awaits' \in [Servers -> SUBSET Work]
    BY <1>3, AwaitsType DEF Ack, Reply, Expire, Statements, Final
  <2> QED
    BY <1>3, <2>1 DEF Ack, Reply, Expire, TypeOK
<1>4. ASSUME NEW c \in Commands, NEW u \in Statements, Apply(p, c, u)
      PROVE  TypeOK'
  <2>1. awaits' \in [Servers -> SUBSET Work]
    <3>1. \E next \in SUBSET {"register", "finish"} : GoesOn(p, c, u, next)
      BY <1>4 DEF Apply
    <3> QED
      BY <3>1, GoesOnType
  <2>2. /\ status' \in [Commands -> {"none", "open"} \cup Final]
        /\ reopened' \in [Servers -> SUBSET Commands]
    BY <1>4 DEF Apply, TypeOK
  <2> QED
    BY <1>4, <2>1, <2>2 DEF Apply, TypeOK
<1>5. ASSUME NEW c \in Commands, Finish(p, c) PROVE TypeOK'
  <2>1. awaits' \in [Servers -> SUBSET Work]
    BY <1>5, GoesOnType DEF Finish
  <2> QED
    BY <1>5, <2>1 DEF Finish, TypeOK
<1> QED
  BY <1>1, <1>2, <1>3, <1>4, <1>5 DEF Working

LEMMA EndType ==
  ASSUME TypeOK, NEW p \in Servers, Start(p) \/ Stop(p) \/ Exit(p) \/ Dies(p)
  PROVE  TypeOK'
<1> USE DEF database, commands, memory, used
<1>1. at' \in [Servers -> Labels]
  BY GotoType DEF Start, Stop, Exit, Dies, Labels
<1>2. CASE Start(p)
  BY <1>1, <1>2 DEF Start, TypeOK
<1>3. CASE Stop(p)
  BY <1>1, <1>3, StartupAssumption DEF Stop, TypeOK
<1>4. CASE Exit(p)
  BY <1>1, <1>4, GoneType DEF Exit, TypeOK
<1>5. CASE Dies(p)
  <2>1. deaths' \in 0..MaxDeaths
    BY <1>5, StartupAssumption DEF Dies, TypeOK
  <2> QED
    BY <1>1, <1>5, <2>1, GoneType DEF Dies, TypeOK
<1> QED
  BY <1>2, <1>3, <1>4, <1>5

LEMMA TypeStep == TypeOK /\ [Next]_vars => TypeOK'
<1> SUFFICES ASSUME TypeOK, [Next]_vars PROVE TypeOK'
  OBVIOUS
<1>1. CASE UNCHANGED vars
  BY <1>1 DEF TypeOK, vars, database, commands, memory, used
<1>2. ASSUME NEW p \in Servers,
             Start(p) \/ StartingUp(p) \/ Working(p) \/ Stop(p) \/ Exit(p) \/ Dies(p)
      PROVE  TypeOK'
  BY <1>2, MigratingType, PlatformType, WorkingType, EndType DEF StartingUp
<1> QED
  BY <1>1, <1>2 DEF Next

-----------------------------------------------------------------------------
(* The invariant *)

LEMMA FailsInv ==
  ASSUME StartInv, TypeOK', NEW p \in Servers, Fails(p)
  PROVE  StartInv'
BY GoingDown DEF Fails, Gone, AfterError

\* The SELECT: what is not to be done is recorded.
LEMMA ReadInv ==
  ASSUME StartInv, TypeOK', NEW p \in Servers, ReadVersions(p)
  PROVE  StartInv'
<1>1. \A q \in Servers \ {p} : at'[q] = at[q] /\ todo'[q] = todo[q]
  BY DEF ReadVersions, Goto, StartInv, TypeOK
<1>2. at'[p] = "migrating" /\ todo'[p] = 1..Build[p] \ recorded
  BY DEF ReadVersions, Goto, StartInv, TypeOK
<1>3. UNCHANGED <<schema, recorded>>
  BY DEF ReadVersions, database
<1>4. Track' /\ SchemaIsThere'
  BY <1>1, <1>2, <1>3 DEF StartInv, Track, SchemaIsThere
<1>5. Fresh' /\ Alone'
  BY <1>1, <1>2, <1>3 DEF StartInv, Fresh, Alone, Due
<1> QED
  BY <1>3, <1>4, <1>5 DEF StartInv, AppliedOnce, InOrder

\* Two files cannot both be the first of those to do.
LEMMA DueIsOne ==
  ASSUME TypeOK, NEW p \in Servers, NEW f \in Migrations, NEW g \in Migrations,
         Due(p, f), Due(p, g)
  PROVE  f = g
BY StartupAssumption DEF Due, TypeOK, Migrations

\* The INSERT goes through only for a version nobody has noted or recorded.
LEMMA NoteInv ==
  ASSUME StartInv, TypeOK', NEW p \in Servers, NEW f \in Migrations,
         NoteVersion(p, f)
  PROVE  StartInv'
<1>1. CASE Fails(p)
  BY <1>1, FailsInv
<1>2. CASE /\ ~AlreadyNoted(f) /\ Goto(p, "noted")
           /\ UNCHANGED <<database, todo, commands, link, used>>
  <2>1. \A g \in Migrations : Due(p, g) =>
          /\ g \notin recorded
          /\ \A q \in Servers \ {p} : ~(at[q] = "noted" /\ Due(q, g))
    BY <1>2, DueIsOne DEF NoteVersion, AlreadyNoted, NotedBeside, StartInv
  <2> QED
    BY <1>2, <2>1, GoingOn DEF NoteVersion, database
<1> QED
  BY <1>1, <1>2 DEF NoteVersion

\* The COMMIT: the SQL of a migration nobody had committed, and the one whose
\* predecessors are all recorded.
LEMMA CommitInv ==
  ASSUME StartInv, TypeOK', NEW p \in Servers, NEW f \in Migrations, Commit(p, f)
  PROVE  StartInv'
<1> USE DEF Commit
<1>1. \A q \in Servers \ {p} : at'[q] = at[q] /\ todo'[q] = todo[q]
  BY DEF Goto, StartInv, TypeOK
<1>2. at'[p] = "migrating" /\ todo'[p] = todo[p] \ {f}
  BY DEF Goto, StartInv, TypeOK
<1>3. f \notin recorded
  BY DEF StartInv, Fresh
<1>4. \A q \in Servers \ {p}, g \in Migrations : Due(q, g)' <=> Due(q, g)
  BY <1>1 DEF Due
<1>5. Track' /\ SchemaIsThere'
  BY <1>1, <1>2 DEF StartInv, Track, SchemaIsThere
<1>6. Fresh'
  BY <1>1, <1>2, <1>4 DEF StartInv, Fresh, Alone
<1>7. Alone'
  BY <1>1, <1>2, <1>4 DEF StartInv, Alone
<1>8. AppliedOnce'
  BY <1>3 DEF StartInv, AppliedOnce, TypeOK
<1>9. InOrder'
  <2>1. 1..f \subseteq recorded \cup {f}
    <3> SUFFICES ASSUME NEW g \in 1..f, g # f PROVE g \in recorded
      OBVIOUS
    <3>1. f \in 1..Build[p] /\ 1..Build[p] \ todo[p] \subseteq recorded
      BY DEF Due, StartInv, Track
    <3>2. Build[p] \in Nat /\ f \in Nat /\ g \in Nat /\ g < f
      BY StartupAssumption DEF Migrations
    <3>3. g \notin todo[p]
      BY <3>2 DEF Due
    <3> QED
      BY <3>1, <3>2, <3>3
  <2> QED
    BY <2>1 DEF StartInv, InOrder
<1> QED
  BY <1>5, <1>6, <1>7, <1>8, <1>9 DEF StartInv

LEMMA MigratingInv ==
  ASSUME StartInv, TypeOK', NEW p \in Servers, Migrating(p)
  PROVE  StartInv'
<1>1. ASSUME NEW f \in Migrations, RunSql(p, f) PROVE StartInv'
  BY <1>1, FailsInv, GoingOn DEF RunSql, database
<1>2. CASE UpToDate(p)
  <2>1. 1..Build[p] \subseteq recorded
    BY <1>2 DEF UpToDate, StartInv, Track
  <2> QED
    BY <1>2, <2>1, GoingOn DEF UpToDate, Follows, database
<1> QED
  BY <1>1, <1>2, ReadInv, NoteInv, CommitInv DEF Migrating

LEMMA PlatformInv ==
  ASSUME StartInv, TypeOK', NEW p \in Servers,
         Recover(p) \/ Listen(p) \/ OpenApi(p) \/ Stop(p)
  PROVE  StartInv'
<1>1. CASE Fails(p)
  BY <1>1, FailsInv
<1>2. CASE ~Fails(p)
  <2>1. UNCHANGED <<schema, recorded, todo>>
    BY <1>2 DEF Recover, Listen, OpenApi, Stop, database
  <2>2. at[p] \in {"recovering", "listening", "opening", "serving", "stopping"}
    BY DEF Recover, RecoversIn, Listen, OpenApi, Stop
  <2>3. 1..Build[p] \subseteq recorded
    BY <2>2 DEF StartInv, SchemaIsThere
  <2>4. \/ Goto(p, "listening") \/ Goto(p, "opening")
        \/ Goto(p, "serving") \/ Goto(p, "stopping")
    BY <1>2 DEF Recover, RecoversIn, Listen, OpenApi, Stop, Follows
  <2> QED
    BY <2>1, <2>3, <2>4, GoingOn
<1> QED
  BY <1>1, <1>2

LEMMA StepInv == StartInv /\ [Next]_vars => StartInv'
<1> SUFFICES ASSUME StartInv, [Next]_vars PROVE StartInv'
  OBVIOUS
<1>1. TypeOK'
  BY TypeStep DEF StartInv
<1>2. CASE UNCHANGED vars
  BY <1>1, <1>2, Untouched DEF vars, database
<1>3. ASSUME NEW p \in Servers, Start(p) PROVE StartInv'
  BY <1>1, <1>3, GoingOn DEF Start, database
<1>4. ASSUME NEW p \in Servers, StartingUp(p) \/ Stop(p) PROVE StartInv'
  BY <1>1, <1>4, MigratingInv, PlatformInv DEF StartingUp
<1>5. ASSUME NEW p \in Servers, Working(p) PROVE StartInv'
  BY <1>1, <1>5, Untouched
  DEF Working, Connect, Disconnect, Issue, Register, Logged, Ack, Reply, Expire,
      Apply, Finish, database
<1>6. ASSUME NEW p \in Servers, Exit(p) \/ Dies(p) PROVE StartInv'
  BY <1>1, <1>6, GoingDown DEF Exit, Dies, Gone
<1> QED
  BY <1>2, <1>3, <1>4, <1>5, <1>6 DEF Next

LEMMA Invariance == Spec => []StartInv
BY InitInv, StepInv, PTL DEF Spec

-----------------------------------------------------------------------------
\* The variables of the processes and of the database have their types.
THEOREM StartupTypeCorrect == Spec => []TypeOK
<1>1. StartInv => TypeOK
  BY DEF StartInv
<1> QED
  BY <1>1, Invariance, PTL

\* migrate: however many processes run it at once and wherever they are killed,
\* the SQL of a migration has taken effect exactly once if its version is
\* recorded, and not at all if it is not.
THEOREM MigrationsAppliedOnce == Spec => []AppliedOnce
<1>1. StartInv => AppliedOnce
  BY DEF StartInv
<1> QED
  BY <1>1, Invariance, PTL

\* migrate: the migrations that are recorded are the first ones, whatever
\* builds the processes come from.
THEOREM MigrationsInOrder == Spec => []InOrder
<1>1. StartInv => InOrder
  BY DEF StartInv
<1> QED
  BY <1>1, Invariance, PTL

\* index.js: a process that has got past migrate finds every migration of its
\* build, as long as it lives.
THEOREM SchemaBeforeService == Spec => []SchemaIsThere
<1>1. StartInv => SchemaIsThere
  BY DEF StartInv
<1> QED
  BY <1>1, Invariance, PTL

-----------------------------------------------------------------------------
(***************************************************************************)
(* Commands of a former run.  Where one process runs at a time, what is    *)
(* open after the recovery is held by the process that is running, or was  *)
(* reopened by it.                                                         *)
(***************************************************************************)

OneRuns ==
  single => \A p, q \in Servers : at[p] # "down" /\ at[q] # "down" => p = q

In(p, c, l) == [cmd |-> c, of |-> l] \in awaits[p]

\* Only a process with the device's port, or about to exit, is at work on
\* commands; the device is connected to one that has the port.
HasServed == {"opening", "serving", "stopping"}
MemoryOK ==
  /\ \A p \in Servers : at[p] \notin HasServed =>
       pending[p] = {} /\ armed[p] = {} /\ awaits[p] = {}
  /\ \A p \in Servers : link = p => Accepting(p)

\* A row comes to be by its INSERT, of which there is one, and before that
\* nothing else is done for its command.
RowsOK ==
  \A c \in Commands :
    /\ \A p \in Servers : In(p, c, "insert") => status[c] = "none"
    /\ \A p, q \in Servers : In(p, c, "insert") /\ In(q, c, "insert") => p = q
    /\ status[c] = "none" => \A p \in Servers :
         /\ c \notin pending[p] /\ c \notin armed[p]
         /\ \A l : In(p, c, l) => l = "insert"

\* What keeps an open row from being an orphan.
Keeps(p, c) ==
  \/ c \in pending[p] \/ c \in reopened[p]
  \/ In(p, c, "register") \/ In(p, c, "send_failed")

\* finish takes the entry of a row that is final, or was reopened.
OwnCommands ==
  single => \A p \in Servers : at[p] \in {"listening"} \cup HasServed =>
    \A c \in Commands : status[c] = "open" =>
      Keeps(p, c) /\ (In(p, c, "finish") => c \in reopened[p])

ServiceInv == TypeOK /\ OneRuns /\ MemoryOK /\ RowsOK /\ OwnCommands
Rest == OneRuns /\ MemoryOK /\ RowsOK /\ OwnCommands

LEMMA InitService == Init => ServiceInv
<1> SUFFICES ASSUME Init PROVE ServiceInv
  OBVIOUS
<1>1. TypeOK
  BY InitInv DEF StartInv
<1>2. /\ \A p \in Servers : at[p] = "down" /\ pending[p] = {} /\ armed[p] = {}
                           /\ awaits[p] = {}
      /\ link \notin Servers
      /\ \A c \in Commands : status[c] = "none"
  BY StartupAssumption DEF Init
<1> QED
  BY <1>1, <1>2 DEF ServiceInv, OneRuns, MemoryOK, RowsOK, In, OwnCommands, HasServed

\* The work of a process after one of these two steps.
LEMMA GoesOnIn ==
  ASSUME TypeOK, NEW p \in Servers, NEW c, NEW from, NEW next, GoesOn(p, c, from, next)
  PROVE  /\ In(p, c, from)
         /\ \A q \in Servers : \A d, l :
              In(q, d, l)' <=> IF q = p /\ d = c THEN (In(p, c, l) /\ l # from) \/ l \in next
                               ELSE In(q, d, l)
<1>1. \A q \in Servers : awaits'[q] =
        IF q = p THEN (awaits[p] \ {[cmd |-> c, of |-> from]})
                      \cup {[cmd |-> c, of |-> n] : n \in next}
        ELSE awaits[q]
  BY DEF GoesOn, TypeOK
<1>2. \A d, l, m : [cmd |-> d, of |-> l] = [cmd |-> c, of |-> m] <=> d = c /\ l = m
  <2> TAKE d, l, m
  <2>1. [cmd |-> d, of |-> l].cmd = d /\ [cmd |-> d, of |-> l].of = l
    OBVIOUS
  <2>2. [cmd |-> c, of |-> m].cmd = c /\ [cmd |-> c, of |-> m].of = m
    OBVIOUS
  <2> QED
    BY <2>1, <2>2
<1>3. \A d, l : [cmd |-> d, of |-> l] \in {[cmd |-> c, of |-> n] : n \in next}
               <=> d = c /\ l \in next
  BY <1>2
<1> QED
  BY <1>1, <1>2, <1>3 DEF In, GoesOn

LEMMA AwaitsIn ==
  ASSUME TypeOK, NEW p \in Servers, NEW c, NEW u, Awaits(p, c, u)
  PROVE  \A q \in Servers : \A d, l :
           In(q, d, l)' <=> In(q, d, l) \/ (q = p /\ d = c /\ l = u)
<1>1. \A q \in Servers : awaits'[q] =
        IF q = p THEN awaits[p] \cup {[cmd |-> c, of |-> u]} ELSE awaits[q]
  BY DEF Awaits, TypeOK
<1>2. \A d, l : [cmd |-> d, of |-> l] = [cmd |-> c, of |-> u] <=> d = c /\ l = u
  <2> TAKE d, l
  <2>1. [cmd |-> d, of |-> l].cmd = d /\ [cmd |-> d, of |-> l].of = l
    OBVIOUS
  <2>2. [cmd |-> c, of |-> u].cmd = c /\ [cmd |-> c, of |-> u].of = u
    OBVIOUS
  <2> QED
    BY <2>1, <2>2
<1> QED
  BY <1>1, <1>2 DEF In

\* A process ends, with what it had in memory.
LEMMA EndsService ==
  ASSUME ServiceInv, NEW p \in Servers, Goto(p, "down"), Gone(p),
         status' = status, single' = single
  PROVE  Rest'
<1>1. \A q \in Servers : /\ at'[q] = IF q = p THEN "down" ELSE at[q]
                         /\ pending'[q] = IF q = p THEN {} ELSE pending[q]
                         /\ armed'[q] = IF q = p THEN {} ELSE armed[q]
                         /\ awaits'[q] = IF q = p THEN {} ELSE awaits[q]
                         /\ reopened'[q] = IF q = p THEN {} ELSE reopened[q]
  BY DEF Goto, Gone, ServiceInv, TypeOK
<1>2. link' = IF link = p THEN NoServer ELSE link
  BY DEF Gone
<1>3. OneRuns'
  BY <1>1 DEF ServiceInv, OneRuns
<1>4. MemoryOK'
  BY <1>1, <1>2, StartupAssumption DEF ServiceInv, MemoryOK, HasServed, Accepting
<1>5. RowsOK'
  BY <1>1 DEF ServiceInv, RowsOK, In
<1>6. OwnCommands'
  BY <1>1 DEF ServiceInv, OneRuns, OwnCommands, Keeps, In, HasServed
<1> QED
  BY <1>3, <1>4, <1>5, <1>6 DEF Rest

\* A process that runs goes on.
LEMMA RunsOnService ==
  ASSUME ServiceInv, NEW p \in Servers, at[p] # "down", NEW l, l # "down", Goto(p, l),
         at[p] \in HasServed => l \in HasServed,
         l \in {"listening"} \cup HasServed =>
           at[p] \in {"listening"} \cup HasServed,
         \/ link' = link /\ (Accepting(p) => l \in {"opening", "serving"})
         \/ link' = IF link = p THEN NoServer ELSE link,
         memory' = memory, status' = status, single' = single
  PROVE  Rest'
<1>1. \A q \in Servers : at'[q] = IF q = p THEN l ELSE at[q]
  BY DEF Goto, ServiceInv, TypeOK
<1>2. UNCHANGED <<pending, armed, awaits, reopened>>
  BY DEF memory
<1>3. OneRuns'
  BY <1>1 DEF ServiceInv, OneRuns
<1>4. MemoryOK'
  BY <1>1, <1>2, StartupAssumption DEF ServiceInv, MemoryOK, HasServed, Accepting
<1>5. RowsOK'
  BY <1>2 DEF ServiceInv, RowsOK, In
<1>6. OwnCommands'
  BY <1>1, <1>2 DEF ServiceInv, OneRuns, OwnCommands, Keeps, In, HasServed
<1> QED
  BY <1>3, <1>4, <1>5, <1>6 DEF Rest

LEMMA RecoverService ==
  ASSUME ServiceInv, NEW p \in Servers, Recover(p)
  PROVE  Rest'
<1>1. /\ at[p] = "recovering" /\ single' = single /\ link' = link
      /\ UNCHANGED <<pending, armed, awaits, reopened>>
      /\ \A q \in Servers : at'[q] = IF q = p THEN "listening" ELSE at[q]
      /\ \A c \in Commands : /\ status'[c] # "open"
                             /\ status'[c] = "none" <=> status[c] = "none"
  BY DEF Recover, RecoversIn, Goto, Follows, memory, used, ServiceInv, TypeOK
<1>2. OneRuns'
  BY <1>1 DEF ServiceInv, OneRuns
<1>3. MemoryOK'
  BY <1>1 DEF ServiceInv, MemoryOK, HasServed, Accepting
<1>4. RowsOK'
  BY <1>1 DEF ServiceInv, RowsOK, In
<1>5. OwnCommands'
  BY <1>1 DEF OwnCommands
<1> QED
  BY <1>2, <1>3, <1>4, <1>5 DEF Rest

-----------------------------------------------------------------------------
(* The work on a command *)

\* A callback begins: nothing changes but what is awaited.
LEMMA BeginService ==
  ASSUME ServiceInv, NEW p \in Servers, NEW c \in Commands,
         Issue(p, c) \/ Ack(p, c) \/ Reply(p, c) \/ Expire(p, c)
  PROVE  MemoryOK' /\ RowsOK' /\ OwnCommands'
<1>0. /\ TypeOK /\ UNCHANGED <<at, status, pending, reopened, link, single>>
      /\ \A q \in Servers : armed'[q] \subseteq armed[q]
  BY DEF ServiceInv, TypeOK, Issue, Ack, Reply, Expire, used
<1>1. PICK u \in Statements :
        /\ Awaits(p, c, u)
        /\ u = "insert" => status[c] = "none" /\ \A q \in Servers : \A l : ~In(q, c, l)
        /\ u # "insert" => status[c] # "none"
        /\ u \notin {"register", "finish"}
  <2>1. CASE Issue(p, c)
    <3>1. \A q \in Servers : \A l : ~In(q, c, l)
      <4> SUFFICES ASSUME NEW q \in Servers, NEW l, In(q, c, l) PROVE FALSE
        OBVIOUS
      <4>1. [cmd |-> c, of |-> l] \in Awaited(q, c)
        BY DEF In, Awaited
      <4> QED
        BY <2>1, <4>1 DEF Issue
    <3> QED
      BY <2>1, <3>1 DEF Issue, Statements
  <2>2. CASE Ack(p, c) \/ Reply(p, c) \/ Expire(p, c)
    <3>1. status[c] # "none"
      BY <2>2 DEF Ack, Reply, Expire, ServiceInv, RowsOK
    <3> QED
      BY <2>2, <3>1 DEF Ack, Reply, Expire, Statements, Final
  <2> QED
    BY <2>1, <2>2
<1>2. \A q \in Servers : \A d, l :
        In(q, d, l)' <=> In(q, d, l) \/ (q = p /\ d = c /\ l = u)
  BY <1>0, <1>1, AwaitsIn
<1>3. at[p] \in HasServed
  BY DEF Issue, Ack, Reply, Expire, ServiceInv, MemoryOK, Accepting, HasServed
<1>4. MemoryOK'
  <2>1. \A q \in Servers : q # p => awaits'[q] = awaits[q]
    BY <1>0, <1>1 DEF Awaits, TypeOK
  <2> QED
    BY <1>0, <1>3, <2>1 DEF ServiceInv, MemoryOK, Accepting
<1>5. RowsOK'
  BY <1>0, <1>1, <1>2 DEF ServiceInv, RowsOK
<1>6. OwnCommands'
  BY <1>0, <1>1, <1>2 DEF ServiceInv, OwnCommands, Keeps
<1> QED
  BY <1>4, <1>5, <1>6

\* A callback goes on after a statement, or after the log.
LEMMA ContinueService ==
  ASSUME ServiceInv, NEW p \in Servers, NEW c \in Commands,
         Register(p, c) \/ Logged(p, c) \/ Finish(p, c)
  PROVE  MemoryOK' /\ RowsOK' /\ OwnCommands'
<1>0. TypeOK /\ UNCHANGED <<at, status, reopened, link, single>>
  BY DEF ServiceInv, Register, Logged, Finish, used
<1>1. PICK from \in {"register", "log", "finish"}, next \in SUBSET {"log", "send_failed", "sent"} :
        /\ GoesOn(p, c, from, next)
        /\ from = "register" => pending'[p] = pending[p] \cup {c} \/ "send_failed" \in next
        /\ from = "log" => pending' = pending /\ armed' = armed
        /\ from # "finish" => \A q \in Servers : pending[q] \subseteq pending'[q]
        /\ \A q \in Servers :
             /\ \A d \in Commands \ {c} : /\ d \in pending'[q] <=> d \in pending[q]
                                          /\ d \in armed'[q] <=> d \in armed[q]
             /\ q # p => pending'[q] = pending[q] /\ armed'[q] = armed[q]
  <2>1. CASE Register(p, c)
    <3>1. \E next \in SUBSET {"log", "send_failed", "sent"} :
            /\ GoesOn(p, c, "register", next)
            /\ \/ /\ pending' = [pending EXCEPT ![p] = @ \cup {c}]
                  /\ armed' = [armed EXCEPT ![p] = @ \cup {c}]
               \/ "send_failed" \in next /\ UNCHANGED <<pending, armed>>
      BY <2>1 DEF Register
    <3> QED
      BY <1>0, <3>1 DEF TypeOK
  <2>2. CASE Logged(p, c)
    <3>1. \E next \in SUBSET {"log", "send_failed", "sent"} : GoesOn(p, c, "log", next)
      BY <2>2 DEF Logged
    <3> QED
      BY <2>2, <3>1 DEF Logged
  <2>3. CASE Finish(p, c)
    BY <1>0, <2>3 DEF Finish, TypeOK
  <2> QED
    BY <2>1, <2>2, <2>3
<1>2. /\ In(p, c, from)
      /\ \A q \in Servers : \A d, l :
           In(q, d, l)' <=> IF q = p /\ d = c THEN (In(p, c, l) /\ l # from) \/ l \in next
                            ELSE In(q, d, l)
  BY <1>0, <1>1, GoesOnIn
<1>3. at[p] \in HasServed /\ status[c] # "none"
  BY <1>2 DEF In, ServiceInv, MemoryOK, RowsOK
<1>4. MemoryOK'
  <2>1. \A q \in Servers : q # p => awaits'[q] = awaits[q]
    BY <1>0, <1>1 DEF GoesOn, TypeOK
  <2> QED
    BY <1>0, <1>1, <1>3, <2>1 DEF ServiceInv, MemoryOK, Accepting
<1>5. RowsOK'
  <2>1. \A q \in Servers : \A d \in Commands :
          In(q, d, "insert")' => In(q, d, "insert")
    BY <1>2
  <2> QED
    BY <1>0, <1>1, <1>2, <1>3, <2>1 DEF ServiceInv, RowsOK
<1>6. OwnCommands'
  <2> SUFFICES ASSUME single, NEW q \in Servers, at[q] \in {"listening"} \cup HasServed,
                      NEW d \in Commands, status[d] = "open"
      PROVE  Keeps(q, d)' /\ (In(q, d, "finish")' => d \in reopened'[q])
    BY <1>0 DEF OwnCommands
  <2>1. Keeps(q, d) /\ (In(q, d, "finish") => d \in reopened[q])
    BY DEF ServiceInv, OwnCommands
  <2>2. CASE q = p /\ d = c
    <3>1. In(q, d, "finish")' => d \in reopened'[q]
      BY <1>0, <1>2, <2>1, <2>2
    <3>2. CASE from = "finish"
      BY <1>0, <1>2, <2>1, <2>2, <3>1, <3>2 DEF Keeps
    <3>3. CASE from # "finish"
      BY <1>0, <1>1, <1>2, <2>1, <2>2, <3>1, <3>3 DEF Keeps
    <3> QED
      BY <3>2, <3>3
  <2>3. CASE ~(q = p /\ d = c)
    BY <1>0, <1>1, <1>2, <2>1, <2>3 DEF Keeps
  <2> QED
    BY <2>2, <2>3
<1> QED
  BY <1>4, <1>5, <1>6

\* The database applies a statement.
LEMMA ApplyService ==
  ASSUME ServiceInv, NEW p \in Servers, NEW c \in Commands, NEW u \in Statements,
         Apply(p, c, u)
  PROVE  MemoryOK' /\ RowsOK' /\ OwnCommands'
<1> DEFINE next == CASE u = "insert" -> {"register"}
                     [] u \in Final \ {"send_failed"} -> {"finish"}
                     [] OTHER -> {}
<1>0. TypeOK /\ UNCHANGED <<at, pending, armed, link, single>>
  BY DEF ServiceInv, Apply, used
<1>1. /\ In(p, c, u)
      /\ \A q \in Servers : \A d, l :
           In(q, d, l)' <=> IF q = p /\ d = c THEN (In(p, c, l) /\ l # u) \/ l \in next
                            ELSE In(q, d, l)
  <2>1. GoesOn(p, c, u, next)
    BY DEF Apply
  <2> HIDE DEF next
  <2> QED
    BY <1>0, <2>1, GoesOnIn
<1>2. /\ \A d \in Commands : status'[d] = IF d # c THEN status[d]
                                         ELSE IF u \in Final THEN u ELSE "open"
      /\ \A q \in Servers : q # p => reopened'[q] = reopened[q] /\ awaits'[q] = awaits[q]
      /\ reopened'[p] = IF u \in Final THEN reopened[p] \ {c}
                        ELSE IF status[c] \in Final THEN reopened[p] \cup {c}
                        ELSE reopened[p]
  BY <1>0 DEF Apply, GoesOn, TypeOK
<1>3. at[p] \in HasServed
  BY <1>1 DEF In, ServiceInv, MemoryOK
<1>4. MemoryOK'
  BY <1>0, <1>2, <1>3 DEF ServiceInv, MemoryOK, Accepting
<1>5. status'[c] # "none" /\ \A q \in Servers : ~In(q, c, "insert")'
  <2>1. status'[c] # "none"
    BY <1>2 DEF Final
  <2>2. CASE u = "insert"
    <3>1. "insert" \notin next
      BY <2>2
    <3>2. \A q \in Servers : In(q, c, "insert") => q = p
      BY <1>1, <2>2 DEF ServiceInv, RowsOK
    <3> HIDE DEF next
    <3> QED
      BY <1>1, <2>1, <2>2, <3>1, <3>2
  <2>3. CASE u # "insert"
    <3>1. status[c] # "none"
      BY <1>1, <2>3 DEF ServiceInv, RowsOK
    <3>2. \A q \in Servers : ~In(q, c, "insert")
      BY <3>1 DEF ServiceInv, RowsOK
    <3>3. "insert" \notin next
      OBVIOUS
    <3> QED
      BY <1>1, <2>1, <3>2, <3>3
  <2> QED
    BY <2>1, <2>2, <2>3
<1>6. RowsOK'
  BY <1>0, <1>1, <1>2, <1>5 DEF ServiceInv, RowsOK
<1>7. OwnCommands'
  <2> SUFFICES ASSUME single, NEW q \in Servers, at[q] \in {"listening"} \cup HasServed,
                      NEW d \in Commands, status'[d] = "open"
      PROVE  Keeps(q, d)' /\ (In(q, d, "finish")' => d \in reopened'[q])
    BY <1>0 DEF OwnCommands
  <2>1. q = p
    BY <1>3 DEF ServiceInv, OneRuns, HasServed
  <2>2. status[d] = "open" => Keeps(p, d) /\ (In(p, d, "finish") => d \in reopened[p])
    BY <2>1 DEF ServiceInv, OwnCommands
  <2>3. CASE d # c
    <3>1. d \in reopened'[p] <=> d \in reopened[p]
      BY <1>2, <2>3
    <3>2. \A l : In(p, d, l)' <=> In(p, d, l)
      BY <1>1, <2>3
    <3> QED
      BY <1>0, <1>2, <2>1, <2>2, <2>3, <3>1, <3>2 DEF Keeps
  <2>4. CASE d = c
    <3>1. u \notin Final
      BY <1>2, <2>4 DEF Final
    <3>2. CASE u = "insert"
      <4>1. status[c] = "none" /\ \A l : In(p, c, l) => l = "insert"
        BY <1>1, <3>2 DEF ServiceInv, RowsOK
      <4>0. "register" \in next /\ "finish" \notin next
        BY <3>2 DEF Final
      <4> HIDE DEF next
      <4>2. In(p, c, "register")'
        BY <1>1, <4>0
      <4>3. ~In(p, c, "finish")'
        BY <1>1, <4>0, <4>1
      <4> QED
        BY <2>1, <2>4, <4>2, <4>3 DEF Keeps
    <3>3. CASE u # "insert"
      <4>1. next = {}
        BY <3>1, <3>3
      <4>2. u \in {"sent", "acknowledged"}
        BY <3>1, <3>3 DEF Statements
      <4>3. status[c] # "none"
        BY <1>1, <3>3 DEF ServiceInv, RowsOK
      <4>4. status[c] = "open" \/ status[c] \in Final
        BY <1>0, <4>3 DEF TypeOK
      <4>5. \A l \in {"register", "send_failed", "finish"} : In(p, c, l)' <=> In(p, c, l)
        BY <1>1, <4>1, <4>2
      <4>6. CASE status[c] \in Final
        BY <1>2, <2>1, <2>4, <3>1, <4>6 DEF Keeps
      <4>7. CASE status[c] = "open"
        <5>1. \A x : x \in reopened[p] => x \in reopened'[p]
          BY <1>2, <3>1
        <5> QED
          BY <1>0, <2>1, <2>2, <2>4, <4>5, <4>7, <5>1 DEF Keeps
      <4> QED
        BY <4>4, <4>6, <4>7
    <3> QED
      BY <3>2, <3>3
  <2> QED
    BY <2>3, <2>4
<1> QED
  BY <1>4, <1>6, <1>7

LEMMA WorkService ==
  ASSUME ServiceInv, NEW p \in Servers, Working(p)
  PROVE  Rest'
<1>0. at' = at /\ single' = single
  BY DEF Working, Connect, Disconnect, Issue, Register, Logged, Ack, Reply, Expire, Apply,
         Finish, used
<1>1. OneRuns'
  BY <1>0 DEF ServiceInv, OneRuns
<1>2. CASE Connect(p) \/ Disconnect(p)
  <2>1. /\ UNCHANGED <<pending, armed, awaits, reopened, status>>
        /\ link' = NoServer \/ (link' = p /\ Accepting(p))
    BY <1>2 DEF Connect, Disconnect, commands, memory
  <2>2. MemoryOK'
    BY <1>0, <2>1, StartupAssumption DEF ServiceInv, MemoryOK, Accepting
  <2>3. RowsOK' /\ OwnCommands'
    BY <1>0, <2>1 DEF ServiceInv, RowsOK, OwnCommands, Keeps, In
  <2> QED
    BY <1>1, <2>2, <2>3 DEF Rest
<1>3. CASE ~(Connect(p) \/ Disconnect(p))
  BY <1>1, <1>3, BeginService, ContinueService, ApplyService DEF Working, Rest
<1> QED
  BY <1>2, <1>3

LEMMA StepService ==
  ASSUME ServiceInv, [Next]_vars
  PROVE  ServiceInv'
<1> USE DEF database, commands, used
<1>0. TypeOK'
  BY TypeStep DEF ServiceInv
<1>f. ASSUME NEW p \in Servers, Fails(p) PROVE Rest'
  BY <1>f, EndsService DEF Fails, AfterError
<1>1. ASSUME NEW p \in Servers, Start(p) PROVE Rest'
  <2>1. /\ UNCHANGED <<pending, armed, awaits, reopened, status, single, link>>
        /\ single => \A q \in Servers : at[q] = "down"
        /\ \A q \in Servers : at'[q] = IF q = p THEN "reading" ELSE at[q]
        /\ at[p] = "down"
    BY <1>1 DEF Start, Goto, memory, ServiceInv, TypeOK
  <2>2. OneRuns'
    BY <2>1 DEF OneRuns
  <2>3. MemoryOK'
    BY <2>1 DEF ServiceInv, MemoryOK, HasServed, Accepting
  <2>4. RowsOK'
    BY <2>1 DEF ServiceInv, RowsOK, In
  <2>5. OwnCommands'
    BY <2>1 DEF ServiceInv, OwnCommands, HasServed
  <2> QED
    BY <2>2, <2>3, <2>4, <2>5 DEF Rest
<1>2. ASSUME NEW p \in Servers, Migrating(p), ~Fails(p) PROVE Rest'
  <2>1. /\ at[p] \in {"reading", "migrating", "ran", "noted"}
        /\ memory' = memory /\ status' = status /\ single' = single /\ link' = link
        /\ \E l \in {"migrating", "ran", "noted", "recovering"} : Goto(p, l)
    BY <1>2 DEF Migrating, ReadVersions, RunSql, NoteVersion, Commit, UpToDate, Follows
  <2> QED
    BY <2>1, RunsOnService DEF HasServed, Accepting
<1>3. ASSUME NEW p \in Servers, Listen(p) \/ OpenApi(p) \/ Stop(p), ~Fails(p)
      PROVE  Rest'
  <2>1. /\ at[p] \in {"listening", "opening", "serving"}
        /\ memory' = memory /\ status' = status /\ single' = single
        /\ at[p] = "serving" => /\ Goto(p, "stopping")
                                /\ link' = IF link = p THEN NoServer ELSE link
        /\ at[p] # "serving" => /\ Goto(p, "opening") \/ Goto(p, "serving")
                                /\ link' = link
    BY <1>3 DEF Listen, OpenApi, Stop, Follows
  <2> QED
    BY <2>1, RunsOnService DEF HasServed, Accepting
<1>4. ASSUME NEW p \in Servers, Exit(p) \/ Dies(p) PROVE Rest'
  BY <1>4, EndsService DEF Exit, Dies
<1>5. CASE UNCHANGED vars
  <2>1. UNCHANGED <<at, status, pending, armed, awaits, reopened, link, single>>
    BY <1>5 DEF vars, memory
  <2>2. OneRuns' /\ MemoryOK'
    BY <2>1 DEF ServiceInv, OneRuns, MemoryOK, Accepting
  <2>3. RowsOK' /\ OwnCommands'
    BY <2>1 DEF ServiceInv, RowsOK, OwnCommands, Keeps, In
  <2> QED
    BY <1>0, <2>2, <2>3 DEF ServiceInv
<1> QED
  BY <1>0, <1>f, <1>1, <1>2, <1>3, <1>4, <1>5, RecoverService, WorkService
  DEF Next, StartingUp, ServiceInv, Rest

LEMMA ServiceInvariance == Spec => []ServiceInv
BY InitService, StepService, PTL DEF Spec

\* recoverAfterRestart: where one process runs at a time, a command that is open
\* while a process serves is one that this process has in memory or is at work
\* on, or one that it opened again with an UPDATE that came late.  What earlier
\* runs left open, wherever they were killed and in whatever order their
\* statements were applied, has been closed.
THEOREM NoOrphans == Spec => []OrphansClosed
<1>1. ServiceInv => OrphansClosed
  <2> SUFFICES ASSUME ServiceInv, single, NEW p \in Servers, at[p] = "serving",
                      NEW c \in Commands, status[c] = "open"
      PROVE  Holds(p, c) \/ c \in reopened[p]
    BY DEF OrphansClosed
  <2>1. Keeps(p, c)
    BY DEF ServiceInv, OwnCommands, HasServed
  <2>2. \A l : In(p, c, l) => [cmd |-> c, of |-> l] \in Awaited(p, c)
    BY DEF In, Awaited
  <2> QED
    BY <2>1, <2>2 DEF Keeps, Holds
<1> QED
  BY <1>1, ServiceInvariance, PTL

\* The same recovery times out no command that a running process still has in
\* memory or is at work on.
THEOREM OnlyOrphansClosed == Spec => OnlyThePastIsClosed
<1>1. ServiceInv /\ [Next]_vars =>
        [\A p \in Servers : single /\ Recover(p) =>
           \A c \in Commands : status[c] = "open" =>
             \A q \in Servers : ~Holds(q, c)]_vars
  <2>1. ASSUME ServiceInv, NEW p \in Servers, single, Recover(p), NEW q \in Servers
        PROVE  pending[q] = {} /\ awaits[q] = {}
    BY <2>1 DEF Recover, RecoversIn, ServiceInv, OneRuns, MemoryOK, HasServed
  <2> QED
    BY <2>1 DEF Holds, Awaited
<1> QED
  BY <1>1, ServiceInvariance, PTL DEF Spec, OnlyThePastIsClosed
=============================================================================
