--------------------------- MODULE SealKeyProofs ---------------------------
(***************************************************************************)
(* Proofs about SealKey, for every set of commands and keys, any number of *)
(* connections, failures and actions at the lock.                          *)
(***************************************************************************)
EXTENDS SealKey, SequenceTheorems, TLAPS

-----------------------------------------------------------------------------
(***************************************************************************)
(* Type correctness                                                        *)
(***************************************************************************)

\* What the lock answers is one of the codes of the protocol.
LEMMA CodeType ==
  ASSUME TypeOK, NEW type \in Types, NEW k \in Keys \cup {NoKey}
  PROVE  /\ Code(type, k) \in {"0x70", "0x72", "0x73", "0x80", "0x81", "0x83", "0x86",
                               "0x90", "0x93", "0x97", "0x98"}
         /\ Code(type, k) = "0x80" =>
              type = "seal" /\ lock.state = "unsealed" /\ ~lock.low
         /\ Code(type, k) = "0x90" => lock.state = "sealed"
         /\ Code(type, k) = "0x70" => lock.state = "alarm"
<1>1. CASE type = "seal"
  <2>1. Code(type, k) = SealCode  BY <1>1 DEF Code
  <2>2. QED BY <2>1, <1>1 DEF SealCode, TypeOK
<1>2. CASE type = "unseal"
  <2>1. Code(type, k) = UnsealCode(k)  BY <1>2 DEF Code
  <2>2. QED BY <2>1 DEF UnsealCode, TypeOK
<1>3. CASE type = "clear_alarm"
  <2>1. Code(type, k) = ClearCode(k)  BY <1>3 DEF Code
  <2>2. QED BY <2>1 DEF ClearCode, TypeOK
<1>4. QED BY <1>1, <1>2, <1>3 DEF Types

\* The lock after an operation, field by field.
LEMMA OperatedFields ==
  ASSUME TypeOK, NEW code, NEW k \in Keys \cup {NoKey}
  PROVE  /\ Operated(code, k) \in
              [state : {"sealed", "unsealed", "alarm"}, low : BOOLEAN,
               before : {"none", "sealed", "unsealed"}, key : Keys \cup {NoKey}]
         /\ Operated(code, k).before = lock.before
         /\ Operated(code, k).key = IF code = "0x80" THEN k ELSE lock.key
         /\ Operated(code, k).state =
              IF code = "0x80" THEN "sealed"
              ELSE IF code = "0x90" THEN "unsealed"
              ELSE IF code = "0x70"
                   THEN IF lock.before = "sealed" THEN "sealed" ELSE "unsealed"
              ELSE lock.state
<1>1. CASE code = "0x80"  BY <1>1 DEF Operated, TypeOK
<1>2. CASE code = "0x90"  BY <1>2 DEF Operated, TypeOK
<1>3. CASE code = "0x70"  BY <1>3 DEF Operated, TypeOK
<1>4. CASE code \notin {"0x80", "0x90", "0x70"}  BY <1>4 DEF Operated, TypeOK
<1>5. QED BY <1>1, <1>2, <1>3, <1>4

\* What a lock operation does, written out.
LEMMA OperationStep ==
  ASSUME TypeOK, ApplyLockOperation
  PROVE  \E c \in Commands, code \in {"0x70", "0x72", "0x73", "0x80", "0x81", "0x83",
                                      "0x86", "0x90", "0x93", "0x97", "0x98"} :
           /\ delayed # << >> /\ c = Head(delayed) /\ delayed' = Tail(delayed)
           /\ code = Code(cmd[c].type, cmd[c].key)
           /\ lock' = Operated(code, cmd[c].key)
           /\ sealed' = (code = "0x80" \/ (sealed /\ code # "0x90"))
           /\ sealer' = IF code = "0x80" THEN c ELSE sealer
           /\ up' = IF open THEN Append(up, [command |-> c, code |-> code]) ELSE up
           /\ UNCHANGED <<stored, writer, cmd, now, open, down, queue, handler,
                          failures, local>>
<1>1. Head(delayed) \in Commands
  BY HeadTailProperties DEF ApplyLockOperation, TypeOK
<1>2. /\ cmd[Head(delayed)].type \in Types
      /\ cmd[Head(delayed)].key \in Keys \cup {NoKey}
  BY <1>1 DEF TypeOK
<1> DEFINE c == Head(delayed)
           code == Code(cmd[c].type, cmd[c].key)
<1>3. code \in {"0x70", "0x72", "0x73", "0x80", "0x81", "0x83",
                "0x86", "0x90", "0x93", "0x97", "0x98"}
  BY <1>1, <1>2, CodeType
<1>4. /\ delayed # << >> /\ delayed' = Tail(delayed)
      /\ lock' = Operated(code, cmd[c].key)
      /\ sealed' = (code = "0x80" \/ (sealed /\ code # "0x90"))
      /\ sealer' = IF code = "0x80" THEN c ELSE sealer
      /\ up' = IF open THEN Append(up, [command |-> c, code |-> code]) ELSE up
      /\ UNCHANGED <<stored, writer, cmd, now, open, down, queue, handler, failures, local>>
  BY DEF ApplyLockOperation, keyRow, platform, used
<1>5. c = Head(delayed) /\ code = Code(cmd[c].type, cmd[c].key)
  OBVIOUS
<1> HIDE DEF c, code
<1>6. QED
  BY <1>1, <1>3, <1>4, <1>5

Stages == {"idle", "read", "recorded", "sent", "completed", "stored", "failed"}

Call == [at : Stages, type : Types, key : Keys \cup {NoKey}, session : Sessions]

\* A call gets to another stage: nothing else of it changes.
LEMMA Moved ==
  ASSUME TypeOK, NEW c \in Commands, NEW a \in Stages,
         cmd' = [cmd EXCEPT ![c].at = a]
  PROVE  /\ cmd' \in [Commands -> Call] /\ cmd'[c].at = a
         /\ \A d \in Commands : /\ cmd'[d].type = cmd[d].type
                                /\ cmd'[d].key = cmd[d].key
                                /\ d # c => cmd'[d].at = cmd[d].at
<1>1. cmd \in [Commands -> Call]
  BY DEF TypeOK, Call, Stages
<1>2. /\ [cmd[c] EXCEPT !.at = a] \in Call /\ [cmd[c] EXCEPT !.at = a].at = a
      /\ [cmd[c] EXCEPT !.at = a].type = cmd[c].type
      /\ [cmd[c] EXCEPT !.at = a].key = cmd[c].key
  BY <1>1 DEF Call
<1>3. cmd' = [cmd EXCEPT ![c] = [cmd[c] EXCEPT !.at = a]]
  OBVIOUS
<1>4. QED
  BY <1>1, <1>2, <1>3

\* What a restart does to the calls.
LEMMA RestartMoves ==
  ASSUME TypeOK, Restart
  PROVE  /\ cmd' \in [Commands -> Call]
         /\ \A d \in Commands : /\ cmd'[d].type = cmd[d].type
                                /\ cmd'[d].key = cmd[d].key
                                /\ cmd'[d].at \in {cmd[d].at, "failed"}
                                /\ cmd[d].at \notin {"read", "recorded"} =>
                                     cmd'[d].at = cmd[d].at
<1>1. cmd \in [Commands -> Call]
  BY DEF TypeOK, Call, Stages
<1>2. \A d \in Commands : /\ [cmd[d] EXCEPT !.at = "failed"] \in Call
                          /\ [cmd[d] EXCEPT !.at = "failed"].at = "failed"
                          /\ [cmd[d] EXCEPT !.at = "failed"].type = cmd[d].type
                          /\ [cmd[d] EXCEPT !.at = "failed"].key = cmd[d].key
  BY <1>1 DEF Call, Stages
<1>3. QED
  BY <1>1, <1>2 DEF Restart

\* The lock after what people do at it.
LEMMA LocalStep ==
  ASSUME TypeOK, Local
  PROVE  /\ lock' \in [state : {"sealed", "unsealed", "alarm"}, low : BOOLEAN,
                       before : {"none", "sealed", "unsealed"},
                       key : Keys \cup {NoKey}]
         /\ lock'.key = lock.key
         /\ sealed' \in BOOLEAN
         /\ stored' \in Keys \cup {NoKey} /\ writer' \in {writer, NoCommand}
         /\ stored' # stored => writer' = NoCommand
         /\ UNCHANGED <<sealer, cmd, now, open, down, up, delayed, queue, handler,
                        failures>>
         /\ local' = local + 1
<1> USE DEF Act, network, platform, keyRow, theLock, TypeOK
<1>1. CASE KeypadUnseal  BY <1>1 DEF KeypadUnseal
<1>2. CASE KeypadSeal    BY <1>2 DEF KeypadSeal
<1>3. CASE RaiseTamper   BY <1>3 DEF RaiseTamper, Tampered
<1>4. CASE SetLowBattery
  <2>1. lock' = [lock EXCEPT !.low = ~lock.low]
    BY <1>4, Zenon DEF SetLowBattery
  <2>2. CASE lock.low
    <3>1. lock' = [lock EXCEPT !.low = FALSE]
      BY <2>1, <2>2, Zenon
    <3>2. QED BY <1>4, <3>1 DEF SetLowBattery
  <2>3. CASE ~lock.low
    <3>1. lock' = [lock EXCEPT !.low = TRUE]
      BY <2>1, <2>3
    <3>2. QED BY <1>4, <3>1 DEF SetLowBattery
  <2>4. QED BY <2>2, <2>3
<1>5. CASE PatchKey      BY <1>5 DEF PatchKey
<1>6. QED BY <1>1, <1>2, <1>3, <1>4, <1>5 DEF Local

LEMMA TypeInit == Init => TypeOK
BY SealKeyAssumption DEF Init, TypeOK, Types, Sessions

LEMMA TypeStep == TypeOK /\ [Next]_vars => TypeOK'
<1> SUFFICES ASSUME TypeOK, [Next]_vars PROVE TypeOK'
  OBVIOUS
<1> USE SealKeyAssumption
<1>1. ASSUME NEW c \in Commands, ReadDevice(c) PROVE TypeOK'
  BY <1>1 DEF ReadDevice, TypeOK, theLock, keyRow, network, platform, used
<1>2. ASSUME NEW c \in Commands, InsertCommand(c) PROVE TypeOK'
  BY <1>2, Moved DEF InsertCommand, Stages, Call, TypeOK, theLock, keyRow, network, platform, used
<1>3. ASSUME NEW c \in Commands, InsertFails(c) PROVE TypeOK'
  <2>1. cmd' \in [Commands -> Call]
    BY <1>3, Moved DEF InsertFails, Stages
  <2>2. QED
    BY <1>3, <2>1 DEF InsertFails, Fail, Stages, Call, TypeOK, theLock, keyRow, network,
         platform
<1>4. ASSUME NEW c \in Commands, Send(c) PROVE TypeOK'
  <2>1. Append(down, c) \in Seq(Commands)
    BY AppendProperties DEF TypeOK
  <2>2. PICK a \in Stages : cmd' = [cmd EXCEPT ![c].at = a]
    <3>1. cmd[c].at \in Stages
      BY DEF TypeOK, Stages
    <3>2. CASE open /\ cmd[c].session = now
      BY <1>4, <3>1, <3>2 DEF Send, Stages
    <3>3. CASE ~(open /\ cmd[c].session = now)
      BY <1>4, <3>3 DEF Send, Stages
    <3>4. QED
      BY <3>2, <3>3
  <2>3. down' \in Seq(Commands)
    BY <1>4, <2>1 DEF Send, TypeOK
  <2>4. cmd' \in [Commands -> Call]
    BY <2>2, Moved
  <2>5. QED
    BY <1>4, <2>3, <2>4 DEF Send, Stages, Call, TypeOK, theLock, keyRow, platform, used
<1>5. CASE DeviceReceives
  <2>1. Head(down) \in Commands /\ Tail(down) \in Seq(Commands)
    BY <1>5, HeadTailProperties DEF TypeOK, DeviceReceives
  <2>2. Append(delayed, Head(down)) \in Seq(Commands)
    BY <2>1, AppendProperties DEF TypeOK
  <2>3. QED
    BY <1>5, <2>1, <2>2 DEF DeviceReceives, TypeOK, theLock, keyRow, platform, used
<1>6. CASE ApplyLockOperation
  <2>1. PICK c \in Commands, code \in {"0x70", "0x72", "0x73", "0x80", "0x81", "0x83",
                                       "0x86", "0x90", "0x93", "0x97", "0x98"} :
           /\ delayed # << >> /\ delayed' = Tail(delayed)
           /\ lock' = Operated(code, cmd[c].key)
           /\ sealed' = (code = "0x80" \/ (sealed /\ code # "0x90"))
           /\ sealer' = IF code = "0x80" THEN c ELSE sealer
           /\ up' = IF open THEN Append(up, [command |-> c, code |-> code]) ELSE up
           /\ UNCHANGED <<stored, writer, cmd, now, open, down, queue, handler,
                          failures, local>>
    BY <1>6, OperationStep
  <2>2. lock' \in [state : {"sealed", "unsealed", "alarm"}, low : BOOLEAN,
                   before : {"none", "sealed", "unsealed"}, key : Keys \cup {NoKey}]
    BY <2>1, OperatedFields DEF TypeOK
  <2>3. delayed' \in Seq(Commands)
    BY <2>1, HeadTailProperties DEF TypeOK
  <2>4. [command |-> c, code |-> code] \in Reply
    BY DEF Reply
  <2>5. up' \in Seq(Reply)
    BY <2>1, <2>4, AppendProperties DEF TypeOK
  <2>6. sealed' \in BOOLEAN /\ sealer' \in Commands \cup {NoCommand}
    BY <2>1 DEF TypeOK
  <2>7. QED
    BY <2>1, <2>2, <2>3, <2>5, <2>6 DEF TypeOK
<1>7. CASE Local
  BY <1>7, LocalStep DEF TypeOK
<1>8. CASE OnData
  <2>1. Head(up) \in Reply /\ Tail(up) \in Seq(Reply)
    BY <1>8, HeadTailProperties DEF TypeOK, OnData
  <2>2. Append(queue[now], Head(up)) \in Seq(Reply)
    BY <2>1, AppendProperties DEF TypeOK
  <2>3. QED
    BY <1>8, <2>1, <2>2 DEF OnData, TypeOK, theLock, keyRow, used
<1>9. ASSUME NEW s \in Sessions, Handler(s) PROVE TypeOK'
  <2>1. CASE FindCommand(s)
    <3>1. Head(queue[s]) \in Reply /\ Tail(queue[s]) \in Seq(Reply)
      BY <2>1, HeadTailProperties DEF TypeOK, FindCommand
    <3>2. QED
      BY <2>1, <3>1 DEF FindCommand, TypeOK, theLock, keyRow, network, used
  <2>2. CASE UpdateCommand(s)
    <3>1. handler[s].command \in Commands
      BY <2>2 DEF UpdateCommand, TypeOK, Reply
    <3>2. QED
      BY <2>2, <3>1, Moved DEF UpdateCommand, Stages, Call, TypeOK, theLock, keyRow, network, used
  <2>3. CASE UpdateDevice(s)
    <3>1. handler[s].command \in Commands
      BY <2>3 DEF UpdateDevice, TypeOK, Reply
    <3>2. QED
      BY <2>3, <3>1, Moved DEF UpdateDevice, Stages, Call, TypeOK, theLock, network, used
  <2>4. CASE HandlerFails(s)
    BY <2>4 DEF HandlerFails, Fail, TypeOK, theLock, keyRow, network
  <2>5. QED
    BY <1>9, <2>1, <2>2, <2>3, <2>4 DEF Handler
<1>10. CASE Disconnect
  <2>1. down' \in Seq(Commands) /\ up' \in Seq(Reply)
    BY <1>10, EmptySeq DEF Disconnect, Disconnected
  <2>2. QED
    BY <1>10, <2>1 DEF Disconnect, Disconnected, TypeOK, theLock, keyRow, platform, used
<1>11. CASE Restart
  <2>1. /\ down' \in Seq(Commands) /\ up' \in Seq(Reply)
        /\ queue' \in [Sessions -> Seq(Reply)]
        /\ handler' \in [Sessions -> Reply \cup {NoReply}]
    BY <1>11, EmptySeq DEF Restart, Disconnected
  <2>2. cmd' \in [Commands -> Call]
    BY <1>11, RestartMoves
  <2>3. Fail /\ Disconnected
    BY <1>11, Zenon DEF Restart
  <2>4. UNCHANGED <<lock, sealed, sealer, stored, writer, now, delayed>>
    BY <1>11 DEF Restart, theLock, keyRow, TypeOK
  <2>5. QED
    <3>1. failures' \in Nat /\ local' \in Nat
      BY <2>3 DEF Fail, TypeOK
    <3>2. open' \in BOOLEAN
      BY <2>3 DEF Disconnected
    <3>3. QED
      BY <2>1, <2>2, <2>4, <3>1, <3>2 DEF Call, Stages, TypeOK
<1>12. CASE Connect
  BY <1>12 DEF Connect, TypeOK, Sessions, theLock, keyRow, platform, used
<1>13. CASE UNCHANGED vars
  BY <1>13 DEF vars, TypeOK, theLock, keyRow, network, platform, used
<1>14. QED
  BY <1>1, <1>2, <1>3, <1>4, <1>5, <1>6, <1>7, <1>8, <1>9, <1>10, <1>11, <1>12, <1>13
     DEF Next

\* In every behaviour the variables have the values their declarations say.
THEOREM TypeCorrect == Spec => []TypeOK
BY TypeInit, TypeStep, PTL DEF Spec

-----------------------------------------------------------------------------
(***************************************************************************)
(* The lock keeps its seal, and its key is on record.                      *)
(***************************************************************************)

\* The frames on their way to the lock and the operations it has yet to apply
\* are of commands that were sent, and so have a row that no restart voids.
Answered(c) == cmd[c].at \in {"sent", "completed", "stored"}

OnTheWay ==
  /\ \A i \in 1..Len(down) : Answered(down[i])
  /\ \A i \in 1..Len(delayed) : Answered(delayed[i])

SealerAnswered ==
  sealer # NoCommand => /\ Answered(sealer) /\ cmd[sealer].type = "seal"
                        /\ cmd[sealer].key = lock.key

KeyInv == TypeOK /\ SealUnbroken /\ OnTheWay /\ SealerAnswered

\* What a step that only changes calls has to respect.
LEMMA CallsMove ==
  ASSUME KeyInv, TypeOK',
         \A c \in Commands : /\ cmd'[c].type = cmd[c].type \/ cmd[c].at = "idle"
                             /\ cmd'[c].key = cmd[c].key \/ cmd[c].at = "idle"
                             /\ Answered(c) => Answered(c)',
         UNCHANGED <<lock, sealed, sealer, down, delayed>>
  PROVE  KeyInv'
<1>1. SealUnbroken'
  BY DEF KeyInv, SealUnbroken
<1>2. OnTheWay'
  <2>1. \A i \in 1..Len(down) : down[i] \in Commands
    BY DEF KeyInv, TypeOK
  <2>2. \A i \in 1..Len(delayed) : delayed[i] \in Commands
    BY DEF KeyInv, TypeOK
  <2>3. QED
    BY <2>1, <2>2 DEF KeyInv, OnTheWay
<1>3. SealerAnswered'
  BY DEF KeyInv, SealerAnswered, TypeOK, Answered
<1>4. QED
  BY <1>1, <1>2, <1>3 DEF KeyInv

\* A step of one call.
LEMMA OneCallMoves ==
  ASSUME KeyInv, TypeOK', NEW c \in Commands, NEW a \in Stages,
         cmd' = [cmd EXCEPT ![c].at = a],
         Answered(c) => a \in {"sent", "completed", "stored"},
         UNCHANGED <<lock, sealed, sealer, down, delayed>>
  PROVE  KeyInv'
BY Moved, CallsMove DEF KeyInv, Answered

\* A step that leaves calls and lock alone and takes frames off the connection.
LEMMA FramesGo ==
  ASSUME KeyInv, TypeOK', down' \in {down, << >>},
         UNCHANGED <<lock, sealed, sealer, cmd, delayed>>
  PROVE  KeyInv'
BY DEF KeyInv, SealUnbroken, OnTheWay, SealerAnswered, Answered

LEMMA KeyInit == Init => KeyInv
<1> SUFFICES ASSUME Init PROVE KeyInv
  OBVIOUS
<1>1. SealUnbroken
  <2>1. PICK s \in {"sealed", "unsealed"}, k \in InitialKeys :
          /\ lock = [state |-> s, before |-> "none", key |-> k, low |-> FALSE]
          /\ sealed = (s = "sealed")
    BY Zenon DEF Init
  <2>2. lock.state = s
    BY <2>1
  <2>3. CASE s = "sealed"
    BY <2>1, <2>2, <2>3 DEF SealUnbroken
  <2>4. CASE s = "unsealed"
    BY <2>1, <2>2, <2>4 DEF SealUnbroken
  <2>5. QED
    BY <2>3, <2>4
<1>2. OnTheWay /\ SealerAnswered
  BY DEF Init, OnTheWay, SealerAnswered
<1>3. QED
  BY TypeInit, <1>1, <1>2 DEF KeyInv

LEMMA KeySend ==
  ASSUME KeyInv, TypeOK', NEW c \in Commands, Send(c)
  PROVE  KeyInv'
<1>1. UNCHANGED <<lock, sealed, sealer, delayed>>
  BY DEF Send, theLock
<1>2. CASE open /\ cmd[c].session = now
  <2>1. cmd[c].at = "recorded" /\ cmd' = [cmd EXCEPT ![c].at = "sent"]
    BY <1>2 DEF Send, Writable
  <2>2. Answered(c)' /\ \A d \in Commands : Answered(d) => Answered(d)'
    BY <2>1, Moved DEF KeyInv, Answered, Stages
  <2>3. SealerAnswered'
    BY <2>1, <2>2, <1>1, Moved DEF KeyInv, SealerAnswered, TypeOK, Stages
  <2>4. down' = Append(down, c)
    BY <1>2 DEF Send
  <2>5. \A i \in 1..Len(down') :
          down'[i] = c \/ (i \in 1..Len(down) /\ down'[i] = down[i])
    <3>1. down \in Seq(Commands)
      BY DEF KeyInv, TypeOK
    <3>2. /\ Len(down) \in Nat /\ Len(down') = Len(down) + 1
          /\ \A i \in 1..Len(down) : down'[i] = down[i]
          /\ down'[Len(down) + 1] = c
      BY <2>4, <3>1, AppendProperties, LenProperties
    <3>3. QED
      BY <3>2
  <2>6. OnTheWay'
    <3>0. down \in Seq(Commands) /\ delayed \in Seq(Commands)
      BY DEF KeyInv, TypeOK
    <3>1. /\ \A i \in 1..Len(down) : down[i] \in Commands /\ Answered(down[i])
          /\ \A i \in 1..Len(delayed) : delayed[i] \in Commands /\ Answered(delayed[i])
      BY <3>0, ElementOfSeq DEF KeyInv, OnTheWay
    <3>2. \A d \in Commands : Answered(d) => cmd'[d].at \in {"sent", "completed", "stored"}
      BY <2>2 DEF Answered
    <3>3. cmd'[c].at \in {"sent", "completed", "stored"}
      BY <2>2 DEF Answered
    <3>4. QED
      BY <1>1, <2>5, <3>1, <3>2, <3>3 DEF OnTheWay, Answered
  <2>7. QED
    BY <1>1, <2>3, <2>6 DEF KeyInv, SealUnbroken
<1>3. CASE ~ (open /\ cmd[c].session = now)
  <2>1. cmd' = [cmd EXCEPT ![c].at = "failed"] /\ down' = down /\ ~Answered(c)
    BY <1>3 DEF Send, Writable, Answered
  <2>2. QED
    BY <2>1, <1>1, OneCallMoves DEF Stages
<1>4. QED
  BY <1>2, <1>3

LEMMA KeyDeviceReceives ==
  ASSUME KeyInv, TypeOK', DeviceReceives
  PROVE  KeyInv'
<1>1. /\ down # << >> /\ down' = Tail(down)
      /\ delayed' \in {delayed, Append(delayed, Head(down))}
      /\ UNCHANGED <<lock, sealed, sealer, cmd>>
  BY DEF DeviceReceives, theLock
<1>2. Head(down) = down[1] /\ 1 \in 1..Len(down)
  BY <1>1 DEF KeyInv, TypeOK
<1>3. \A i \in 1..Len(down') : down'[i] = down[i + 1] /\ i + 1 \in 1..Len(down)
  BY <1>1 DEF KeyInv, TypeOK
<1>4. \A i \in 1..Len(delayed') :
        \/ i \in 1..Len(delayed) /\ delayed'[i] = delayed[i]
        \/ delayed'[i] = down[1]
  <2>1. down[1] \in Commands /\ delayed \in Seq(Commands)
    BY <1>2 DEF KeyInv, TypeOK
  <2>2. QED
    BY <1>1, <1>2, <2>1, AppendProperties
<1>5. OnTheWay'
  BY <1>1, <1>2, <1>3, <1>4 DEF KeyInv, OnTheWay, Answered
<1>6. QED
  BY <1>1, <1>5 DEF KeyInv, SealUnbroken, SealerAnswered, Answered

LEMMA KeyApply ==
  ASSUME KeyInv, TypeOK', ApplyLockOperation
  PROVE  KeyInv'
<1>1. PICK c \in Commands, code \in {"0x70", "0x72", "0x73", "0x80", "0x81", "0x83",
                                     "0x86", "0x90", "0x93", "0x97", "0x98"} :
        /\ delayed # << >> /\ c = Head(delayed) /\ delayed' = Tail(delayed)
        /\ code = Code(cmd[c].type, cmd[c].key)
        /\ lock' = Operated(code, cmd[c].key)
        /\ sealed' = (code = "0x80" \/ (sealed /\ code # "0x90"))
        /\ sealer' = IF code = "0x80" THEN c ELSE sealer
        /\ UNCHANGED <<cmd, down>>
  BY OperationStep DEF KeyInv
<1>2. cmd[c].type \in Types /\ cmd[c].key \in Keys \cup {NoKey}
  BY DEF KeyInv, TypeOK
<1>3. /\ code = "0x80" => cmd[c].type = "seal"
      /\ code = "0x90" => lock.state = "sealed"
      /\ code = "0x70" => lock.state = "alarm"
  BY <1>1, <1>2, CodeType DEF KeyInv
<1>4. /\ lock'.before = lock.before
      /\ lock'.key = IF code = "0x80" THEN cmd[c].key ELSE lock.key
      /\ lock'.state = IF code = "0x80" THEN "sealed"
                       ELSE IF code = "0x90" THEN "unsealed"
                       ELSE IF code = "0x70"
                            THEN IF lock.before = "sealed" THEN "sealed" ELSE "unsealed"
                       ELSE lock.state
  BY <1>1, <1>2, OperatedFields DEF KeyInv
<1>5. SealUnbroken'
  BY <1>1, <1>3, <1>4 DEF KeyInv, SealUnbroken, TypeOK
<1>6. 1 \in 1..Len(delayed) /\ c = delayed[1]
  BY <1>1 DEF KeyInv, TypeOK
<1>7. Answered(c)
  BY <1>6 DEF KeyInv, OnTheWay
<1>8. SealerAnswered'
  BY <1>1, <1>3, <1>4, <1>7 DEF KeyInv, SealerAnswered, Answered
<1>9. \A i \in 1..Len(delayed') :
        delayed'[i] = delayed[i + 1] /\ i + 1 \in 1..Len(delayed)
  BY <1>1 DEF KeyInv, TypeOK
<1>10. OnTheWay'
  BY <1>1, <1>9 DEF KeyInv, OnTheWay, Answered
<1>11. QED
  BY <1>5, <1>8, <1>10 DEF KeyInv

LEMMA KeyLocal ==
  ASSUME KeyInv, TypeOK', Local
  PROVE  KeyInv'
<1>1. /\ lock'.key = lock.key
      /\ UNCHANGED <<sealer, cmd, down, delayed>>
  BY LocalStep DEF KeyInv
<1>2. OnTheWay' /\ SealerAnswered'
  BY <1>1 DEF KeyInv, OnTheWay, SealerAnswered, Answered
<1>3. SealUnbroken'
  <2> USE DEF KeyInv, SealUnbroken, TypeOK, theLock
  <2>1. CASE KeypadUnseal  BY <2>1 DEF KeypadUnseal
  <2>2. CASE KeypadSeal    BY <2>2 DEF KeypadSeal
  <2>3. CASE RaiseTamper   BY <2>3 DEF RaiseTamper, Tampered
  <2>4. CASE SetLowBattery
    <3>1. lock' = [lock EXCEPT !.low = ~lock.low] /\ sealed' = sealed
      BY <2>4, Zenon DEF SetLowBattery
    <3>2. lock'.state = lock.state /\ lock'.before = lock.before
      BY <3>1, Zenon
    <3>3. QED BY <3>1, <3>2
  <2>5. CASE PatchKey      BY <2>5 DEF PatchKey
  <2>6. QED BY <2>1, <2>2, <2>3, <2>4, <2>5 DEF Local
<1>4. QED
  BY <1>2, <1>3 DEF KeyInv

LEMMA KeyStep == KeyInv /\ [Next]_vars => KeyInv'
<1> SUFFICES ASSUME KeyInv, [Next]_vars PROVE KeyInv'
  OBVIOUS
<1>0. TypeOK'
  BY TypeStep DEF KeyInv
<1>1. ASSUME NEW c \in Commands, ReadDevice(c) PROVE KeyInv'
  <2>1. /\ cmd[c].at = "idle" /\ UNCHANGED <<lock, sealed, sealer, down, delayed>>
        /\ \A d \in Commands : d # c => cmd'[d] = cmd[d]
    BY <1>1 DEF ReadDevice, theLock, network, KeyInv, TypeOK
  <2>2. \A d \in Commands : /\ cmd'[d].type = cmd[d].type \/ cmd[d].at = "idle"
                            /\ cmd'[d].key = cmd[d].key \/ cmd[d].at = "idle"
                            /\ Answered(d) => Answered(d)'
    BY <2>1 DEF Answered
  <2>3. QED
    BY <1>0, <2>1, <2>2, CallsMove
<1>2. ASSUME NEW c \in Commands, InsertCommand(c) PROVE KeyInv'
  BY <1>0, <1>2, OneCallMoves DEF InsertCommand, Answered, Stages, theLock, network
<1>3. ASSUME NEW c \in Commands, InsertFails(c) PROVE KeyInv'
  BY <1>0, <1>3, OneCallMoves DEF InsertFails, Answered, Stages, theLock, network
<1>4. ASSUME NEW c \in Commands, Send(c) PROVE KeyInv'
  BY <1>0, <1>4, KeySend
<1>5. CASE DeviceReceives
  BY <1>0, <1>5, KeyDeviceReceives
<1>6. CASE ApplyLockOperation
  BY <1>0, <1>6, KeyApply
<1>7. CASE Local
  BY <1>0, <1>7, KeyLocal
<1>8. CASE OnData
  BY <1>0, <1>8, FramesGo DEF OnData, theLock
<1>9. ASSUME NEW s \in Sessions, Handler(s) PROVE KeyInv'
  <2>1. CASE FindCommand(s)
    BY <1>0, <2>1, FramesGo DEF FindCommand, theLock, network
  <2>2. CASE UpdateCommand(s)
    <3>1. handler[s].command \in Commands
      BY <2>2 DEF UpdateCommand, KeyInv, TypeOK, Reply
    <3>2. QED
      BY <1>0, <2>2, <3>1, OneCallMoves DEF UpdateCommand, Stages, theLock, network
  <2>3. CASE UpdateDevice(s)
    <3>1. handler[s].command \in Commands
      BY <2>3 DEF UpdateDevice, KeyInv, TypeOK, Reply
    <3>2. QED
      BY <1>0, <2>3, <3>1, OneCallMoves DEF UpdateDevice, Stages, theLock, network
  <2>4. CASE HandlerFails(s)
    BY <1>0, <2>4, FramesGo DEF HandlerFails, theLock, network
  <2>5. QED
    BY <1>9, <2>1, <2>2, <2>3, <2>4 DEF Handler
<1>10. CASE Disconnect
  BY <1>0, <1>10, FramesGo DEF Disconnect, Disconnected, theLock
<1>11. CASE Restart
  <2>1. UNCHANGED <<theLock, delayed>> /\ Disconnected
    BY <1>11, Zenon DEF Restart
  <2>2. \A c \in Commands : /\ cmd'[c].type = cmd[c].type /\ cmd'[c].key = cmd[c].key
                            /\ Answered(c) => Answered(c)'
    BY <1>11, RestartMoves DEF KeyInv, Answered
  <2>3. OnTheWay'
    BY <2>1, <2>2 DEF KeyInv, TypeOK, OnTheWay, Disconnected
  <2>4. SealerAnswered'
    BY <2>1, <2>2 DEF KeyInv, TypeOK, SealerAnswered, theLock
  <2>5. QED
    BY <1>0, <2>1, <2>3, <2>4 DEF KeyInv, SealUnbroken, theLock
<1>12. CASE Connect
  BY <1>0, <1>12, FramesGo DEF Connect, theLock
<1>13. CASE UNCHANGED vars
  BY <1>0, <1>13, FramesGo DEF vars, theLock, network
<1>14. QED
  BY <1>1, <1>2, <1>3, <1>4, <1>5, <1>6, <1>7, <1>8, <1>9, <1>10, <1>11, <1>12, <1>13
     DEF Next

\* A lock that was sealed stays sealed until it is unsealed with its key or at
\* its keypad, whatever alarms, connections and restarts come in between.
THEOREM LockKeepsItsSeal == Spec => []SealUnbroken
<1>1. KeyInv => SealUnbroken
  BY DEF KeyInv
<1>2. QED
  BY KeyInit, KeyStep, <1>1, PTL DEF Spec

\* The key of a lock that the platform sealed is in the row of the command,
\* also when the reply is lost, the connection or the platform goes down, or
\* the handler of the reply fails.
THEOREM KeyStaysOnRecord == Spec => []KeyIsOnRecord
<1>1. KeyInv => KeyIsOnRecord
  BY DEF KeyInv, SealerAnswered, Answered, KeyIsOnRecord, Recorded
<1>2. QED
  BY KeyInit, KeyStep, <1>1, PTL DEF Spec

-----------------------------------------------------------------------------
(***************************************************************************)
(* The stored key is the key of the lock.                                  *)
(*                                                                         *)
(* This needs the order of the replies: the last seal that the lock has    *)
(* executed is also the last one that the platform stores.  The order is   *)
(* kept from the lock to the handler while only one session has replies to *)
(* process; a device that is back before they are (Overlap) breaks it.     *)
(***************************************************************************)

\* A reply that has been sent and not been processed.
Unprocessed(r) ==
  \/ \E i \in 1..Len(up) : r = up[i]
  \/ \E i \in 1..Len(queue[now]) : r = queue[now][i]
  \/ handler[now] # NoReply /\ r = handler[now]

OneSession ==
  \A s \in Sessions : s # now => queue[s] = << >> /\ handler[s] = NoReply

\* An operation that the lock has yet to apply: no reply to it exists.
Unanswered(c) ==
  /\ cmd[c].at = "sent"
  /\ \A r \in Reply : Unprocessed(r) => r.command # c

OnceOnTheWay ==
  /\ \A i \in 1..Len(down) : Unanswered(down[i])
  /\ \A i \in 1..Len(delayed) : Unanswered(delayed[i])
  /\ \A i, j \in 1..Len(down) : i # j => down[i] # down[j]
  /\ \A i, j \in 1..Len(delayed) : i # j => delayed[i] # delayed[j]
  /\ \A i \in 1..Len(down), j \in 1..Len(delayed) : down[i] # delayed[j]

\* A reply that is not processed completes its command, or has just done so and
\* has the key yet to store.
RepliesOpen ==
  \A r \in Reply : Unprocessed(r) =>
    /\ \/ cmd[r.command].at = "sent"
       \/ /\ handler[now] # NoReply /\ r = handler[now]
          /\ cmd[r.command].at = "completed" /\ Stores(r)
    /\ cmd[r.command].type = "seal" /\ Outcome(r.code) = "success" => r.code = "0x80"

\* Of two replies on their way, the earlier is not the one to the last seal if
\* the later is one to a seal too.
Earlier(r1, r2) ==
  /\ r1.command # r2.command
  /\ ~ (r1.command = sealer /\ r1.code = "0x80" /\ r2.code = "0x80")

InOrder ==
  /\ \A i, j \in 1..Len(up) : i < j => Earlier(up[i], up[j])
  /\ \A i, j \in 1..Len(queue[now]) :
       i < j => Earlier(queue[now][i], queue[now][j])
  /\ \A i \in 1..Len(queue[now]), j \in 1..Len(up) : Earlier(queue[now][i], up[j])
  /\ handler[now] # NoReply =>
       /\ \A i \in 1..Len(queue[now]) : Earlier(handler[now], queue[now][i])
       /\ \A i \in 1..Len(up) : Earlier(handler[now], up[i])

\* Once the key of the last seal is stored, no other is on its way.
LastSeal ==
  sealer # NoCommand /\ cmd[sealer].at = "stored" =>
    \A r \in Reply : Unprocessed(r) /\ r.code = "0x80" => r.command = sealer

OrderInv == /\ KeyInv /\ OneSession /\ OnceOnTheWay /\ RepliesOpen /\ InOrder
            /\ LastSeal /\ StoredIsSealKey

LEMMA TailAt ==
  ASSUME NEW S, NEW q \in Seq(S), q # << >>
  PROVE  /\ Len(q) \in Nat /\ 1 \in 1..Len(q) /\ Head(q) = q[1]
         /\ \A i \in 1..Len(Tail(q)) : Tail(q)[i] = q[i + 1] /\ i + 1 \in 1..Len(q)
         /\ Len(Tail(q)) \in Nat
BY HeadTailProperties, LenProperties

LEMMA AppendAt ==
  ASSUME NEW S, NEW q \in Seq(S), NEW e \in S
  PROVE  /\ Len(q) \in Nat /\ Len(Append(q, e)) = Len(q) + 1
         /\ \A i \in 1..Len(Append(q, e)) :
              \/ i \in 1..Len(q) /\ Append(q, e)[i] = q[i]
              \/ i = Len(q) + 1 /\ Append(q, e)[i] = e
<1>1. /\ Len(q) \in Nat /\ Len(Append(q, e)) = Len(q) + 1
      /\ \A i \in 1..Len(q) : Append(q, e)[i] = q[i]
      /\ Append(q, e)[Len(q) + 1] = e
  BY AppendProperties, LenProperties
<1>2. QED
  BY <1>1

\* The replies and commands are what TypeOK says, member by member.
LEMMA Members ==
  ASSUME TypeOK
  PROVE  /\ \A i \in 1..Len(down) : down[i] \in Commands
         /\ \A i \in 1..Len(delayed) : delayed[i] \in Commands
         /\ \A i \in 1..Len(up) : up[i] \in Reply
         /\ \A i \in 1..Len(queue[now]) : queue[now][i] \in Reply
         /\ handler[now] # NoReply => handler[now] \in Reply
         /\ \A r \in Reply : r.command \in Commands
<1>1. down \in Seq(Commands) /\ delayed \in Seq(Commands) /\ up \in Seq(Reply)
      /\ queue[now] \in Seq(Reply) /\ handler[now] \in Reply \cup {NoReply}
  BY DEF TypeOK
<1>2. QED
  BY <1>1, ElementOfSeq DEF Reply

LEMMA OrderInit == Init => OrderInv
<1> SUFFICES ASSUME Init PROVE OrderInv
  OBVIOUS
<1>1. KeyInv /\ now \in Sessions
  BY KeyInit DEF KeyInv, TypeOK
<1>2. /\ sealer = NoCommand /\ down = << >> /\ delayed = << >> /\ up = << >>
      /\ \A s \in Sessions : queue[s] = << >> /\ handler[s] = NoReply
  BY Zenon DEF Init
<1>3. \A r \in Reply : ~Unprocessed(r)
  BY <1>1, <1>2 DEF Unprocessed
<1>4. OneSession /\ OnceOnTheWay /\ RepliesOpen /\ InOrder
  BY <1>1, <1>2, <1>3 DEF OneSession, OnceOnTheWay, RepliesOpen, InOrder
<1>5. LastSeal /\ StoredIsSealKey
  BY <1>2 DEF LastSeal, StoredIsSealKey
<1>6. QED
  BY <1>1, <1>4, <1>5 DEF OrderInv

\* A step that leaves the replies and the operations alone, and the commands
\* that have been sent.
LEMMA OrderFrame ==
  ASSUME OrderInv, KeyInv',
         \A c \in Commands : Answered(c) =>
           cmd'[c].at = cmd[c].at /\ cmd'[c].type = cmd[c].type,
         UNCHANGED <<sealer, now, down, delayed, up, queue, handler>>,
         StoredIsSealKey'
  PROVE  OrderInv'
<1> USE Members DEF OrderInv, KeyInv
<1>1. \A r : Unprocessed(r)' <=> Unprocessed(r)
  BY DEF Unprocessed
<1>2. OneSession'
  BY DEF OneSession
<1>3. \A c \in Commands : Unanswered(c) => Unanswered(c)'
  BY <1>1 DEF Unanswered, Answered
<1>4. OnceOnTheWay'
  BY <1>3 DEF OnceOnTheWay
<1>5. RepliesOpen'
  BY <1>1 DEF RepliesOpen, Answered, Stores
<1>6. InOrder'
  BY DEF InOrder, Earlier
<1>7. LastSeal'
  BY <1>1 DEF LastSeal, SealerAnswered, TypeOK
<1>8. QED
  BY <1>2, <1>4, <1>5, <1>6, <1>7

\* The frame of a call that has just been recorded joins the others.
LEMMA OrderSend ==
  ASSUME OrderInv, KeyInv', NEW c \in Commands, Send(c)
  PROVE  OrderInv'
<1>1. UNCHANGED <<lock, sealer, stored, writer, now, delayed, up, queue, handler>>
  BY DEF Send, theLock, keyRow, platform
<1>2. TypeOK /\ TypeOK' /\ SealerAnswered
  BY DEF OrderInv, KeyInv
<1>3. CASE open /\ cmd[c].session = now
  <2>1. /\ cmd[c].at = "recorded" /\ cmd' = [cmd EXCEPT ![c].at = "sent"]
        /\ down' = Append(down, c)
    BY <1>3 DEF Send, Writable
  <2>2. /\ cmd'[c].at = "sent"
        /\ \A d \in Commands : cmd'[d].type = cmd[d].type
        /\ \A d \in Commands : d # c => cmd'[d].at = cmd[d].at
    BY <2>1, <1>2, Moved DEF Stages
  <2>3. \A r : Unprocessed(r)' <=> Unprocessed(r)
    BY <1>1 DEF Unprocessed
  <2>4. \A r \in Reply : Unprocessed(r) => r.command # c
    BY <2>1 DEF OrderInv, RepliesOpen
  <2>5. \A d \in Commands : Unanswered(d) =>
          /\ d # c /\ cmd'[d].at = "sent"
          /\ \A r \in Reply : Unprocessed(r)' => r.command # d
    BY <2>1, <2>2, <2>3 DEF Unanswered
  <2>6. cmd'[c].at = "sent" /\ \A r \in Reply : Unprocessed(r)' => r.command # c
    BY <2>2, <2>3, <2>4
  <2>7. /\ Len(down) \in Nat /\ Len(down') = Len(down) + 1
        /\ \A i \in 1..Len(down') :
             \/ i \in 1..Len(down) /\ down'[i] = down[i]
             \/ i = Len(down) + 1 /\ down'[i] = c
    <3>1. down \in Seq(Commands)
      BY <1>2 DEF TypeOK
    <3>2. QED
      BY <3>1, <2>1, AppendAt
  <2>8. OnceOnTheWay'
    <3>1. /\ \A i \in 1..Len(down) :
               /\ down[i] # c /\ cmd'[down[i]].at = "sent"
               /\ \A r \in Reply : Unprocessed(r)' => r.command # down[i]
          /\ \A i \in 1..Len(delayed) :
               /\ delayed[i] # c /\ cmd'[delayed[i]].at = "sent"
               /\ \A r \in Reply : Unprocessed(r)' => r.command # delayed[i]
      BY <2>5, <1>2, Members DEF OrderInv, OnceOnTheWay
    <3>3. /\ \A i \in 1..Len(down') :
               /\ cmd'[down'[i]].at = "sent"
               /\ \A r \in Reply : Unprocessed(r)' => r.command # down'[i]
          /\ \A i \in 1..Len(delayed') :
               /\ cmd'[delayed'[i]].at = "sent"
               /\ \A r \in Reply : Unprocessed(r)' => r.command # delayed'[i]
      BY <1>1, <2>6, <2>7, <3>1
    <3>4. \A i, j \in 1..Len(down') : i # j => down'[i] # down'[j]
      BY <2>7, <3>1 DEF OrderInv, OnceOnTheWay
    <3>5. \A i \in 1..Len(down'), j \in 1..Len(delayed') : down'[i] # delayed'[j]
      BY <1>1, <2>7, <3>1 DEF OrderInv, OnceOnTheWay
    <3>6. \A i, j \in 1..Len(delayed') : i # j => delayed'[i] # delayed'[j]
      BY <1>1 DEF OrderInv, OnceOnTheWay
    <3>7. QED
      BY <3>3, <3>4, <3>5, <3>6 DEF OnceOnTheWay, Unanswered
  <2>9. RepliesOpen'
    BY <1>1, <1>2, <2>2, <2>3, <2>4, Members DEF OrderInv, RepliesOpen, Stores
  <2>10. OneSession' /\ InOrder'
    BY <1>1 DEF OrderInv, OneSession, InOrder, Earlier
  <2>11. sealer # c
    BY <1>2, <2>1, SealKeyAssumption DEF SealerAnswered, Answered
  <2>12. LastSeal' /\ StoredIsSealKey'
    BY <1>1, <1>2, <2>2, <2>3, <2>11 DEF OrderInv, LastSeal, StoredIsSealKey, TypeOK
  <2>13. QED
    BY <2>8, <2>9, <2>10, <2>12 DEF OrderInv
<1>4. CASE ~ (open /\ cmd[c].session = now)
  <2>1. cmd[c].at = "recorded" /\ cmd' = [cmd EXCEPT ![c].at = "failed"] /\ down' = down
    BY <1>4 DEF Send, Writable
  <2>2. \A d \in Commands : Answered(d) =>
          cmd'[d].at = cmd[d].at /\ cmd'[d].type = cmd[d].type
    BY <2>1, <1>2, Moved DEF Stages, Answered
  <2>3. StoredIsSealKey'
    BY <1>1, <1>2, <2>2 DEF OrderInv, StoredIsSealKey, SealerAnswered, TypeOK
  <2>4. QED
    BY <1>1, <2>1, <2>2, <2>3, OrderFrame
<1>5. QED
  BY <1>3, <1>4

\* A frame becomes an operation that the lock will apply, or is dropped.
LEMMA OrderDeviceReceives ==
  ASSUME OrderInv, KeyInv', DeviceReceives
  PROVE  OrderInv'
<1>1. /\ down # << >> /\ down' = Tail(down)
      /\ delayed' \in {delayed, Append(delayed, Head(down))}
      /\ UNCHANGED <<lock, sealer, stored, writer, cmd, now, up, queue, handler>>
  BY DEF DeviceReceives, theLock, keyRow, platform
<1>2. down \in Seq(Commands) /\ delayed \in Seq(Commands)
  BY DEF OrderInv, KeyInv, TypeOK
<1>3. \A r : Unprocessed(r)' <=> Unprocessed(r)
  BY <1>1 DEF Unprocessed
<1>4. \A c : Unanswered(c)' <=> Unanswered(c)
  BY <1>1, <1>3 DEF Unanswered
<1>5. /\ Head(down) = down[1] /\ 1 \in 1..Len(down) /\ down[1] \in Commands
      /\ Len(down) \in Nat
      /\ \A i \in 1..Len(down') : down'[i] = down[i + 1] /\ i + 1 \in 1..Len(down)
  BY <1>1, <1>2, TailAt, ElementOfSeq
<1>6. /\ Len(delayed) \in Nat
      /\ \/ delayed' = delayed
         \/ /\ Len(delayed') = Len(delayed) + 1
            /\ \A i \in 1..Len(delayed') :
                 \/ i \in 1..Len(delayed) /\ delayed'[i] = delayed[i]
                 \/ i = Len(delayed) + 1 /\ delayed'[i] = down[1]
  <2>1. Len(delayed) \in Nat
    BY <1>2, LenProperties
  <2>2. CASE delayed' = delayed
    BY <2>1, <2>2
  <2>3. CASE delayed' = Append(delayed, down[1])
    BY <1>2, <1>5, <2>1, <2>3, AppendAt
  <2>4. QED
    BY <1>1, <1>5, <2>2, <2>3
<1>7. OnceOnTheWay'
  <2>1. /\ \A i \in 1..Len(down') : Unanswered(down[i + 1])
        /\ \A i \in 1..Len(delayed) : Unanswered(delayed[i])
        /\ Unanswered(down[1])
    BY <1>5 DEF OrderInv, OnceOnTheWay
  <2>2. \A i \in 1..Len(down') :
          /\ cmd'[down'[i]].at = "sent"
          /\ \A r \in Reply : Unprocessed(r)' => r.command # down'[i]
    BY <1>1, <1>3, <1>5, <2>1 DEF Unanswered
  <2>3. \A i \in 1..Len(delayed') :
          /\ cmd'[delayed'[i]].at = "sent"
          /\ \A r \in Reply : Unprocessed(r)' => r.command # delayed'[i]
    BY <1>1, <1>3, <1>6, <2>1 DEF Unanswered
  <2>4. \A i, j \in 1..Len(down') : i # j => down'[i] # down'[j]
    BY <1>5 DEF OrderInv, OnceOnTheWay
  <2>5. \A i, j \in 1..Len(delayed') : i # j => delayed'[i] # delayed'[j]
    BY <1>5, <1>6 DEF OrderInv, OnceOnTheWay
  <2>6. \A i \in 1..Len(down'), j \in 1..Len(delayed') : down'[i] # delayed'[j]
    <3>1. \A i \in 1..Len(down') : down[i + 1] # down[1]
      BY <1>5 DEF OrderInv, OnceOnTheWay
    <3>2. QED
      BY <1>5, <1>6, <3>1 DEF OrderInv, OnceOnTheWay
  <2>7. QED
    BY <2>2, <2>3, <2>4, <2>5, <2>6 DEF OnceOnTheWay, Unanswered
<1>8. OneSession' /\ InOrder' /\ RepliesOpen'
  BY <1>1, <1>3 DEF OrderInv, OneSession, InOrder, Earlier, RepliesOpen, Stores
<1>9. LastSeal' /\ StoredIsSealKey'
  BY <1>1, <1>3 DEF OrderInv, LastSeal, StoredIsSealKey
<1>10. QED
  BY <1>7, <1>8, <1>9 DEF OrderInv

\* The lock applies an operation and answers it.
LEMMA OrderApply ==
  ASSUME OrderInv, KeyInv', ApplyLockOperation
  PROVE  OrderInv'
<1>1. PICK c \in Commands, code \in {"0x70", "0x72", "0x73", "0x80", "0x81", "0x83",
                                     "0x86", "0x90", "0x93", "0x97", "0x98"} :
        /\ delayed # << >> /\ c = Head(delayed) /\ delayed' = Tail(delayed)
        /\ code = Code(cmd[c].type, cmd[c].key)
        /\ lock' = Operated(code, cmd[c].key)
        /\ sealer' = IF code = "0x80" THEN c ELSE sealer
        /\ up' = IF open THEN Append(up, [command |-> c, code |-> code]) ELSE up
        /\ UNCHANGED <<stored, writer, cmd, now, down, queue, handler>>
  BY OperationStep DEF OrderInv, KeyInv
<1>2. /\ down \in Seq(Commands) /\ delayed \in Seq(Commands) /\ up \in Seq(Reply)
      /\ TypeOK /\ cmd[c].type \in Types /\ cmd[c].key \in Keys \cup {NoKey}
  BY DEF OrderInv, KeyInv, TypeOK
<1> DEFINE new == [command |-> c, code |-> code]
<1>3. new \in Reply /\ new.command = c /\ new.code = code
  BY DEF Reply
<1> HIDE DEF new
<1>4. /\ c = delayed[1] /\ 1 \in 1..Len(delayed) /\ Len(delayed) \in Nat
      /\ \A i \in 1..Len(delayed') :
           delayed'[i] = delayed[i + 1] /\ i + 1 \in 1..Len(delayed)
  BY <1>1, <1>2, TailAt
<1>5. /\ Len(up) \in Nat
      /\ \/ up' = up
         \/ /\ Len(up') = Len(up) + 1
            /\ \A i \in 1..Len(up') :
                 \/ i \in 1..Len(up) /\ up'[i] = up[i]
                 \/ i = Len(up) + 1 /\ up'[i] = new
  BY <1>1, <1>2, <1>3, AppendAt, LenProperties DEF new
<1>6. Unanswered(c)
  BY <1>4 DEF OrderInv, OnceOnTheWay
<1>7. \A r \in Reply : Unprocessed(r)' => Unprocessed(r) \/ r = new
  BY <1>1, <1>5 DEF Unprocessed
<1>8. /\ \A i \in 1..Len(down) : down[i] # c
      /\ \A i \in 1..Len(delayed') : delayed[i + 1] # c
  BY <1>4 DEF OrderInv, OnceOnTheWay
<1>9. OnceOnTheWay'
  <2>1. /\ \A i \in 1..Len(down) : Unanswered(down[i])
        /\ \A i \in 1..Len(delayed') : Unanswered(delayed[i + 1])
    BY <1>4 DEF OrderInv, OnceOnTheWay
  <2>2. /\ \A i \in 1..Len(down) : Unanswered(down[i])'
        /\ \A i \in 1..Len(delayed') :
             /\ cmd'[delayed[i + 1]].at = "sent"
             /\ \A r \in Reply : Unprocessed(r)' => r.command # delayed[i + 1]
    BY <1>1, <1>3, <1>7, <1>8, <2>1 DEF Unanswered
  <2>3. /\ \A i \in 1..Len(down') : Unanswered(down[i])'
        /\ \A i \in 1..Len(delayed') :
             /\ cmd'[delayed'[i]].at = "sent"
             /\ \A r \in Reply : Unprocessed(r)' => r.command # delayed'[i]
    BY <1>1, <1>4, <2>2
  <2>4. \A i, j \in 1..Len(delayed') : i # j => delayed'[i] # delayed'[j]
    BY <1>4 DEF OrderInv, OnceOnTheWay
  <2>5. \A i \in 1..Len(down'), j \in 1..Len(delayed') : down'[i] # delayed'[j]
    BY <1>1, <1>4 DEF OrderInv, OnceOnTheWay
  <2>6. QED
    BY <1>1, <2>3, <2>4, <2>5 DEF OrderInv, OnceOnTheWay, Unanswered
<1>10. RepliesOpen'
  <2>1. cmd[c].type = "seal" /\ Outcome(code) = "success" => code = "0x80"
    <3>1. ASSUME cmd[c].type = "seal"
          PROVE  code \in {"0x86", "0x83", "0x81", "0x80"}
      <4>1. code = SealCode
        BY <1>1, <3>1 DEF Code
      <4>2. QED
        BY <1>2, <4>1 DEF SealCode, TypeOK
    <3>2. code \in {"0x81", "0x83", "0x86"} => Outcome(code) # "success"
      BY DEF Outcome
    <3>3. QED
      BY <3>1, <3>2
  <2>2. QED
    BY <1>1, <1>3, <1>6, <1>7, <2>1 DEF OrderInv, RepliesOpen, Unanswered, Stores
<1>11. \A r \in Reply : Unprocessed(r) => r.command # c
  BY <1>6 DEF Unanswered
<1> DEFINE Later(r1, r2) == /\ r1.command # r2.command
                            /\ ~ (/\ r1.command = sealer'
                                  /\ r1.code = "0x80" /\ r2.code = "0x80")
<1>12. \A r1, r2 \in Reply :
         Unprocessed(r1) => (Earlier(r1, r2) => Later(r1, r2)) /\ Later(r1, new)
  BY <1>1, <1>3, <1>11 DEF Earlier
<1>13. /\ \A i \in 1..Len(up) : up[i] \in Reply /\ Unprocessed(up[i])
       /\ \A i \in 1..Len(queue[now]) :
            queue[now][i] \in Reply /\ Unprocessed(queue[now][i])
       /\ handler[now] # NoReply =>
            handler[now] \in Reply /\ Unprocessed(handler[now])
  BY <1>2, Members DEF Unprocessed
<1>14. InOrder'
  <2> HIDE DEF Later
  <2>1. /\ \A i, j \in 1..Len(up) : i < j => Later(up[i], up[j])
        /\ \A i, j \in 1..Len(queue[now]) :
             i < j => Later(queue[now][i], queue[now][j])
        /\ \A i \in 1..Len(queue[now]), j \in 1..Len(up) :
             Later(queue[now][i], up[j])
        /\ handler[now] # NoReply =>
             /\ \A i \in 1..Len(queue[now]) : Later(handler[now], queue[now][i])
             /\ \A i \in 1..Len(up) : Later(handler[now], up[i])
    BY <1>12, <1>13 DEF OrderInv, InOrder
  <2>2. /\ \A i \in 1..Len(up) : Later(up[i], new)
        /\ \A i \in 1..Len(queue[now]) : Later(queue[now][i], new)
        /\ handler[now] # NoReply => Later(handler[now], new)
    BY <1>3, <1>12, <1>13
  <2>3. \A i, j \in 1..Len(up') : i < j => Later(up'[i], up'[j])
    BY <1>5, <2>1, <2>2
  <2>4. \A i \in 1..Len(queue[now]), j \in 1..Len(up') : Later(queue[now][i], up'[j])
    BY <1>5, <2>1, <2>2
  <2>5. handler[now] # NoReply => \A i \in 1..Len(up') : Later(handler[now], up'[i])
    BY <1>5, <2>1, <2>2
  <2>6. queue'[now'] = queue[now] /\ handler'[now'] = handler[now]
    BY <1>1
  <2>7. QED
    BY <2>1, <2>3, <2>4, <2>5, <2>6 DEF Later, InOrder, Earlier
<1>15. OneSession'
  BY <1>1 DEF OrderInv, OneSession
<1>16. LastSeal' /\ StoredIsSealKey'
  <2>1. CASE code = "0x80"
    BY <1>1, <1>6, <2>1 DEF LastSeal, StoredIsSealKey, Unanswered
  <2>2. CASE code # "0x80"
    <3>1. lock'.key = lock.key
      BY <1>1, <1>2, <2>2, OperatedFields
    <3>2. QED
      BY <1>1, <1>3, <1>7, <2>2, <3>1 DEF OrderInv, LastSeal, StoredIsSealKey
  <2>3. QED
    BY <2>1, <2>2
<1>17. QED
  BY <1>9, <1>10, <1>14, <1>15, <1>16 DEF OrderInv

\* A step after which there are no other replies and operations than before.
LEMMA OrderFewer ==
  ASSUME OrderInv, KeyInv',
         UNCHANGED <<lock, sealer, stored, writer, delayed>>,
         down' \in {down, << >>},
         \A c \in Commands : Answered(c) =>
           cmd'[c].at = cmd[c].at /\ cmd'[c].type = cmd[c].type,
         \A c \in Commands : cmd'[c].at = "stored" => cmd[c].at = "stored",
         \A r \in Reply : Unprocessed(r)' =>
           /\ Unprocessed(r)
           /\ \/ cmd[r.command].at = "sent"
              \/ /\ handler[now] # NoReply /\ r = handler[now]
                 /\ handler'[now'] = handler[now],
         OneSession', InOrder'
  PROVE  OrderInv'
<1>1. TypeOK /\ SealerAnswered
  BY DEF OrderInv, KeyInv
<1>2. \A r \in Reply : r.command \in Commands
  BY DEF Reply
<1>3. OnceOnTheWay'
  <2>1. \A c \in Commands : Unanswered(c) =>
          /\ cmd'[c].at = "sent"
          /\ \A r \in Reply : Unprocessed(r)' => r.command # c
    BY DEF Unanswered, Answered
  <2>2. /\ \A i \in 1..Len(down) :
             /\ cmd'[down[i]].at = "sent"
             /\ \A r \in Reply : Unprocessed(r)' => r.command # down[i]
        /\ \A i \in 1..Len(delayed) :
             /\ cmd'[delayed[i]].at = "sent"
             /\ \A r \in Reply : Unprocessed(r)' => r.command # delayed[i]
    BY <1>1, <2>1, Members DEF OrderInv, OnceOnTheWay
  <2>3. CASE down' = down
    BY <2>2, <2>3 DEF OrderInv, OnceOnTheWay, Unanswered
  <2>4. CASE down' = << >>
    BY <2>2, <2>4 DEF OrderInv, OnceOnTheWay, Unanswered
  <2>5. QED
    BY <2>3, <2>4
<1>4. RepliesOpen'
  <2>1. ASSUME NEW r \in Reply, Unprocessed(r)'
        PROVE  /\ \/ cmd'[r.command].at = "sent"
                  \/ /\ handler'[now'] # NoReply /\ r = handler'[now']
                     /\ cmd'[r.command].at = "completed"
                     /\ cmd'[r.command].type = "seal" /\ Outcome(r.code) = "success"
               /\ cmd'[r.command].type = "seal" /\ Outcome(r.code) = "success"
                    => r.code = "0x80"
    <3>1. /\ \/ cmd[r.command].at = "sent"
             \/ /\ handler[now] # NoReply /\ r = handler[now]
                /\ cmd[r.command].at = "completed" /\ Stores(r)
          /\ cmd[r.command].type = "seal" /\ Outcome(r.code) = "success"
               => r.code = "0x80"
      BY <2>1 DEF OrderInv, RepliesOpen
    <3>2. /\ cmd'[r.command].at = cmd[r.command].at
          /\ cmd'[r.command].type = cmd[r.command].type
      BY <1>2, <3>1 DEF Answered
    <3>3. QED
      BY <2>1, <3>1, <3>2 DEF Stores
  <2>2. QED
    BY <2>1 DEF RepliesOpen, Stores
<1>5. LastSeal' /\ StoredIsSealKey'
  BY <1>1 DEF OrderInv, LastSeal, StoredIsSealKey, TypeOK
<1>6. QED
  BY <1>3, <1>4, <1>5 DEF OrderInv

\* A reply gets to the platform.
LEMMA OrderOnData ==
  ASSUME OrderInv, KeyInv', OnData
  PROVE  OrderInv'
<1>1. /\ up # << >> /\ up' = Tail(up)
      /\ queue' = [queue EXCEPT ![now] = Append(@, Head(up))]
      /\ UNCHANGED <<lock, sealer, stored, writer, cmd, now, down, delayed, handler>>
  BY DEF OnData, theLock, keyRow
<1>2. /\ TypeOK /\ up \in Seq(Reply) /\ queue[now] \in Seq(Reply)
      /\ queue \in [Sessions -> Seq(Reply)] /\ now \in Sessions
  BY DEF OrderInv, KeyInv, TypeOK
<1>3. /\ Head(up) = up[1] /\ 1 \in 1..Len(up) /\ up[1] \in Reply /\ Len(up) \in Nat
      /\ \A i \in 1..Len(up') : up'[i] = up[i + 1] /\ i + 1 \in 1..Len(up)
  BY <1>1, <1>2, TailAt, ElementOfSeq
<1>4. /\ queue'[now] = Append(queue[now], up[1])
      /\ \A s \in Sessions : s # now => queue'[s] = queue[s]
  BY <1>1, <1>2, <1>3
<1>5. /\ Len(queue[now]) \in Nat /\ Len(queue'[now]) = Len(queue[now]) + 1
      /\ \A i \in 1..Len(queue'[now]) :
           \/ i \in 1..Len(queue[now]) /\ queue'[now][i] = queue[now][i]
           \/ i = Len(queue[now]) + 1 /\ queue'[now][i] = up[1]
  BY <1>2, <1>3, <1>4, AppendAt
<1>6. \A r \in Reply : Unprocessed(r)' => Unprocessed(r)
  BY <1>1, <1>3, <1>5 DEF Unprocessed
<1>7. OneSession'
  BY <1>1, <1>4 DEF OrderInv, OneSession
<1>8. \A r1, r2 : Earlier(r1, r2)' <=> Earlier(r1, r2)
  BY <1>1 DEF Earlier
<1>9. InOrder'
  <2> HIDE DEF Earlier
  <2>1. InOrder
    BY DEF OrderInv
  <2>2. \A i, j \in 1..Len(up') : i < j => Earlier(up'[i], up'[j])
    BY <1>3, <2>1 DEF InOrder
  <2>3. \A i, j \in 1..Len(queue'[now]) :
          i < j => Earlier(queue'[now][i], queue'[now][j])
    BY <1>3, <1>5, <2>1 DEF InOrder
  <2>4. \A i \in 1..Len(queue'[now]), j \in 1..Len(up') :
          Earlier(queue'[now][i], up'[j])
    <3>1. \A j \in 1..Len(up') : Earlier(up[1], up[j + 1])
      BY <1>3, <2>1 DEF InOrder
    <3>2. QED
      BY <1>3, <1>5, <2>1, <3>1 DEF InOrder
  <2>5. handler[now] # NoReply =>
          /\ \A i \in 1..Len(queue'[now]) : Earlier(handler[now], queue'[now][i])
          /\ \A i \in 1..Len(up') : Earlier(handler[now], up'[i])
    BY <1>3, <1>5, <2>1 DEF InOrder
  <2>6. QED
    BY <1>1, <2>2, <2>3, <2>4, <2>5 DEF InOrder, Earlier
<1>10. \A r \in Reply : Unprocessed(r)' =>
         \/ cmd[r.command].at = "sent"
         \/ /\ handler[now] # NoReply /\ r = handler[now]
            /\ handler'[now'] = handler[now]
  BY <1>1, <1>6 DEF OrderInv, RepliesOpen
<1>11. QED
  BY <1>1, <1>6, <1>7, <1>9, <1>10, OrderFewer DEF Answered

\* The handler takes a reply.
LEMMA OrderFindCommand ==
  ASSUME OrderInv, KeyInv', NEW s \in Sessions, FindCommand(s)
  PROVE  OrderInv'
<1>1. /\ handler[s] = NoReply /\ queue[s] # << >>
      /\ queue' = [queue EXCEPT ![s] = Tail(@)]
      /\ handler' = [handler EXCEPT ![s] = Head(queue[s])]
      /\ UNCHANGED <<lock, sealer, stored, writer, cmd, now, down, delayed, up>>
  BY DEF FindCommand, theLock, keyRow, network
<1>2. s = now
  BY <1>1 DEF OrderInv, OneSession
<1>3. /\ TypeOK /\ queue[now] \in Seq(Reply) /\ handler \in [Sessions -> Reply \cup {NoReply}]
      /\ queue \in [Sessions -> Seq(Reply)] /\ now \in Sessions
  BY DEF OrderInv, KeyInv, TypeOK
<1>4. /\ queue'[now] = Tail(queue[now]) /\ handler'[now] = queue[now][1]
      /\ \A t \in Sessions : t # now => queue'[t] = queue[t] /\ handler'[t] = handler[t]
      /\ 1 \in 1..Len(queue[now]) /\ Len(queue[now]) \in Nat
      /\ \A i \in 1..Len(queue'[now]) :
           queue'[now][i] = queue[now][i + 1] /\ i + 1 \in 1..Len(queue[now])
  BY <1>1, <1>2, <1>3, TailAt
<1>5. \A r \in Reply : Unprocessed(r)' => Unprocessed(r)
  BY <1>1, <1>4 DEF Unprocessed
<1>6. OneSession'
  BY <1>1, <1>4 DEF OrderInv, OneSession
<1>7. InOrder'
  <2>1. InOrder
    BY DEF OrderInv
  <2>2. \A i, j \in 1..Len(queue'[now]) :
          i < j => Earlier(queue'[now][i], queue'[now][j])
    BY <1>4, <2>1 DEF InOrder
  <2>3. \A i \in 1..Len(queue'[now]), j \in 1..Len(up) : Earlier(queue'[now][i], up[j])
    BY <1>4, <2>1 DEF InOrder
  <2>4. /\ \A i \in 1..Len(queue'[now]) : Earlier(queue[now][1], queue'[now][i])
        /\ \A i \in 1..Len(up) : Earlier(queue[now][1], up[i])
    BY <1>4, <2>1 DEF InOrder
  <2>5. QED
    BY <1>1, <1>4, <2>1, <2>2, <2>3, <2>4 DEF InOrder, Earlier
<1>8. \A r \in Reply : Unprocessed(r)' => cmd[r.command].at = "sent"
  BY <1>1, <1>2, <1>5 DEF OrderInv, RepliesOpen
<1>9. QED
  BY <1>1, <1>5, <1>6, <1>7, <1>8, OrderFewer DEF Answered

\* The handler is done with its reply, which is in nobody's way any more.
LEMMA AfterHandler ==
  ASSUME OrderInv, NEW s \in Sessions, handler[s] # NoReply,
         handler' = [handler EXCEPT ![s] = NoReply],
         UNCHANGED <<sealer, now, up, queue>>
  PROVE  /\ s = now /\ OneSession' /\ InOrder'
         /\ \A r \in Reply : Unprocessed(r)' =>
              /\ Unprocessed(r) /\ r.command # handler[now].command
              /\ cmd[r.command].at = "sent"
<1>1. /\ TypeOK /\ handler \in [Sessions -> Reply \cup {NoReply}] /\ now \in Sessions
  BY DEF OrderInv, KeyInv, TypeOK
<1>2. s = now
  BY DEF OrderInv, OneSession
<1>3. handler'[now] = NoReply /\ \A t \in Sessions : t # now => handler'[t] = handler[t]
  BY <1>1, <1>2
<1>4. OneSession'
  BY <1>3 DEF OrderInv, OneSession
<1>5. InOrder'
  BY <1>3 DEF OrderInv, InOrder, Earlier
<1>6. \A r \in Reply : Unprocessed(r)' =>
        Unprocessed(r) /\ r.command # handler[now].command
  BY <1>2, <1>3 DEF OrderInv, InOrder, Earlier, Unprocessed
<1>7. QED
  BY <1>2, <1>4, <1>5, <1>6 DEF OrderInv, RepliesOpen

LEMMA OrderHandlerFails ==
  ASSUME OrderInv, KeyInv', NEW s \in Sessions, HandlerFails(s)
  PROVE  OrderInv'
<1>1. /\ handler[s] # NoReply /\ handler' = [handler EXCEPT ![s] = NoReply]
      /\ UNCHANGED <<lock, sealer, stored, writer, cmd, now, down, delayed, up, queue>>
  BY DEF HandlerFails, theLock, keyRow, network
<1>2. QED
  BY <1>1, AfterHandler, OrderFewer DEF Answered

\* The reply being processed: its command, and that it is the only reply to it.
LEMMA HandledReply ==
  ASSUME OrderInv, NEW s \in Sessions, handler[s] # NoReply
  PROVE  /\ s = now /\ handler[s] \in Reply /\ Unprocessed(handler[s])
         /\ handler[s].command \in Commands
         /\ \A i \in 1..Len(down) : down[i] # handler[s].command
         /\ \A i \in 1..Len(delayed) : delayed[i] # handler[s].command
<1>1. /\ TypeOK /\ s = now
  BY DEF OrderInv, KeyInv, OneSession
<1>2. handler[s] \in Reply /\ Unprocessed(handler[s]) /\ handler[s].command \in Commands
  BY <1>1, Members DEF Unprocessed
<1>3. QED
  BY <1>1, <1>2 DEF OrderInv, OnceOnTheWay, Unanswered

\* Another command than those on their way changes stage.
LEMMA OperationsStay ==
  ASSUME OrderInv, NEW c \in Commands, NEW a \in Stages,
         cmd' = [cmd EXCEPT ![c].at = a],
         \A i \in 1..Len(down) : down[i] # c, \A i \in 1..Len(delayed) : delayed[i] # c,
         \A r \in Reply : Unprocessed(r)' => Unprocessed(r),
         UNCHANGED <<down, delayed>>
  PROVE  OnceOnTheWay'
<1>1. TypeOK /\ \A d \in Commands : d # c => cmd'[d].at = cmd[d].at
  BY Moved DEF OrderInv, KeyInv
<1>2. \A d \in Commands : Unanswered(d) /\ d # c =>
        /\ cmd'[d].at = "sent"
        /\ \A r \in Reply : Unprocessed(r)' => r.command # d
  BY <1>1 DEF Unanswered
<1>3. /\ \A i \in 1..Len(down) :
           /\ cmd'[down[i]].at = "sent"
           /\ \A r \in Reply : Unprocessed(r)' => r.command # down[i]
      /\ \A i \in 1..Len(delayed) :
           /\ cmd'[delayed[i]].at = "sent"
           /\ \A r \in Reply : Unprocessed(r)' => r.command # delayed[i]
  BY <1>1, <1>2, Members DEF OrderInv, OnceOnTheWay
<1>4. QED
  BY <1>3 DEF OrderInv, OnceOnTheWay, Unanswered

\* The command is completed.
LEMMA OrderUpdateCommand ==
  ASSUME OrderInv, KeyInv', NEW s \in Sessions, UpdateCommand(s)
  PROVE  OrderInv'
<1> DEFINE h == handler[s]
           c == handler[s].command
<1>1. /\ h # NoReply /\ cmd[c].at \in {"recorded", "sent"}
      /\ cmd' = [cmd EXCEPT ![c].at = "completed"]
      /\ handler' = IF Stores(h) THEN handler ELSE [handler EXCEPT ![s] = NoReply]
      /\ UNCHANGED <<lock, sealer, stored, writer, now, down, delayed, up, queue>>
  BY DEF UpdateCommand, theLock, keyRow, network
<1>2. /\ s = now /\ h \in Reply /\ Unprocessed(h) /\ c \in Commands
      /\ \A i \in 1..Len(down) : down[i] # c
      /\ \A i \in 1..Len(delayed) : delayed[i] # c
  BY <1>1, HandledReply
<1>3. /\ cmd'[c].at = "completed" /\ TypeOK /\ TypeOK' /\ SealerAnswered
      /\ \A d \in Commands : cmd'[d].type = cmd[d].type
      /\ \A d \in Commands : d # c => cmd'[d].at = cmd[d].at
  BY <1>1, <1>2, Moved DEF Stages, OrderInv, KeyInv
<1>4. \A r \in Reply : r.command \in Commands
  BY DEF Reply
<1>5. /\ OneSession' /\ InOrder'
      /\ \A r \in Reply : Unprocessed(r)' =>
           /\ Unprocessed(r)
           /\ r.command = c => r = h /\ Stores(h) /\ handler' = handler
           /\ r.command # c => cmd[r.command].at = "sent"
  <2>1. CASE Stores(h)
    <3>1. handler' = handler
      BY <1>1, <2>1
    <3>2. OneSession' /\ InOrder' /\ \A r : Unprocessed(r)' <=> Unprocessed(r)
      BY <1>1, <3>1 DEF OrderInv, OneSession, InOrder, Earlier, Unprocessed
    <3>3. \A r \in Reply : Unprocessed(r) /\ r # h => r.command # c
      BY <1>1, <1>2 DEF OrderInv, InOrder, Earlier, Unprocessed
    <3>4. QED
      BY <1>2, <2>1, <3>1, <3>2, <3>3 DEF OrderInv, RepliesOpen
  <2>2. CASE ~Stores(h)
    <3>1. handler' = [handler EXCEPT ![s] = NoReply]
      BY <1>1, <2>2
    <3>2. QED
      BY <1>1, <1>2, <3>1, AfterHandler
  <2>3. QED
    BY <2>1, <2>2
<1> HIDE DEF h, c
<1>6. OnceOnTheWay'
  BY <1>1, <1>2, <1>5, OperationsStay DEF Stages
<1>7. RepliesOpen'
  <2>1. ASSUME NEW r \in Reply, Unprocessed(r)'
        PROVE  /\ \/ cmd'[r.command].at = "sent"
                  \/ /\ handler'[now'] # NoReply /\ r = handler'[now']
                     /\ cmd'[r.command].at = "completed"
                     /\ cmd'[r.command].type = "seal" /\ Outcome(r.code) = "success"
               /\ cmd'[r.command].type = "seal" /\ Outcome(r.code) = "success"
                    => r.code = "0x80"
    <3>1. cmd[r.command].type = "seal" /\ Outcome(r.code) = "success"
               => r.code = "0x80"
      BY <1>5, <2>1 DEF OrderInv, RepliesOpen
    <3>2. CASE r.command = c
      <4>1. r = h /\ Stores(h) /\ handler' = handler
        BY <1>5, <2>1, <3>2
      <4>2. QED
        BY <1>1, <1>2, <1>3, <3>1, <3>2, <4>1 DEF Stores, h, c
    <3>3. CASE r.command # c
      BY <1>3, <1>4, <1>5, <2>1, <3>1, <3>3
    <3>4. QED
      BY <3>2, <3>3
  <2>2. QED
    BY <2>1 DEF RepliesOpen, Stores
<1>8. LastSeal' /\ StoredIsSealKey'
  <2>1. ASSUME sealer # NoCommand, cmd'[sealer].at = "stored"
        PROVE  cmd[sealer].at = "stored"
    BY <1>2, <1>3, <2>1 DEF TypeOK
  <2>2. QED
    BY <1>1, <1>5, <2>1 DEF OrderInv, LastSeal, StoredIsSealKey
<1>9. QED
  BY <1>5, <1>6, <1>7, <1>8 DEF OrderInv

\* The key is stored: of the last seal, or nobody says that it is.
LEMMA OrderUpdateDevice ==
  ASSUME OrderInv, KeyInv', NEW s \in Sessions, UpdateDevice(s)
  PROVE  OrderInv'
<1> DEFINE h == handler[s]
           c == handler[s].command
<1>1. /\ h # NoReply /\ cmd[c].at = "completed"
      /\ cmd' = [cmd EXCEPT ![c].at = "stored"]
      /\ stored' = cmd[c].key /\ writer' = c
      /\ handler' = [handler EXCEPT ![s] = NoReply]
      /\ UNCHANGED <<lock, sealer, now, down, delayed, up, queue>>
  BY DEF UpdateDevice, theLock, network
<1>2. /\ s = now /\ h \in Reply /\ Unprocessed(h) /\ c \in Commands
      /\ \A i \in 1..Len(down) : down[i] # c
      /\ \A i \in 1..Len(delayed) : delayed[i] # c
  BY <1>1, HandledReply
<1>3. /\ cmd'[c].at = "stored" /\ TypeOK /\ SealerAnswered
      /\ \A d \in Commands : cmd'[d].type = cmd[d].type
      /\ \A d \in Commands : d # c => cmd'[d].at = cmd[d].at
  BY <1>1, <1>2, Moved DEF Stages, OrderInv, KeyInv
<1>4. \A r \in Reply : r.command \in Commands
  BY DEF Reply
<1>5. h.code = "0x80"
  BY <1>1, <1>2 DEF OrderInv, RepliesOpen, Stores
<1>6. /\ OneSession' /\ InOrder'
      /\ \A r \in Reply : Unprocessed(r)' =>
           Unprocessed(r) /\ r.command # c /\ cmd[r.command].at = "sent"
  BY <1>1, <1>2, AfterHandler
<1>7. c = sealer => \A r \in Reply : Unprocessed(r)' => r.code # "0x80"
  <2>1. ASSUME NEW r \in Reply, Unprocessed(r)', c = sealer PROVE r.code # "0x80"
    <3>1. Unprocessed(r) /\ r # h
      BY <1>6, <2>1
    <3>2. Earlier(h, r)
      BY <1>1, <1>2, <3>1 DEF OrderInv, InOrder, Unprocessed
    <3>3. QED
      BY <1>5, <2>1, <3>2 DEF Earlier
  <2>2. QED
    BY <2>1
<1>8. c # sealer => ~ (sealer # NoCommand /\ cmd[sealer].at = "stored")
  BY <1>2, <1>5 DEF OrderInv, LastSeal
<1> HIDE DEF h, c
<1>9. OnceOnTheWay'
  BY <1>1, <1>2, <1>6, OperationsStay DEF Stages
<1>10. RepliesOpen'
  <2>1. ASSUME NEW r \in Reply, Unprocessed(r)'
        PROVE  /\ cmd'[r.command].at = "sent"
               /\ cmd'[r.command].type = "seal" /\ Outcome(r.code) = "success"
                    => r.code = "0x80"
    BY <1>3, <1>4, <1>6, <2>1 DEF OrderInv, RepliesOpen
  <2>2. QED
    BY <2>1 DEF RepliesOpen, Stores
<1>11. LastSeal'
  <2>1. CASE c = sealer
    BY <1>1, <1>7, <2>1 DEF LastSeal
  <2>2. CASE c # sealer
    BY <1>1, <1>3, <1>8, <2>2 DEF LastSeal, TypeOK
  <2>3. QED
    BY <2>1, <2>2
<1>12. StoredIsSealKey'
  <2>1. CASE c = sealer
    BY <1>1, <1>2, <1>3, <2>1, SealKeyAssumption DEF StoredIsSealKey, SealerAnswered
  <2>2. CASE c # sealer
    BY <1>1, <1>3, <1>8, <2>2 DEF StoredIsSealKey, TypeOK
  <2>3. QED
    BY <2>1, <2>2
<1>13. QED
  BY <1>6, <1>9, <1>10, <1>11, <1>12 DEF OrderInv

\* The connection goes, or the platform with all that it had received.
LEMMA OrderDisconnected ==
  ASSUME OrderInv, KeyInv', Disconnect \/ Restart
  PROVE  OrderInv'
<1>0. now \in Sessions
  BY DEF OrderInv, KeyInv, TypeOK
<1>1. CASE Disconnect
  <2>1. /\ up' = << >> /\ down' = << >>
        /\ UNCHANGED <<lock, sealer, stored, writer, cmd, now, delayed, queue, handler>>
    BY <1>1 DEF Disconnect, Disconnected, theLock, keyRow, platform
  <2>2. OneSession' /\ InOrder'
    BY <2>1 DEF OrderInv, OneSession, InOrder, Earlier
  <2>3. \A r \in Reply : Unprocessed(r)' => Unprocessed(r)
    BY <2>1 DEF Unprocessed
  <2>4. \A r \in Reply : Unprocessed(r)' =>
          \/ cmd[r.command].at = "sent"
          \/ /\ handler[now] # NoReply /\ r = handler[now]
             /\ handler'[now'] = handler[now]
    BY <2>1, <2>3 DEF OrderInv, RepliesOpen
  <2>5. QED
    BY <2>1, <2>2, <2>3, <2>4, OrderFewer DEF Answered
<1>2. CASE Restart
  <2>1. /\ Disconnected /\ UNCHANGED <<theLock, keyRow, now, delayed>>
        /\ queue' = [s \in Sessions |-> << >>] /\ handler' = [s \in Sessions |-> NoReply]
    BY <1>2, Zenon DEF Restart
  <2>2. \A r \in Reply : ~Unprocessed(r)'
    BY <1>0, <2>1 DEF Unprocessed, Disconnected
  <2>3. OneSession' /\ InOrder'
    BY <1>0, <2>1 DEF OneSession, InOrder, Disconnected
  <2>4. \A c \in Commands : Answered(c) =>
          cmd'[c].at = cmd[c].at /\ cmd'[c].type = cmd[c].type
    BY <1>2, RestartMoves DEF OrderInv, KeyInv, Answered
  <2>5. \A c \in Commands : cmd'[c].at = "stored" => cmd[c].at = "stored"
    BY <1>2, RestartMoves DEF OrderInv, KeyInv
  <2>6. QED
    BY <2>1, <2>2, <2>3, <2>4, <2>5, OrderFewer DEF Disconnected, theLock, keyRow
<1>3. QED
  BY <1>1, <1>2

\* The device is back, and with ~Overlap its last replies have been processed.
LEMMA OrderConnect ==
  ASSUME OrderInv, KeyInv', ~Overlap, Connect
  PROVE  OrderInv'
<1>1. /\ \A s \in Sessions : queue[s] = << >> /\ handler[s] = NoReply
      /\ UNCHANGED <<lock, sealer, stored, writer, cmd, delayed, down, up, queue, handler>>
  BY DEF Connect, theLock, keyRow, platform
<1>2. now \in Sessions /\ now' \in Sessions
  BY DEF OrderInv, KeyInv, TypeOK
<1>3. OneSession' /\ InOrder'
  BY <1>1, <1>2 DEF OrderInv, OneSession, InOrder, Earlier
<1>4. \A r \in Reply : Unprocessed(r)' => Unprocessed(r) /\ cmd[r.command].at = "sent"
  BY <1>1, <1>2 DEF OrderInv, RepliesOpen, Unprocessed
<1>5. QED
  BY <1>1, <1>3, <1>4, OrderFewer DEF Answered

LEMMA OrderStep == OrderInv /\ ~Overlap /\ [Next]_vars => OrderInv'
<1> SUFFICES ASSUME OrderInv, ~Overlap, [Next]_vars PROVE OrderInv'
  OBVIOUS
<1>0. KeyInv /\ TypeOK /\ SealerAnswered /\ KeyInv'
  BY KeyStep DEF OrderInv, KeyInv
<1>1. ASSUME NEW c \in Commands, ReadDevice(c) PROVE OrderInv'
  <2>1. /\ cmd[c].at = "idle"
        /\ UNCHANGED <<lock, sealer, stored, writer, now, down, delayed, up, queue,
                       handler>>
        /\ \A d \in Commands : d # c => cmd'[d] = cmd[d]
    BY <1>0, <1>1 DEF ReadDevice, theLock, keyRow, network, platform, TypeOK
  <2>2. \A d \in Commands : Answered(d) => cmd'[d] = cmd[d]
    BY <2>1 DEF Answered
  <2>3. StoredIsSealKey'
    BY <1>0, <2>1, <2>2 DEF OrderInv, StoredIsSealKey, SealerAnswered, TypeOK
  <2>4. QED
    BY <1>0, <2>1, <2>2, <2>3, OrderFrame
<1>2. ASSUME NEW c \in Commands, InsertCommand(c) \/ InsertFails(c) PROVE OrderInv'
  <2>1. /\ cmd[c].at = "read"
        /\ \E a \in Stages : cmd' = [cmd EXCEPT ![c].at = a]
        /\ UNCHANGED <<lock, sealer, stored, writer, now, down, delayed, up, queue,
                       handler>>
    BY <1>2 DEF InsertCommand, InsertFails, Stages, theLock, keyRow, network, platform
  <2>2. \A d \in Commands : Answered(d) =>
          cmd'[d].at = cmd[d].at /\ cmd'[d].type = cmd[d].type
    BY <1>0, <2>1, Moved DEF Answered
  <2>3. StoredIsSealKey'
    BY <1>0, <2>1, <2>2 DEF OrderInv, StoredIsSealKey, SealerAnswered, TypeOK
  <2>4. QED
    BY <1>0, <2>1, <2>2, <2>3, OrderFrame
<1>3. ASSUME NEW c \in Commands, Send(c) PROVE OrderInv'
  BY <1>0, <1>3, OrderSend
<1>4. CASE DeviceReceives
  BY <1>0, <1>4, OrderDeviceReceives
<1>5. CASE ApplyLockOperation
  BY <1>0, <1>5, OrderApply
<1>6. CASE Local
  <2>1. /\ UNCHANGED <<sealer, cmd, now, down, delayed, up, queue, handler>>
        /\ lock'.key = lock.key /\ writer' \in {writer, NoCommand}
        /\ stored' # stored => writer' = NoCommand
    BY <1>0, <1>6, LocalStep
  <2>2. StoredIsSealKey'
    BY <2>1 DEF OrderInv, StoredIsSealKey
  <2>3. QED
    BY <1>0, <2>1, <2>2, OrderFrame
<1>7. CASE OnData
  BY <1>0, <1>7, OrderOnData
<1>8. ASSUME NEW s \in Sessions, Handler(s) PROVE OrderInv'
  BY <1>0, <1>8, OrderFindCommand, OrderUpdateCommand, OrderUpdateDevice,
     OrderHandlerFails DEF Handler
<1>9. CASE Disconnect \/ Restart
  BY <1>0, <1>9, OrderDisconnected
<1>10. CASE Connect
  BY <1>0, <1>10, OrderConnect
<1>11. CASE UNCHANGED vars
  <2>1. UNCHANGED <<lock, sealer, stored, writer, cmd, now, down, delayed, up, queue,
                    handler>>
    BY <1>11 DEF vars, theLock, keyRow, network, platform
  <2>2. StoredIsSealKey'
    BY <2>1 DEF OrderInv, StoredIsSealKey
  <2>3. QED
    BY <1>0, <2>1, <2>2, OrderFrame
<1>12. QED
  BY <1>1, <1>2, <1>3, <1>4, <1>5, <1>6, <1>7, <1>8, <1>9, <1>10, <1>11 DEF Next

\* Once the reply to the last seal has been processed, the key that the device
\* row holds opens the lock, unless someone has set it by hand: provided that
\* the last replies of a connection are processed before the device is back.
THEOREM StoredKeyOpensTheLock ==
  ASSUME ~Overlap
  PROVE  Spec => []StoredIsSealKey
<1>1. OrderInv /\ [Next]_vars => OrderInv'
  BY OrderStep
<1>2. OrderInv => StoredIsSealKey
  BY DEF OrderInv
<1>3. QED
  BY OrderInit, <1>1, <1>2, PTL DEF Spec

=============================================================================
