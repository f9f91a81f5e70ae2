------------------------ MODULE CommandServiceProofs ------------------------
(***************************************************************************)
(* Theorems about CommandService, for every value of its constants.        *)
(*                                                                         *)
(* Part 1: any device and either store.  Part 2: a device that echoes the  *)
(* business serial.  Part 3: the in-memory store.                          *)
(***************************************************************************)
EXTENDS CommandService, TLAPS

-----------------------------------------------------------------------------
(* Lemmas about the operators and types *)

\* A business serial is never 0, the serial of spontaneous uplinks.
LEMMA SerialNotZero ==
  ASSUME NEW n \in Serials
  PROVE  NextBusinessSerial(n) \in Serials \ {0}
BY CommandAssumption DEF NextBusinessSerial, Serials

LEMMA ZeroIsSerial == 0 \in Serials
BY CommandAssumption DEF Serials

LEMMA NoFrameType == NoFrame \in Frame
<1>1. (CHOOSE t \in Types : TRUE) \in Types
  BY CommandAssumption
<1>2. QED BY <1>1, ZeroIsSerial DEF NoFrame, Frame, CommandOrNone

LEMMA AtRestType == AtRest \in Handlers /\ AtRest.at \notin WithCommand
BY NoFrameType DEF AtRest, Handlers, Places, CommandOrNone, WithCommand

LEMMA TailType ==
  ASSUME NEW S, NEW q \in Seq(S), q # << >>
  PROVE  Tail(q) \in Seq(S) /\ Head(q) \in S
OBVIOUS

LEMMA PrefixType ==
  ASSUME NEW S, NEW q \in Seq(S), NEW n \in 0..Len(q)
  PROVE  SubSeq(q, 1, n) \in Seq(S)
OBVIOUS

LEMMA RowType ==
  ASSUME NEW s \in {"none"} \cup OPEN \cup FINAL, NEW o \in Outcomes
  PROVE  [status |-> s, outcome |-> o] \in Row
BY DEF Row

\* The serial that execute draws.
LEMMA DrawnType ==
  ASSUME TypeOK, NEW c \in Commands, Execute(c)
  PROVE  bizSerial' \in Serials \ {0}
<1>1. PICK start \in StartSerials :
        bizSerial' = NextBusinessSerial(IF bizSerial = NoSerial THEN start
                                        ELSE bizSerial)
  BY DEF Execute
<1>2. (IF bizSerial = NoSerial THEN start ELSE bizSerial) \in Serials
  BY CommandAssumption DEF Serials, TypeOK
<1>3. QED BY <1>1, <1>2, SerialNotZero

-----------------------------------------------------------------------------
(* Type correctness, one lemma per kind of step *)

LEMMA InitType == Init => TypeOK
<1> SUFFICES ASSUME Init PROVE TypeOK
  OBVIOUS
<1> USE DEF Init
<1>1. used \in Usage
  BY DEF Usage
<1>2. /\ handler \in [Sessions -> Handlers]
      /\ \A s \in Sessions : handler[s].at \notin WithCommand
  BY AtRestType
<1>3. rows \in [Commands -> Row]
  BY DEF NoRow, Row, Outcomes
<1>4. /\ down \in [Sessions -> Seq(Commands)] /\ up \in [Sessions -> Seq(Frame)]
      /\ inserted \in Seq(Commands) /\ written \in Seq(Commands)
  OBVIOUS
<1>5. QED
  BY <1>1, <1>2, <1>3, <1>4, ZeroIsSerial
     DEF TypeOK, CommandOrNone, Labels, Resting, LockStates

LEMMA GotoType ==
  ASSUME pc \in [Commands -> Labels], NEW c \in Commands, NEW l \in Labels,
         Goto(c, l)
  PROVE  pc' \in [Commands -> Labels]
BY DEF Goto

LEMMA StatusType ==
  ASSUME rows \in [Commands -> Row], NEW c \in Commands,
         NEW s \in {"none"} \cup OPEN \cup FINAL, NEW o \in Outcomes,
         SetStatus(c, s, o)
  PROVE  rows' \in [Commands -> Row]
BY RowType DEF SetStatus

LEMMA FinishType ==
  ASSUME TypeOK, NEW c \in Commands, FinishEntry(c) \/ FinishRow(c)
  PROVE  /\ pending' \in [Serials -> CommandOrNone]
         /\ timer' \in [Commands -> {"off", "armed", "updating", "updated"}]
         /\ pc' \in [Commands -> Labels]
<1> USE DEF TypeOK, FinishEntry, FinishRow
<1>1. pending' \in [Serials -> CommandOrNone]
  BY DEF Removed, CommandOrNone
<1>2. timer' \in [Commands -> {"off", "armed", "updating", "updated"}]
  BY DEF Cleared
<1>3. "answered" \in Labels
  BY DEF Labels, Resting
<1>4. pc' \in [Commands -> Labels]
  BY <1>3 DEF Resolved
<1>5. QED BY <1>1, <1>2, <1>4

\* A step of execute or waitFor.
LEMMA CallType ==
  ASSUME TypeOK, NEW c \in Commands, CallStep(c)
  PROVE  TypeOK'
<1> USE DEF TypeOK, calls, entries, store, wire
<1> {"refusing", "inserting", "inserted", "failing", "logging", "marking",
     "noting", "marked", "waiting", "returned", "answered", "failed"}
      \subseteq Labels
  BY DEF Labels, Executing, Resting
<1> /\ {"send_failed", "pending", "sent"} \subseteq {"none"} \cup OPEN \cup FINAL
    /\ {"none", "failure"} \subseteq Outcomes
  BY DEF OPEN, FINAL, Outcomes
<1>1. CASE Refuse(c)
  BY <1>1, GotoType DEF Refuse
<1>2. CASE Execute(c)
  BY <1>2, DrawnType, GotoType DEF Execute
<1>3. CASE RefusalInserted(c)
  BY <1>3, GotoType, StatusType DEF RefusalInserted, Record
<1>4. CASE CommandInserted(c)
  BY <1>4, GotoType, StatusType DEF CommandInserted, Record
<1>5. CASE Register(c)
  <2>1. pc' \in [Commands -> Labels]
    BY <1>5, GotoType DEF Register
  <2>2. pending' \in [Serials -> CommandOrNone]
    BY <1>5 DEF Register, Removed, CommandOrNone
  <2>3. timer' \in [Commands -> {"off", "armed", "updating", "updated"}]
    BY <1>5 DEF Register, Armed
  <2>4. written' \in Seq(Commands) /\ down' \in [Sessions -> Seq(Commands)]
    <3>1. CASE link[target[c]] = "up"
      <4>1. /\ written' = Append(written, c)
            /\ down' = [down EXCEPT ![target[c]] = Append(@, c)]
        BY <1>5, <3>1 DEF Register
      <4>2. \A q \in Seq(Commands) : Append(q, c) \in Seq(Commands)
        OBVIOUS
      <4>3. QED BY <4>1, <4>2
    <3>2. CASE link[target[c]] # "up"
      BY <1>5, <3>2 DEF Register
    <3>3. QED BY <3>1, <3>2
  <2>5. UNCHANGED <<target, serial, bizSerial, acked, handler, store, link,
                    current, up, lock, used>>
    BY <1>5 DEF Register
  <2>6. QED BY <2>1, <2>2, <2>3, <2>4, <2>5
<1>6. CASE Failed(c)
  BY <1>6, GotoType, StatusType DEF Failed
<1>7. CASE Logged(c)
  BY <1>7, GotoType DEF Logged, AfterLog
<1>8. CASE Marked(c)
  BY <1>8, GotoType, StatusType DEF Marked, Row
<1>9. CASE Noted(c)
  BY <1>9, GotoType DEF Noted
<1>10. CASE Return(c)
  BY <1>10, GotoType DEF Return
<1>11. CASE WaitExpires(c)
  BY <1>11, GotoType DEF WaitExpires
<1>12. QED
  BY <1>1, <1>2, <1>3, <1>4, <1>5, <1>6, <1>7, <1>8, <1>9, <1>10, <1>11
     DEF CallStep, Running

\* A step of onTimeout.
LEMMA TimerType ==
  ASSUME TypeOK, NEW c \in Commands, TimerStep(c)
  PROVE  TypeOK'
<1> USE DEF TypeOK, calls, entries, store, wire
<1> "timeout" \in {"none"} \cup OPEN \cup FINAL /\ "timeout" \in Outcomes
    /\ "answered" \in Labels
  BY DEF FINAL, Outcomes, Labels, Resting
<1>1. CASE TimerFires(c)
  BY <1>1 DEF TimerFires
<1>2. CASE TimeoutApplied(c)
  BY <1>2, StatusType DEF TimeoutApplied
<1>3. CASE TimeoutFinishes(c)
  BY <1>3 DEF TimeoutFinishes, Removed, Resolved, CommandOrNone
<1>4. QED BY <1>1, <1>2, <1>3 DEF TimerStep

LEMMA TakeType ==
  ASSUME TypeOK, NEW s \in Sessions, up[s] # << >>, Take(s)
  PROVE  up' \in [Sessions -> Seq(Frame)] /\ Head(up[s]) \in Frame
<1>1. up[s] \in Seq(Frame)
  BY DEF TypeOK
<1>2. Tail(up[s]) \in Seq(Frame) /\ Head(up[s]) \in Frame
  BY <1>1, TailType
<1>3. QED BY <1>2 DEF Take, TypeOK

\* What the typing of a handler step needs of the handler's next value.
LEMMA HandlerType ==
  ASSUME TypeOK, NEW s \in Sessions, NEW h \in Handlers,
         h.at \in WithCommand => h.cmd # NoCommand,
         handler' = [handler EXCEPT ![s] = h]
  PROVE  /\ handler' \in [Sessions -> Handlers]
         /\ \A t \in Sessions :
              handler'[t].at \in WithCommand => handler'[t].cmd # NoCommand
BY DEF TypeOK

\* A step of the handler of a session.
\* The bounds are used up by one at a time, and late replies counted.
LEMMA UsedType ==
  ASSUME used \in Usage,
         \/ used' = [used EXCEPT !.keypad = @ + 1]
         \/ used' = [used EXCEPT !.retransmit = @ + 1]
         \/ used' = [used EXCEPT !.disconnect = @ + 1]
         \/ used' = [used EXCEPT !.restart = @ + 1]
         \/ used' = [used EXCEPT !.failure = @ + 1]
         \/ used' = [used EXCEPT !.day = @ + 1]
         \/ used' = [used EXCEPT !.late = @ + 1]
  PROVE  used' \in Usage
<1>1. /\ used.keypad + 1 \in Nat /\ used.retransmit + 1 \in Nat
      /\ used.disconnect + 1 \in Nat /\ used.restart + 1 \in Nat
      /\ used.failure + 1 \in Nat /\ used.day + 1 \in Nat
      /\ used.late + 1 \in Nat
  BY DEF Usage
<1>2. QED BY <1>1 DEF Usage

LEMMA FrameType ==
  ASSUME TypeOK, NEW s \in Sessions, FrameStep(s)
  PROVE  TypeOK'
<1> DEFINE h == handler[s]
           HOK == /\ handler' \in [Sessions -> Handlers]
                  /\ \A t \in Sessions :
                       handler'[t].at \in WithCommand
                         => handler'[t].cmd # NoCommand
<1> USE DEF calls, entries, store, wire
<1>h. h \in Handlers /\ (h.at \in WithCommand => h.cmd # NoCommand)
  BY DEF TypeOK
<1>r. handler' = [handler EXCEPT ![s] = AtRest] => HOK
  BY AtRestType, HandlerType
<1>1. CASE ReceiveAck(s)
  <2> DEFINE f == Head(up[s])
             c == AckEntry(s, f)
  <2>1. up' \in [Sessions -> Seq(Frame)] /\ f \in Frame
    BY <1>1, TakeType DEF ReceiveAck, NextIs
  <2>2. c \in CommandOrNone
    BY <2>1 DEF AckEntry, Frame, CommandOrNone
  <2>3. acked' \in [Commands -> BOOLEAN]
    BY <1>1 DEF ReceiveAck, TypeOK
  <2>4. HOK
    <3>1. CASE c = NoCommand
      BY <1>1, <3>1 DEF ReceiveAck, TypeOK
    <3>2. CASE c # NoCommand
      <4> DEFINE n == [at |-> "acking", frame |-> f, cmd |-> c, entry |-> TRUE]
      <4>1. n \in Handlers /\ n.cmd # NoCommand
        BY <2>1, <2>2, <3>2 DEF Handlers, Places
      <4>2. handler' = [handler EXCEPT ![s] = n]
        BY <1>1, <3>2 DEF ReceiveAck
      <4>3. QED BY <4>1, <4>2, HandlerType
    <3>3. QED BY <3>1, <3>2
  <2>5. UNCHANGED <<calls, pending, timer, store, link, current, down, lock, used>>
    BY <1>1 DEF ReceiveAck
  <2>6. QED BY <2>1, <2>3, <2>4, <2>5 DEF TypeOK
<1>2. CASE AckApplied(s)
  <2>1. h.cmd \in Commands
    BY <1>2, <1>h DEF AckApplied, WithCommand, Handlers, CommandOrNone
  <2>2. AckRow(h.cmd, h.frame.ok) \in Row
    <3>1. rows[h.cmd] \in Row
      BY <2>1 DEF TypeOK
    <3>2. [rows[h.cmd] EXCEPT !.status = "acknowledged"] \in Row
      BY <3>1 DEF Row, OPEN
    <3>3. [status |-> "rejected", outcome |-> "failure"] \in Row
      BY RowType DEF FINAL, Outcomes
    <3>4. QED BY <3>2, <3>3 DEF AckRow
  <2>3. rows' \in [Commands -> Row]
    BY <1>2, <2>2 DEF AckApplied, TypeOK
  <2>4. HOK
    <3>1. CASE h.frame.ok
      BY <1>2, <1>r, <3>1 DEF AckApplied
    <3>2. CASE ~h.frame.ok
      <4>1. handler' = [handler EXCEPT ![s] = [h EXCEPT !.at = "rejected"]]
        BY <1>2, <3>2 DEF AckApplied
      <4>2. [h EXCEPT !.at = "rejected"] \in Handlers
        BY <1>h DEF Handlers, Places
      <4>3. h.cmd # NoCommand
        BY <1>2, <1>h DEF AckApplied, WithCommand
      <4>4. [h EXCEPT !.at = "rejected"].cmd = h.cmd
        BY <1>h DEF Handlers
      <4>5. QED BY <4>1, <4>2, <4>3, <4>4, HandlerType
    <3>3. QED BY <3>1, <3>2
  <2>5. UNCHANGED <<calls, entries, inserted, old, currentKey, credit, wire, lock, used>>
    BY <1>2 DEF AckApplied
  <2>6. QED BY <2>3, <2>4, <2>5 DEF TypeOK
<1>3. CASE RejectionFinishes(s)
  <2>1. h.cmd \in Commands
    BY <1>3, <1>h DEF RejectionFinishes, WithCommand, Handlers, CommandOrNone
  <2>2. HOK
    BY <1>3, <1>r DEF RejectionFinishes
  <2>3. QED BY <1>3, <2>1, <2>2, FinishType DEF RejectionFinishes, TypeOK
<1>4. CASE ReceiveReply(s)
  <2> DEFINE n == [AtRest EXCEPT !.at = "replying", !.frame = Head(up[s])]
  <2>1. up' \in [Sessions -> Seq(Frame)] /\ Head(up[s]) \in Frame
    BY <1>4, TakeType DEF ReceiveReply, NextIs
  <2>2. n \in Handlers /\ n.at \notin WithCommand
    BY <2>1 DEF AtRest, Handlers, Places, WithCommand, CommandOrNone
  <2>3. HOK
    <3>1. CASE link[s] = "up"
      <4>1. handler' = [handler EXCEPT ![s] = n]
        BY <1>4, <3>1 DEF ReceiveReply
      <4>2. QED BY <4>1, <2>2, HandlerType
    <3>2. CASE link[s] # "up"
      BY <1>4, <3>2 DEF ReceiveReply, TypeOK
    <3>3. QED BY <3>1, <3>2
  <2>4. UNCHANGED <<calls, entries, store, link, current, down, lock, used>>
    BY <1>4 DEF ReceiveReply
  <2>5. QED BY <2>1, <2>3, <2>4 DEF TypeOK
<1>5. CASE Correlate(s)
  <2> DEFINE n == h.frame.serial
             found == [h EXCEPT !.at = "correlated", !.cmd = pending[n],
                                !.entry = TRUE]
             finding == [h EXCEPT !.at = "finding"]
  <2>1. n \in Serials /\ pending[n] \in CommandOrNone
    BY <1>h DEF Handlers, Frame, TypeOK
  <2>2. \/ pending[n] # NoCommand /\ handler' = [handler EXCEPT ![s] = found]
        \/ handler' = [handler EXCEPT ![s] = finding]
    BY <1>5 DEF Correlate
  <2>3. found \in Handlers /\ found.cmd = pending[n]
    BY <1>h, <2>1 DEF Handlers, Places
  <2>4. finding \in Handlers /\ finding.at \notin WithCommand
    BY <1>h DEF Handlers, Places, WithCommand
  <2>5. HOK BY <2>2, <2>3, <2>4, HandlerType
  <2>6. QED BY <1>5, <2>5 DEF Correlate, TypeOK
<1>6. CASE LateFound(s)
  <2>1. PICK c \in CommandOrNone :
          handler' = [handler EXCEPT ![s] = [h EXCEPT !.at = "found", !.cmd = c]]
    <3>1. CASE handler' = [handler EXCEPT ![s].at = "found"]
      <4>1. handler' = [handler EXCEPT ![s] =
                          [h EXCEPT !.at = "found", !.cmd = h.cmd]]
        BY <3>1, <1>h DEF Handlers
      <4>2. QED BY <4>1, <1>h DEF Handlers
    <3>2. CASE \E c \in Commands :
                 handler' = [handler EXCEPT ![s].at = "found", ![s].cmd = c]
      BY <3>2 DEF CommandOrNone
    <3>3. QED
      BY <1>6, <3>1, <3>2
         DEF LateFound, FindCommandByBusinessSerial, Matching
  <2> DEFINE n == [h EXCEPT !.at = "found", !.cmd = c]
  <2>2. n \in Handlers /\ n.at \notin WithCommand
    BY <1>h DEF Handlers, Places, WithCommand
  <2>3. HOK BY <2>1, <2>2, HandlerType
  <2>4. used' \in Usage
    BY <1>6, UsedType DEF LateFound, TypeOK
  <2>5. QED BY <1>6, <2>3, <2>4 DEF LateFound, TypeOK
<1>7. CASE FallBack(s)
  <2>1. \/ h.cmd # NoCommand
           /\ handler' = [handler EXCEPT ![s] = [h EXCEPT !.at = "correlated"]]
        \/ \E c \in Commands :
             handler' = [handler EXCEPT ![s] =
               [h EXCEPT !.at = "correlated", !.cmd = c, !.entry = TRUE]]
        \/ handler' = [handler EXCEPT ![s] = AtRest]
    BY <1>7 DEF FallBack, OldestPending
  <2>2. HOK
    <3>1. CASE h.cmd # NoCommand
               /\ handler' = [handler EXCEPT ![s] = [h EXCEPT !.at = "correlated"]]
      <4>1. [h EXCEPT !.at = "correlated"] \in Handlers
            /\ [h EXCEPT !.at = "correlated"].cmd = h.cmd
        BY <1>h DEF Handlers, Places
      <4>2. QED BY <3>1, <4>1, HandlerType
    <3>2. ASSUME NEW c \in Commands,
                 handler' = [handler EXCEPT ![s] =
                   [h EXCEPT !.at = "correlated", !.cmd = c, !.entry = TRUE]]
          PROVE  HOK
      <4>1. [h EXCEPT !.at = "correlated", !.cmd = c, !.entry = TRUE] \in Handlers
            /\ [h EXCEPT !.at = "correlated", !.cmd = c, !.entry = TRUE].cmd = c
        BY <1>h DEF Handlers, Places, CommandOrNone
      <4>2. c # NoCommand
        BY CommandAssumption
      <4>3. QED BY <3>2, <4>1, <4>2, HandlerType
    <3>3. QED BY <2>1, <3>1, <3>2, <1>r
  <2>3. QED BY <1>7, <2>2 DEF FallBack, TypeOK
<1>8. CASE ReplyApplied(s)
  <2>1. h.cmd \in Commands
    BY <1>8, <1>h DEF ReplyApplied, WithCommand, Handlers, CommandOrNone
  <2>2. /\ ReplyOutcome(h.cmd, h.frame) \in Outcomes
        /\ "completed" \in {"none"} \cup OPEN \cup FINAL
    BY DEF ReplyOutcome, Outcomes, FINAL
  <2>3. rows' \in [Commands -> Row]
    BY <1>8, <2>1, <2>2, StatusType DEF ReplyApplied, TypeOK
  <2>4. credit' \in [Commands -> CommandOrNone]
    BY <1>8, <1>h DEF ReplyApplied, TypeOK, Handlers, Frame
  <2>5. PICK at \in {"completed", "finishing"} :
          handler' = [handler EXCEPT ![s] = [h EXCEPT !.at = at]]
    BY <1>8 DEF ReplyApplied
  <2>6. /\ [h EXCEPT !.at = at] \in Handlers
        /\ [h EXCEPT !.at = at].cmd = h.cmd /\ h.cmd # NoCommand
    BY <1>h, <2>1, CommandAssumption DEF Handlers, Places
  <2>7. HOK BY <2>5, <2>6, HandlerType
  <2>8. QED BY <1>8, <2>3, <2>4, <2>7 DEF ReplyApplied, TypeOK
<1>9. CASE FollowUpApplied(s)
  <2>1. h.cmd # NoCommand
    BY <1>9, <1>h DEF FollowUpApplied, WithCommand
  <2>2. currentKey' \in CommandOrNone
    BY <1>9, <1>h DEF FollowUpApplied, TypeOK, Handlers
  <2>3. handler' = [handler EXCEPT ![s] = [h EXCEPT !.at = "finishing"]]
    BY <1>9 DEF FollowUpApplied
  <2>4. /\ [h EXCEPT !.at = "finishing"] \in Handlers
        /\ [h EXCEPT !.at = "finishing"].cmd = h.cmd
    BY <1>h DEF Handlers, Places
  <2>5. HOK BY <2>1, <2>3, <2>4, HandlerType
  <2>6. QED BY <1>9, <2>2, <2>5 DEF FollowUpApplied, TypeOK
<1>10. CASE ReplyFinishes(s)
  <2>1. h.cmd \in Commands
    BY <1>10, <1>h DEF ReplyFinishes, WithCommand, Handlers, CommandOrNone
  <2>2. HOK
    BY <1>10, <1>r DEF ReplyFinishes
  <2>3. QED BY <1>10, <2>1, <2>2, FinishType DEF ReplyFinishes, TypeOK
<1>11. QED
  BY <1>1, <1>2, <1>3, <1>4, <1>5, <1>6, <1>7, <1>8, <1>9, <1>10 DEF FrameStep


\* The frames that a closing session leaves behind.
LEMMA CutType ==
  ASSUME TypeOK, NEW s \in Sessions, Cut(s)
  PROVE  up' \in [Sessions -> Seq(Frame)]
<1>1. PICK n \in 0..Len(up[s]) : up' = [up EXCEPT ![s] = SubSeq(@, 1, n)]
  BY DEF Cut
<1>2. up[s] \in Seq(Frame)
  BY DEF TypeOK
<1>3. SubSeq(up[s], 1, n) \in Seq(Frame)
  BY <1>2, PrefixType
<1>4. QED BY <1>1, <1>3 DEF TypeOK

\* A connection comes or goes.
LEMMA ConnectionType ==
  ASSUME TypeOK, Disconnect \/ \E s \in Sessions : Connect(s)
  PROVE  TypeOK'
<1> USE DEF calls, entries, store
<1>1. ASSUME NEW s \in Sessions, Connect(s) PROVE TypeOK'
  <2>1. up' \in [Sessions -> Seq(Frame)]
    <3>1. CASE current = NoSession
      BY <1>1, <3>1 DEF Connect, TypeOK
    <3>2. CASE current # NoSession
      <4>1. current \in Sessions /\ Cut(current)
        BY <1>1, <3>2 DEF Connect, TypeOK
      <4>2. QED BY <4>1, CutType
    <3>3. QED BY <3>1, <3>2
  <2>2. link' \in [Sessions -> {"new", "up", "down"}]
    <3>1. \/ link' = [link EXCEPT ![s] = "up"]
          \/ link' = [link EXCEPT ![s] = "up", ![current] = "down"]
      BY <1>1 DEF Connect
    <3>2. QED BY <3>1 DEF TypeOK
  <2>3. QED BY <1>1, <2>1, <2>2 DEF Connect, TypeOK
<1>2. CASE Disconnect
  <2>1. current \in Sessions /\ Cut(current)
    BY <1>2 DEF Disconnect, TypeOK
  <2>2. up' \in [Sessions -> Seq(Frame)]
    BY <2>1, CutType
  <2>3. used' \in Usage
    BY <1>2, UsedType DEF Disconnect, TypeOK
  <2>4. link' \in [Sessions -> {"new", "up", "down"}]
    BY <1>2 DEF Disconnect, TypeOK
  <2>5. QED BY <1>2, <2>2, <2>3, <2>4 DEF Disconnect, TypeOK
<1>3. QED BY <1>1, <1>2

LEMMA RestartType ==
  ASSUME TypeOK, Restart
  PROVE  TypeOK'
<1>1. rows' \in [Commands -> Row]
  <2>1. ASSUME NEW c \in Commands PROVE Recovered(c) \in Row
    <3>1. rows[c] \in Row
      BY DEF TypeOK
    <3>2. rows[c].outcome \in Outcomes
      BY <3>1 DEF Row
    <3>3. /\ (IF rows[c].outcome = "none" THEN "timeout" ELSE rows[c].outcome)
               \in Outcomes
          /\ "timeout" \in {"none"} \cup OPEN \cup FINAL
      BY <3>2 DEF Outcomes, FINAL
    <3>4. QED BY <3>1, <3>3, RowType DEF Recovered
  <2>2. QED BY <2>1 DEF Restart
<1>2. pc' \in [Commands -> Labels]
  <2>1. "gone" \in Labels
    BY DEF Labels, Resting
  <2>2. QED BY <2>1 DEF Restart, TypeOK
<1>3. /\ pending' \in [Serials -> CommandOrNone]
      /\ timer' \in [Commands -> {"off", "armed", "updating", "updated"}]
      /\ bizSerial' \in Serials \cup {NoSerial}
      /\ link' \in [Sessions -> {"new", "up", "down"}]
      /\ current' \in Sessions \cup {NoSession}
  BY DEF Restart, TypeOK, CommandOrNone
<1>4. up' \in [Sessions -> Seq(Frame)]
  BY DEF Restart
<1>5. /\ handler' \in [Sessions -> Handlers]
      /\ \A s \in Sessions : handler'[s].at \in WithCommand
                               => handler'[s].cmd # NoCommand
  BY AtRestType DEF Restart
<1>6. used' \in Usage
  BY UsedType DEF Restart, TypeOK
<1>7. UNCHANGED <<target, serial, written, acked, inserted, old, currentKey,
                  credit, down, lock>>
  BY DEF Restart
<1>8. QED BY <1>1, <1>2, <1>3, <1>4, <1>5, <1>6, <1>7 DEF TypeOK

LEMMA StoreFailsType ==
  ASSUME TypeOK, StoreFails
  PROVE  TypeOK'
<1>1. used' \in Usage
  BY UsedType DEF StoreFails, TypeOK
<1>2. /\ pc' \in [Commands -> Labels]
      /\ timer' \in [Commands -> {"off", "armed", "updating", "updated"}]
      /\ up' \in [Sessions -> Seq(Frame)]
      /\ handler' \in [Sessions -> Handlers]
      /\ \A s \in Sessions : handler'[s].at \in WithCommand
                               => handler'[s].cmd # NoCommand
  <2>1. CASE \E c \in Commands : /\ Goto(c, "failed")
                                 /\ UNCHANGED <<timer, handler, up>>
    <3>1. "failed" \in Labels
      BY DEF Labels, Resting
    <3>2. QED BY <2>1, <3>1, GotoType DEF TypeOK
  <2>2. CASE \E c \in Commands : /\ timer' = [timer EXCEPT ![c] = "off"]
                                 /\ UNCHANGED <<pc, handler, up>>
    BY <2>2 DEF TypeOK
  <2>3. CASE \E s \in Sessions : /\ handler' = [handler EXCEPT ![s] = AtRest]
                                 /\ UNCHANGED <<pc, timer, up>>
    BY <2>3, AtRestType, HandlerType DEF TypeOK
  <2>4. CASE \E s \in Sessions : /\ up[s] # << >> /\ Take(s)
                                 /\ UNCHANGED <<pc, timer, handler>>
    BY <2>4, TakeType DEF TypeOK
  <2>5. QED BY <2>1, <2>2, <2>3, <2>4 DEF StoreFails
<1>3. UNCHANGED <<target, serial, bizSerial, written, pending, acked, store,
                  link, current, down, lock>>
  BY DEF StoreFails
<1>4. QED BY <1>1, <1>2, <1>3 DEF TypeOK, store

\* Rows grow old, and nothing else happens.
LEMMA DayFrame ==
  ASSUME DayPasses
  PROVE  /\ UNCHANGED <<calls, entries, rows, inserted, currentKey, credit, handler,
                        wire, lock>>
         /\ used' = [used EXCEPT !.day = @ + 1]
BY DEF DayPasses

LEMMA DayType ==
  ASSUME TypeOK, DayPasses
  PROVE  TypeOK'
<1>1. used' \in Usage
  BY DayFrame, UsedType DEF TypeOK
<1>2. old' \subseteq Commands
  <2>1. \A i \in DOMAIN inserted : inserted[i] \in Commands
    BY DEF TypeOK
  <2>2. \A n \in DOMAIN inserted : 1..n \subseteq DOMAIN inserted
    BY DEF TypeOK
  <2>3. QED BY <2>1, <2>2 DEF DayPasses, TypeOK
<1>3. QED BY <1>1, <1>2, DayFrame DEF TypeOK, calls, entries, wire

LEMMA DeliverType ==
  ASSUME TypeOK, NEW s, NEW f \in Frame, Deliver(s, f)
  PROVE  up' \in [Sessions -> Seq(Frame)]
<1>1. \A q \in Seq(Frame) : Append(q, f) \in Seq(Frame)
  OBVIOUS
<1>2. QED BY <1>1 DEF Deliver, TypeOK

LEMMA ReplyType ==
  ASSUME TypeOK, NEW c \in Commands, NEW ok \in BOOLEAN
  PROVE  Reply(c, ok) \in Frame
<1>1. (IF EchoSerial THEN serial[c] ELSE 0) \in Serials /\ TypeOf[c] \in Types
  BY CommandAssumption, ZeroIsSerial DEF TypeOK
<1>2. QED BY <1>1 DEF Reply, Frame, CommandOrNone

LEMMA DeviceType ==
  ASSUME TypeOK, Device
  PROVE  TypeOK'
<1> USE DEF calls, entries, store
<1> {"accepted", "refused", "succeeded", "failed"} \subseteq LockStates
  BY DEF LockStates
<1>1. ASSUME NEW s \in Sessions, DeviceReceives(s) PROVE TypeOK'
  <2> DEFINE c == Head(down[s])
  <2>1. Tail(down[s]) \in Seq(Commands) /\ c \in Commands
    BY <1>1, TailType DEF DeviceReceives, TypeOK
  <2>2. PICK ok \in AckResults :
          /\ lock' = [lock EXCEPT ![c] = IF ok THEN "accepted" ELSE "refused"]
          /\ IF link[s] = "up"
             THEN Deliver(s, [NoFrame EXCEPT !.of = c, !.ok = ok])
             ELSE UNCHANGED up
    BY <1>1 DEF DeviceReceives
  <2>3. [NoFrame EXCEPT !.of = c, !.ok = ok] \in Frame
    BY <2>1, NoFrameType, CommandAssumption DEF Frame, CommandOrNone
  <2>4. up' \in [Sessions -> Seq(Frame)]
    BY <2>2, <2>3, DeliverType DEF TypeOK
  <2>5. lock' \in [Commands -> LockStates]
    BY <2>2 DEF TypeOK
  <2>6. down' \in [Sessions -> Seq(Commands)]
    BY <1>1, <2>1 DEF DeviceReceives, TypeOK
  <2>7. QED BY <1>1, <2>4, <2>5, <2>6 DEF DeviceReceives, TypeOK
<1>2. ASSUME NEW c \in Commands, DeviceOperates(c) PROVE TypeOK'
  <2>1. PICK ok \in LockResults :
          /\ lock' = [lock EXCEPT ![c] = IF ok THEN "succeeded" ELSE "failed"]
          /\ IF current # NoSession THEN Deliver(current, Reply(c, ok))
             ELSE UNCHANGED up
    BY <1>2 DEF DeviceOperates
  <2>2. Reply(c, ok) \in Frame
    BY ReplyType, CommandAssumption
  <2>3. up' \in [Sessions -> Seq(Frame)]
    BY <2>1, <2>2, DeliverType DEF TypeOK
  <2>4. lock' \in [Commands -> LockStates]
    BY <2>1 DEF TypeOK
  <2>5. QED BY <1>2, <2>3, <2>4 DEF DeviceOperates, TypeOK
<1>3. ASSUME NEW c \in Commands, DeviceRetransmits(c) PROVE TypeOK'
  <2>1. Reply(c, lock[c] = "succeeded") \in Frame
    BY ReplyType
  <2>2. up' \in [Sessions -> Seq(Frame)]
    BY <1>3, <2>1, DeliverType DEF DeviceRetransmits
  <2>3. used' \in Usage
    BY <1>3, UsedType DEF DeviceRetransmits, TypeOK
  <2>4. QED BY <1>3, <2>2, <2>3 DEF DeviceRetransmits, TypeOK
<1>4. CASE Keypad
  <2>1. PICK t \in Types :
          Deliver(current, [kind |-> "reply", of |-> NoCommand, serial |-> 0,
                            source |-> "keypad", type |-> t, ok |-> TRUE])
    BY <1>4 DEF Keypad
  <2>2. [kind |-> "reply", of |-> NoCommand, serial |-> 0,
         source |-> "keypad", type |-> t, ok |-> TRUE] \in Frame
    BY ZeroIsSerial DEF Frame, CommandOrNone
  <2>3. up' \in [Sessions -> Seq(Frame)]
    BY <2>1, <2>2, DeliverType
  <2>4. used' \in Usage
    BY <1>4, UsedType DEF Keypad, TypeOK
  <2>5. QED BY <1>4, <2>3, <2>4 DEF Keypad, TypeOK
<1>5. QED BY <1>1, <1>2, <1>3, <1>4 DEF Device

LEMMA StutterType ==
  ASSUME TypeOK, UNCHANGED vars
  PROVE  TypeOK'
BY DEF TypeOK, vars, calls, entries, store, wire

\* In every state of every behaviour the server's and the device's variables
\* have their types, and a handler that is about to update a row (from
\* onTerminalAck or onOperationReply) has found a command to update.
THEOREM TypeCorrect == Spec => []TypeOK
<1>1. TypeOK /\ [Next]_vars => TypeOK'
  BY CallType, TimerType, FrameType, ConnectionType, RestartType,
     StoreFailsType, DeviceType, DayType, StutterType DEF Next
<1>2. QED BY <1>1, InitType, PTL DEF Spec

-----------------------------------------------------------------------------
(***************************************************************************)
(* The inductive invariant CallInv relates the call of execute, the map    *)
(* `pending` and the frames; three safety theorems follow from it.         *)
(***************************************************************************)
(* The inductive invariant *)

\* An entry is filed under its command's serial, which is never 0.  A call
\* that has not begun has no entry, and one that is about to file an entry
\* has a serial.
PendingOK ==
  /\ \A n \in Serials : pending[n] # NoCommand =>
       n = serial[pending[n]] /\ n # 0 /\ pc[pending[n]] # "idle"
  /\ \A c \in Commands : pc[c] \in {"inserting", "inserted"} => serial[c] # 0

\* A reply to no command has serial 0 and comes from the keypad.
ReplyOK(f) ==
  f.kind = "reply" /\ f.of = NoCommand => f.serial = 0 /\ f.source = "keypad"

FramesOK == \A s \in Sessions : \A i \in DOMAIN up[s] : ReplyOK(up[s][i])

\* What a handler of an operation reply knows at each of its steps.
HandlerOK(h) ==
  /\ h.at \notin {"idle", "acking", "rejected"} =>
       h.frame.kind = "reply" /\ ReplyOK(h.frame)
  /\ h.at \in {"replying", "finding"} => h.cmd = NoCommand
  /\ h.at = "found" /\ h.frame.of = NoCommand => h.cmd = NoCommand
  /\ h.at = "correlated" => h.frame.of # NoCommand

HandlersOK == \A s \in Sessions : HandlerOK(handler[s])

\* A completed row was completed by a command's own operation.
CreditOK == KeypadNeverCompletes

\* A call that may still file an entry or report send_failed has not written
\* a frame.  One that has inserted its row has a row.
NotWritten == {"idle", "refusing", "inserting", "inserted", "failing"}
WrittenOK ==
  /\ \A i \in DOMAIN written : pc[written[i]] \notin NotWritten
  /\ \A c \in Commands : pc[c] = "inserted" =>
       rows[c].status \notin {"none", "send_failed"}

CallInv == /\ TypeOK /\ PendingOK /\ FramesOK /\ HandlersOK /\ CreditOK
           /\ WrittenOK /\ SendFailedNeverSent /\ PendingHasTimer

-----------------------------------------------------------------------------
(* What the kinds of steps leave alone *)

LEMMA CallFrame ==
  ASSUME NEW c \in Commands, CallStep(c)
  PROVE  UNCHANGED <<up, handler, credit, used>>
<1> USE DEF entries, store, wire
<1>1. CASE Refuse(c)
  BY <1>1 DEF Refuse
<1>2. CASE Execute(c)
  BY <1>2 DEF Execute
<1>3. CASE RefusalInserted(c) \/ CommandInserted(c)
  BY <1>3 DEF RefusalInserted, CommandInserted, Record
<1>4. CASE Register(c)
  BY <1>4 DEF Register
<1>5. CASE Failed(c) \/ Logged(c) \/ Marked(c)
  BY <1>5 DEF Failed, Logged, Marked
<1>6. CASE Noted(c) \/ Return(c) \/ WaitExpires(c)
  BY <1>6 DEF Noted, Return, WaitExpires
<1>7. QED
  BY <1>1, <1>2, <1>3, <1>4, <1>5, <1>6 DEF CallStep, Running

LEMMA TimerFrame ==
  ASSUME NEW c \in Commands, TimerStep(c)
  PROVE  UNCHANGED <<up, handler, credit, used, serial, written>>
BY DEF TimerStep, TimerFires, TimeoutApplied, TimeoutFinishes, calls, store,
       wire

LEMMA FrameFrame ==
  ASSUME NEW s \in Sessions, FrameStep(s)
  PROVE  /\ UNCHANGED <<serial, written>>
         /\ used' = used \/ used' = [used EXCEPT !.late = @ + 1]
<1> USE DEF calls
<1>1. CASE ReceiveAck(s) \/ AckApplied(s) \/ RejectionFinishes(s)
  BY <1>1 DEF ReceiveAck, AckApplied, RejectionFinishes
<1>2. CASE ReceiveReply(s) \/ Correlate(s) \/ LateFound(s) \/ FallBack(s)
  BY <1>2 DEF ReceiveReply, Correlate, LateFound, FallBack
<1>3. CASE ReplyApplied(s) \/ FollowUpApplied(s) \/ ReplyFinishes(s)
  BY <1>3 DEF ReplyApplied, FollowUpApplied, ReplyFinishes
<1>4. QED BY <1>1, <1>2, <1>3 DEF FrameStep

LEMMA ConnectionFrame ==
  ASSUME Disconnect \/ \E s \in Sessions : Connect(s)
  PROVE  UNCHANGED <<calls, entries, handler, store>>
BY DEF Disconnect, Connect

LEMMA DeviceFrame ==
  ASSUME Device
  PROVE  UNCHANGED <<calls, entries, handler, store>>
BY DEF Device, DeviceReceives, DeviceOperates, DeviceRetransmits, Keypad

LEMMA FailureFrame ==
  ASSUME TypeOK, Device \/ Disconnect \/ \E s \in Sessions : Connect(s)
  PROVE  used'.failure = used.failure
BY DEF Device, DeviceReceives, DeviceOperates, DeviceRetransmits, Keypad,
       Disconnect, Connect, TypeOK, Usage

-----------------------------------------------------------------------------
(* The frames in transit *)

\* Frames of a queue that were there before, wherever they stood.
LEMMA FramesKept ==
  ASSUME FramesOK, \A s \in Sessions : \A i \in DOMAIN up'[s] :
                     \E j \in DOMAIN up[s] : up'[s][i] = up[s][j]
  PROVE  FramesOK'
BY DEF FramesOK, ReplyOK

LEMMA TakeFrames ==
  ASSUME TypeOK, FramesOK, NEW s \in Sessions, up[s] # << >>, Take(s)
  PROVE  FramesOK' /\ ReplyOK(Head(up[s]))
<1>1. up[s] \in Seq(Frame)
  BY DEF TypeOK
<1>2. \A i \in DOMAIN Tail(up[s]) :
        i + 1 \in DOMAIN up[s] /\ Tail(up[s])[i] = up[s][i + 1]
  BY <1>1
<1>3. \A t \in Sessions : \A i \in DOMAIN up'[t] :
        \E j \in DOMAIN up[t] : up'[t][i] = up[t][j]
  BY <1>2 DEF Take, TypeOK
<1>4. 1 \in DOMAIN up[s] /\ Head(up[s]) = up[s][1]
  BY <1>1
<1>5. ReplyOK(Head(up[s]))
  BY <1>4 DEF FramesOK
<1>6. QED BY <1>3, <1>5, FramesKept

LEMMA CutFrames ==
  ASSUME TypeOK, FramesOK, NEW s \in Sessions, Cut(s)
  PROVE  FramesOK'
<1>1. PICK n \in 0..Len(up[s]) : up' = [up EXCEPT ![s] = SubSeq(@, 1, n)]
  BY DEF Cut
<1>2. up[s] \in Seq(Frame)
  BY DEF TypeOK
<1>3. \A i \in DOMAIN SubSeq(up[s], 1, n) :
        i \in DOMAIN up[s] /\ SubSeq(up[s], 1, n)[i] = up[s][i]
  BY <1>2
<1>4. \A t \in Sessions : \A i \in DOMAIN up'[t] :
        \E j \in DOMAIN up[t] : up'[t][i] = up[t][j]
  BY <1>1, <1>3 DEF TypeOK
<1>5. QED BY <1>4, FramesKept

LEMMA DeliverFrames ==
  ASSUME TypeOK, FramesOK, NEW s \in Sessions, NEW f \in Frame, ReplyOK(f),
         Deliver(s, f)
  PROVE  FramesOK'
<1>1. up[s] \in Seq(Frame)
  BY DEF TypeOK
<1>2. \A i \in DOMAIN Append(up[s], f) :
        \/ i \in DOMAIN up[s] /\ Append(up[s], f)[i] = up[s][i]
        \/ Append(up[s], f)[i] = f
  BY <1>1
<1>3. \A t \in Sessions : \A i \in DOMAIN up'[t] : ReplyOK(up'[t][i])
  BY <1>2 DEF FramesOK, Deliver, TypeOK
<1>4. QED BY <1>3 DEF FramesOK, ReplyOK

-----------------------------------------------------------------------------
(* The entries: PendingOK *)

\* Entries only leave, and no call comes near filing one.
LEMMA PendingKept ==
  ASSUME TypeOK, PendingOK, serial' = serial,
         \A n \in Serials : pending'[n] \in {pending[n], NoCommand},
         \A c \in Commands : \/ pc'[c] = pc[c]
                             \/ pc'[c] \notin {"idle", "inserting", "inserted"}
  PROVE  PendingOK'
<1>1. \A n \in Serials : pending[n] # NoCommand => pending[n] \in Commands
  BY DEF TypeOK, CommandOrNone
<1>2. QED BY <1>1 DEF PendingOK

\* finish, whoever calls it, takes an entry out or leaves it.
LEMMA FinishPending ==
  ASSUME TypeOK, NEW c \in Commands, FinishEntry(c) \/ FinishRow(c)
  PROVE  /\ \A n \in Serials : pending'[n] \in {pending[n], NoCommand}
         /\ \A d \in Commands : pc'[d] = pc[d] \/ pc'[d] = "answered"
BY DEF FinishEntry, FinishRow, Removed, Resolved, TypeOK

LEMMA CallPending ==
  ASSUME TypeOK, PendingOK, NEW c \in Commands, CallStep(c)
  PROVE  PendingOK'
<1> USE DEF calls, entries
<1>0. \A l : Goto(c, l) => \A d \in Commands :
               pc'[d] = IF d = c THEN l ELSE pc[d]
  BY DEF Goto, TypeOK
<1>1. CASE Execute(c)
  <2>1. serial' = [serial EXCEPT ![c] = bizSerial'] /\ bizSerial' # 0
    BY <1>1, DrawnType DEF Execute
  <2>2. \A n \in Serials : pending[n] # c
    BY <1>1, CommandAssumption DEF Execute, PendingOK
  <2>3. pending' = pending /\ Goto(c, "inserting")
    BY <1>1 DEF Execute
  <2>4. \A n \in Serials : pending[n] # NoCommand => pending[n] \in Commands
    BY DEF TypeOK, CommandOrNone
  <2>5. QED BY <1>0, <2>1, <2>2, <2>3, <2>4 DEF PendingOK, TypeOK
<1>2. CASE CommandInserted(c)
  <2>1. /\ pc[c] = "inserting" /\ Goto(c, "inserted")
        /\ pending' = pending /\ serial' = serial
    BY <1>2 DEF CommandInserted, Record
  <2>2. \A n \in Serials : pending[n] # NoCommand => pending[n] \in Commands
    BY DEF TypeOK, CommandOrNone
  <2>3. QED BY <1>0, <2>1, <2>2 DEF PendingOK
<1>3. CASE Register(c)
  <2>1. pc[c] = "inserted" /\ serial[c] # 0 /\ serial' = serial
    BY <1>3 DEF Register, PendingOK
  <2>2. serial[c] \in Serials /\ c # NoCommand
    BY CommandAssumption DEF TypeOK
  <2>3. \A n \in Serials : \/ pending'[n] \in {pending[n], NoCommand}
                           \/ n = serial[c] /\ pending'[n] = c
    BY <1>3, <2>2 DEF Register, Removed, TypeOK
  <2>4. PICK l \in {"logging", "failing"} : Goto(c, l)
    BY <1>3 DEF Register
  <2>5. \A n \in Serials : pending[n] # NoCommand => pending[n] \in Commands
    BY DEF TypeOK, CommandOrNone
  <2>6. QED BY <1>0, <2>1, <2>2, <2>3, <2>4, <2>5 DEF PendingOK
<1>4. CASE ~(Execute(c) \/ CommandInserted(c) \/ Register(c))
  <2>1. serial' = serial /\ pending' = pending
    BY <1>4 DEF CallStep, Running, Refuse, RefusalInserted, Record, Failed,
                Logged, Marked, Noted, Return, WaitExpires
  <2>2. PICK l : Goto(c, l) /\ l \notin {"idle", "inserting", "inserted"}
    BY <1>4 DEF CallStep, Running, Refuse, RefusalInserted, Record, Failed,
                Logged, AfterLog, Marked, Noted, Return, WaitExpires
  <2>3. QED BY <1>0, <2>1, <2>2, PendingKept
<1>5. QED BY <1>1, <1>2, <1>3, <1>4

LEMMA TimerPending ==
  ASSUME TypeOK, PendingOK, NEW c \in Commands, TimerStep(c)
  PROVE  PendingOK'
<1>1. /\ \A n \in Serials : pending'[n] \in {pending[n], NoCommand}
      /\ \A d \in Commands : pc'[d] = pc[d] \/ pc'[d] = "answered"
  BY DEF TimerStep, TimerFires, TimeoutApplied, TimeoutFinishes, Removed,
         Resolved, TypeOK, calls
<1>2. QED BY <1>1, TimerFrame, PendingKept

LEMMA FramePending ==
  ASSUME TypeOK, PendingOK, NEW s \in Sessions, FrameStep(s)
  PROVE  PendingOK'
<1>1. CASE RejectionFinishes(s) \/ ReplyFinishes(s)
  <2> DEFINE c == handler[s].cmd
  <2>1. c \in Commands /\ (FinishEntry(c) \/ FinishRow(c))
    BY <1>1 DEF RejectionFinishes, ReplyFinishes, TypeOK, WithCommand, Handlers,
                CommandOrNone
  <2>2. QED BY <2>1, FinishPending, FrameFrame, PendingKept
<1>2. CASE ReceiveAck(s) \/ AckApplied(s) \/ ReceiveReply(s) \/ Correlate(s)
  BY <1>2 DEF ReceiveAck, AckApplied, ReceiveReply, Correlate, calls, entries,
              PendingOK
<1>3. CASE LateFound(s) \/ FallBack(s) \/ ReplyApplied(s) \/ FollowUpApplied(s)
  BY <1>3 DEF LateFound, FallBack, ReplyApplied, FollowUpApplied, calls,
              entries, PendingOK
<1>4. QED BY <1>1, <1>2, <1>3 DEF FrameStep

LEMMA OtherPending ==
  ASSUME TypeOK, PendingOK,
         \/ Disconnect \/ Device \/ Restart \/ StoreFails
         \/ \E s \in Sessions : Connect(s)
  PROVE  PendingOK'
<1>1. CASE Disconnect \/ Device \/ \E s \in Sessions : Connect(s)
  <2>1. UNCHANGED <<pending, serial, pc>>
    BY <1>1, ConnectionFrame, DeviceFrame DEF calls, entries
  <2>2. QED BY <2>1 DEF PendingOK
<1>2. CASE Restart
  <2>1. \A c \in Commands : pc'[c] \notin {"inserting", "inserted"}
    BY <1>2 DEF Restart, Executing
  <2>2. \A n \in Serials : pending'[n] = NoCommand
    BY <1>2 DEF Restart
  <2>3. QED BY <2>1, <2>2 DEF PendingOK
<1>3. CASE StoreFails
  <2>1. pending' = pending /\ serial' = serial
    BY <1>3 DEF StoreFails
  <2>2. \A c \in Commands : pc'[c] = pc[c] \/ pc'[c] = "failed"
    BY <1>3 DEF StoreFails, Goto, TypeOK
  <2>3. QED BY <2>1, <2>2, PendingKept
<1>4. QED BY <1>1, <1>2, <1>3

-----------------------------------------------------------------------------
(* Frames and their handlers: FramesOK, HandlersOK, CreditOK *)

LEMMA AtRestOK == HandlerOK(AtRest)
BY DEF HandlerOK, AtRest, NoFrame

LEMMA HandlerKept ==
  ASSUME TypeOK, HandlersOK, NEW s \in Sessions, NEW h, HandlerOK(h),
         handler' = [handler EXCEPT ![s] = h]
  PROVE  HandlersOK'
<1>1. \A t \in Sessions : handler'[t] = IF t = s THEN h ELSE handler[t]
  BY DEF TypeOK
<1>2. \A t \in Sessions : HandlerOK(handler'[t])
  BY <1>1 DEF HandlersOK
<1>3. QED BY <1>2 DEF HandlersOK, HandlerOK, ReplyOK

LEMMA FrameFrames ==
  ASSUME TypeOK, FramesOK, NEW s \in Sessions, FrameStep(s)
  PROVE  FramesOK'
<1>1. CASE ReceiveAck(s) \/ ReceiveReply(s)
  BY <1>1, TakeFrames DEF ReceiveAck, ReceiveReply, NextIs
<1>2. CASE AckApplied(s) \/ RejectionFinishes(s) \/ Correlate(s) \/ LateFound(s)
  BY <1>2 DEF AckApplied, RejectionFinishes, Correlate, LateFound, FramesOK,
              wire
<1>3. CASE FallBack(s) \/ ReplyApplied(s) \/ FollowUpApplied(s)
           \/ ReplyFinishes(s)
  BY <1>3 DEF FallBack, ReplyApplied, FollowUpApplied, ReplyFinishes, FramesOK,
              wire
<1>4. QED BY <1>1, <1>2, <1>3 DEF FrameStep

LEMMA FrameHandlers ==
  ASSUME TypeOK, PendingOK, FramesOK, HandlersOK, NEW s \in Sessions,
         FrameStep(s)
  PROVE  HandlersOK'
<1> DEFINE h == handler[s]
<1>h. h \in Handlers /\ HandlerOK(h)
  BY DEF TypeOK, HandlersOK
<1>r. handler' = [handler EXCEPT ![s] = AtRest] => HandlersOK'
  BY AtRestOK, HandlerKept
<1>u. handler' = handler => HandlersOK'
  BY DEF HandlersOK
<1>1. CASE ReceiveAck(s)
  <2> DEFINE n(c) == [at |-> "acking", frame |-> Head(up[s]), cmd |-> c,
                      entry |-> TRUE]
  <2>1. \A c : HandlerOK(n(c))
    BY DEF HandlerOK
  <2>2. handler' = handler \/ \E c : handler' = [handler EXCEPT ![s] = n(c)]
    BY <1>1 DEF ReceiveAck
  <2>3. QED BY <2>1, <2>2, <1>u, HandlerKept
<1>2. CASE AckApplied(s)
  <2> DEFINE n == [h EXCEPT !.at = "rejected"]
  <2>1. \/ handler' = [handler EXCEPT ![s] = AtRest]
        \/ handler' = [handler EXCEPT ![s] = n]
    BY <1>2 DEF AckApplied
  <2>2. HandlerOK(n)
    BY <1>h DEF HandlerOK, Handlers
  <2>3. QED BY <2>1, <2>2, <1>r, HandlerKept
<1>3. CASE RejectionFinishes(s) \/ ReplyFinishes(s)
  BY <1>3, <1>r DEF RejectionFinishes, ReplyFinishes
<1>4. CASE ReceiveReply(s)
  <2> DEFINE n == [AtRest EXCEPT !.at = "replying", !.frame = Head(up[s])]
  <2>1. Head(up[s]).kind = "reply" /\ ReplyOK(Head(up[s]))
    BY <1>4, TakeFrames DEF ReceiveReply, NextIs
  <2>2. HandlerOK(n)
    BY <2>1 DEF HandlerOK, AtRest
  <2>3. handler' = handler \/ handler' = [handler EXCEPT ![s] = n]
    BY <1>4 DEF ReceiveReply
  <2>4. QED BY <2>2, <2>3, <1>u, HandlerKept
<1>5. CASE Correlate(s)
  <2> DEFINE n == h.frame.serial
             found == [h EXCEPT !.at = "correlated", !.cmd = pending[n],
                                !.entry = TRUE]
             finding == [h EXCEPT !.at = "finding"]
  <2>1. h.at = "replying" /\ n \in Serials
    BY <1>5, <1>h DEF Correlate, Handlers, Frame
  <2>2. HandlerOK(finding)
    BY <1>h, <2>1 DEF HandlerOK, Handlers
  <2>3. pending[n] # NoCommand => h.frame.of # NoCommand
    BY <1>h, <2>1 DEF HandlerOK, ReplyOK, PendingOK
  <2>4. pending[n] # NoCommand => HandlerOK(found)
    BY <1>h, <2>1, <2>3 DEF HandlerOK, Handlers
  <2>5. \/ pending[n] # NoCommand /\ handler' = [handler EXCEPT ![s] = found]
        \/ handler' = [handler EXCEPT ![s] = finding]
    BY <1>5 DEF Correlate
  <2>6. QED BY <2>2, <2>4, <2>5, HandlerKept
<1>6. CASE LateFound(s)
  <2> DEFINE n(c) == [h EXCEPT !.at = "found", !.cmd = c]
             found == [h EXCEPT !.at = "found"]
  <2>1. h.at = "finding"
    BY <1>6 DEF LateFound
  <2>2. HandlerOK(found)
    BY <1>h, <2>1 DEF HandlerOK, Handlers
  <2>3. h.frame.serial # 0 => \A c : HandlerOK(n(c))
    BY <1>h, <2>1 DEF HandlerOK, ReplyOK, Handlers
  <2>4. \/ handler' = [handler EXCEPT ![s] = found]
        \/ h.frame.serial # 0 /\ \E c : handler' = [handler EXCEPT ![s] = n(c)]
    BY <1>6 DEF LateFound
  <2>5. QED BY <2>2, <2>3, <2>4, HandlerKept
<1>7. CASE FallBack(s)
  <2> DEFINE late == [h EXCEPT !.at = "correlated"]
             n(c) == [h EXCEPT !.at = "correlated", !.cmd = c, !.entry = TRUE]
  <2>1. h.at = "found"
    BY <1>7 DEF FallBack
  <2>2. h.cmd # NoCommand => HandlerOK(late)
    BY <1>h, <2>1 DEF HandlerOK, Handlers
  <2>3. h.frame.source = "platform" => \A c : HandlerOK(n(c))
    BY <1>h, <2>1 DEF HandlerOK, ReplyOK, Handlers
  <2>4. \/ h.cmd # NoCommand /\ handler' = [handler EXCEPT ![s] = late]
        \/ /\ h.frame.source = "platform"
           /\ \E c : handler' = [handler EXCEPT ![s] = n(c)]
        \/ handler' = [handler EXCEPT ![s] = AtRest]
    BY <1>7 DEF FallBack, MayFallBack
  <2>5. QED BY <2>2, <2>3, <2>4, <1>r, HandlerKept
<1>8. CASE ReplyApplied(s) \/ FollowUpApplied(s)
  <2> DEFINE n(at) == [h EXCEPT !.at = at]
  <2>1. h.at \in {"correlated", "completed"}
    BY <1>8 DEF ReplyApplied, FollowUpApplied
  <2>2. \E at \in {"completed", "finishing"} :
          handler' = [handler EXCEPT ![s] = n(at)]
    BY <1>8 DEF ReplyApplied, FollowUpApplied
  <2>3. \A at \in {"completed", "finishing"} : HandlerOK(n(at))
    BY <1>h, <2>1 DEF HandlerOK, Handlers
  <2>4. QED BY <2>2, <2>3, HandlerKept
<1>9. QED
  BY <1>1, <1>2, <1>3, <1>4, <1>5, <1>6, <1>7, <1>8 DEF FrameStep

LEMMA OtherFrames ==
  ASSUME TypeOK, FramesOK, HandlersOK,
         \/ Disconnect \/ Device \/ Restart \/ StoreFails
         \/ \E s \in Sessions : Connect(s)
  PROVE  FramesOK' /\ HandlersOK'
<1>1. CASE Disconnect \/ Device \/ \E s \in Sessions : Connect(s)
  <2>1. HandlersOK'
    BY <1>1, ConnectionFrame, DeviceFrame DEF HandlersOK
  <2>2. CASE Disconnect
    <3>1. current \in Sessions /\ Cut(current)
      BY <2>2 DEF Disconnect, TypeOK
    <3>2. QED BY <3>1, <2>1, CutFrames
  <2>3. ASSUME NEW s \in Sessions, Connect(s) PROVE FramesOK'
    <3>1. up' = up \/ (current \in Sessions /\ Cut(current))
      BY <2>3 DEF Connect, TypeOK
    <3>2. up' = up => FramesOK'
      BY DEF FramesOK
    <3>3. QED BY <3>1, <3>2, CutFrames
  <2>4. CASE Device
    <3>1. up' = up \/ \E s \in Sessions : \E f \in Frame :
                        ReplyOK(f) /\ Deliver(s, f)
      <4>1. ASSUME NEW s \in Sessions, DeviceReceives(s)
            PROVE  up' = up \/ \E f \in Frame : ReplyOK(f) /\ Deliver(s, f)
        <5>1. Head(down[s]) \in Commands
          BY <4>1, TailType DEF DeviceReceives, TypeOK
        <5>2. \A ok \in BOOLEAN :
                LET f == [NoFrame EXCEPT !.of = Head(down[s]), !.ok = ok]
                IN  f \in Frame /\ f.of = Head(down[s])
          BY <5>1, NoFrameType DEF Frame, CommandOrNone
        <5>3. \A f \in Frame : f.of = Head(down[s]) => ReplyOK(f)
          BY <5>1, CommandAssumption DEF ReplyOK
        <5>4. PICK ok \in BOOLEAN :
                up' = up \/ Deliver(s, [NoFrame EXCEPT !.of = Head(down[s]),
                                                       !.ok = ok])
          BY <4>1, CommandAssumption DEF DeviceReceives
        <5>5. QED BY <5>2, <5>3, <5>4
      <4>2. \A c \in Commands : \A ok \in BOOLEAN :
              Reply(c, ok) \in Frame /\ ReplyOK(Reply(c, ok))
        <5>1. \A c \in Commands : c # NoCommand
          BY CommandAssumption
        <5>2. QED BY <5>1, ReplyType DEF ReplyOK, Reply
      <4>3. ASSUME NEW c \in Commands, DeviceOperates(c) \/ DeviceRetransmits(c)
            PROVE  up' = up \/ \E s \in Sessions : \E f \in Frame :
                                 ReplyOK(f) /\ Deliver(s, f)
        <5>1. \/ up' = up
              \/ /\ current \in Sessions
                 /\ \E ok \in BOOLEAN : Deliver(current, Reply(c, ok))
          BY <4>3, CommandAssumption
             DEF DeviceOperates, DeviceRetransmits, TypeOK
        <5>2. QED BY <5>1, <4>2
      <4>4. ASSUME Keypad
            PROVE  \E s \in Sessions : \E f \in Frame :
                     ReplyOK(f) /\ Deliver(s, f)
        <5> DEFINE k(t) == [kind |-> "reply", of |-> NoCommand, serial |-> 0,
                            source |-> "keypad", type |-> t, ok |-> TRUE]
        <5>1. \A t \in Types : k(t) \in Frame /\ ReplyOK(k(t))
          BY ZeroIsSerial DEF Frame, CommandOrNone, ReplyOK
        <5>2. current \in Sessions /\ \E t \in Types : Deliver(current, k(t))
          BY <4>4 DEF Keypad, TypeOK
        <5>3. QED BY <5>1, <5>2
      <4>5. QED BY <2>4, <4>1, <4>3, <4>4 DEF Device
    <3>2. up' = up => FramesOK'
      BY DEF FramesOK
    <3>3. QED BY <3>1, <3>2, <2>1, DeliverFrames
  <2>5. QED BY <1>1, <2>1, <2>2, <2>3, <2>4
<1>2. CASE Restart
  <2>1. FramesOK'
    BY <1>2 DEF Restart, FramesOK
  <2>2. \A s \in Sessions : handler'[s] = AtRest
    BY <1>2 DEF Restart
  <2>3. QED BY <2>1, <2>2, AtRestOK DEF HandlersOK, HandlerOK, ReplyOK
<1>3. CASE StoreFails
  <2>1. CASE \E s \in Sessions : /\ handler' = [handler EXCEPT ![s] = AtRest]
                                 /\ UNCHANGED up
    BY <2>1, AtRestOK, HandlerKept DEF FramesOK
  <2>2. CASE \E s \in Sessions : up[s] # << >> /\ Take(s) /\ UNCHANGED handler
    <3>1. HandlersOK'
      BY <2>2 DEF HandlersOK
    <3>2. QED BY <3>1, <2>2, TakeFrames
  <2>3. CASE UNCHANGED <<handler, up>>
    BY <2>3 DEF FramesOK, HandlersOK
  <2>4. QED BY <1>3, <2>1, <2>2, <2>3 DEF StoreFails
<1>4. QED BY <1>1, <1>2, <1>3

-----------------------------------------------------------------------------
(* The rows: CreditOK, WrittenOK and SendFailedNeverSent *)

NotRecorded == {"none", "send_failed"}

LEMMA CreditKept ==
  ASSUME CreditOK,
         \A c \in Commands : \/ rows'[c] = rows[c] /\ credit'[c] = credit[c]
                             \/ rows'[c].status # "completed"
                             \/ credit'[c] # NoCommand
  PROVE  CreditOK'
BY DEF CreditOK, KeypadNeverCompletes

LEMMA WrittenKept ==
  ASSUME TypeOK, WrittenOK, SendFailedNeverSent, written' = written,
         \A c \in Commands : pc'[c] = pc[c] \/ pc'[c] \notin NotWritten,
         \A c \in Commands : rows'[c] = rows[c]
                             \/ rows'[c].status \notin NotRecorded
  PROVE  WrittenOK' /\ SendFailedNeverSent'
<1>1. \A i \in DOMAIN written : written[i] \in Commands
  BY DEF TypeOK
<1>2. WrittenOK'
  BY <1>1 DEF WrittenOK, NotWritten, NotRecorded
<1>3. SendFailedNeverSent'
  BY <1>1 DEF SendFailedNeverSent, NotRecorded
<1>4. QED BY <1>2, <1>3

LEMMA StatusStep ==
  ASSUME TypeOK, NEW c \in Commands, NEW s, NEW o, SetStatus(c, s, o)
  PROVE  \A d \in Commands : IF d = c THEN rows'[d].status = s
                                      ELSE rows'[d] = rows[d]
BY DEF SetStatus, TypeOK

LEMMA CallCredit ==
  ASSUME TypeOK, CreditOK, NEW c \in Commands, CallStep(c)
  PROVE  CreditOK'
<1>1. credit' = credit
  BY CallFrame
<1>2. \/ rows' = rows
      \/ \E s \in {"send_failed", "pending", "sent"} : \E o : SetStatus(c, s, o)
  BY DEF CallStep, Running, Refuse, Execute, RefusalInserted, CommandInserted,
         Record, Register, Failed, Logged, Marked, Noted, Return, WaitExpires,
         store
<1>3. \A d \in Commands : rows'[d] = rows[d] \/ rows'[d].status # "completed"
  BY <1>2, StatusStep
<1>4. QED BY <1>1, <1>3, CreditKept

LEMMA CallWritten ==
  ASSUME TypeOK, WrittenOK, SendFailedNeverSent, NEW c \in Commands, CallStep(c)
  PROVE  WrittenOK' /\ SendFailedNeverSent'
<1> USE DEF store, calls
<1>0. \A l : Goto(c, l) => \A d \in Commands :
               pc'[d] = IF d = c THEN l ELSE pc[d]
  BY DEF Goto, TypeOK
<1>w. written \in Seq(Commands) /\ \A i \in DOMAIN written : written[i] \in Commands
  BY DEF TypeOK
<1>n. pc[c] \in NotWritten => \A i \in DOMAIN written : written[i] # c
  BY DEF WrittenOK
<1>1. CASE Refuse(c) \/ Execute(c)
  <2>1. /\ pc[c] = "idle" /\ written' = written /\ rows' = rows
        /\ Goto(c, "refusing") \/ Goto(c, "inserting")
    BY <1>1 DEF Refuse, Execute
  <2>2. WrittenOK'
    BY <2>1, <1>0, <1>w, <1>n DEF WrittenOK, NotWritten
  <2>3. SendFailedNeverSent'
    BY <2>1 DEF SendFailedNeverSent
  <2>4. QED BY <2>2, <2>3
<1>2. CASE RefusalInserted(c) \/ Failed(c)
  <2>1. /\ pc[c] \in NotWritten /\ written' = written
        /\ \E o : SetStatus(c, "send_failed", o)
        /\ Goto(c, "failed")
    BY <1>2 DEF RefusalInserted, Record, Failed, NotWritten
  <2>2. \A d \in Commands : d # c => rows'[d] = rows[d]
    BY <2>1, StatusStep
  <2>3. WrittenOK'
    BY <2>1, <2>2, <1>0, <1>w, <1>n DEF WrittenOK, NotWritten
  <2>4. SendFailedNeverSent'
    BY <2>1, <2>2, <1>w, <1>n DEF SendFailedNeverSent
  <2>5. QED BY <2>3, <2>4
<1>3. CASE CommandInserted(c)
  <2>1. /\ pc[c] = "inserting" /\ written' = written
        /\ SetStatus(c, "pending", "none") /\ Goto(c, "inserted")
    BY <1>3 DEF CommandInserted, Record
  <2>2. \A d \in Commands : IF d = c THEN rows'[d].status = "pending"
                                     ELSE rows'[d] = rows[d]
    BY <2>1, StatusStep
  <2>3. WrittenOK'
    BY <2>1, <2>2, <1>0, <1>w, <1>n DEF WrittenOK, NotWritten
  <2>4. SendFailedNeverSent'
    BY <2>1, <2>2, <1>w DEF SendFailedNeverSent
  <2>5. QED BY <2>3, <2>4
<1>4. CASE Register(c)
  <2>1. pc[c] = "inserted" /\ rows' = rows
    BY <1>4 DEF Register
  <2>2. rows[c].status \notin NotRecorded
    BY <2>1 DEF WrittenOK, NotRecorded
  <2>3. \/ written' = written /\ Goto(c, "failing")
        \/ written' = Append(written, c) /\ Goto(c, "logging")
    BY <1>4 DEF Register
  <2>4. \A i \in DOMAIN written' :
          \/ i \in DOMAIN written /\ written'[i] = written[i]
          \/ written' = Append(written, c) /\ written'[i] = c
    BY <2>3, <1>w
  <2>5. WrittenOK'
    BY <2>1, <2>3, <2>4, <1>0, <1>w, <1>n DEF WrittenOK, NotWritten
  <2>6. SendFailedNeverSent'
    BY <2>1, <2>2, <2>4 DEF SendFailedNeverSent, NotRecorded
  <2>7. QED BY <2>5, <2>6
<1>5. CASE Logged(c) \/ Marked(c) \/ Noted(c) \/ Return(c) \/ WaitExpires(c)
  <2>1. /\ written' = written
        /\ rows' = rows \/ SetStatus(c, "sent", rows[c].outcome)
    BY <1>5 DEF Logged, Marked, Noted, Return, WaitExpires
  <2>2. PICK l : Goto(c, l) /\ l \notin NotWritten
    BY <1>5 DEF Logged, AfterLog, Marked, Noted, Return, WaitExpires,
                NotWritten
  <2>3. \A d \in Commands : rows'[d] = rows[d]
                            \/ rows'[d].status \notin NotRecorded
    BY <2>1, StatusStep DEF NotRecorded
  <2>4. QED BY <2>1, <2>2, <2>3, <1>0, WrittenKept
<1>6. QED
  BY <1>1, <1>2, <1>3, <1>4, <1>5 DEF CallStep, Running

LEMMA TimerRows ==
  ASSUME TypeOK, CreditOK, WrittenOK, SendFailedNeverSent, NEW c \in Commands,
         TimerStep(c)
  PROVE  CreditOK' /\ WrittenOK' /\ SendFailedNeverSent'
<1>1. written' = written /\ credit' = credit
  BY TimerFrame
<1>2. rows' = rows \/ SetStatus(c, "timeout", "timeout")
  BY DEF TimerStep, TimerFires, TimeoutApplied, TimeoutFinishes, store
<1>3. \A d \in Commands : rows'[d] = rows[d] \/ rows'[d].status = "timeout"
  BY <1>2, StatusStep
<1>4. \A d \in Commands : pc'[d] = pc[d] \/ pc'[d] = "answered"
  BY DEF TimerStep, TimerFires, TimeoutApplied, TimeoutFinishes, Resolved,
         TypeOK, calls
<1>5. CreditOK'
  BY <1>1, <1>3, CreditKept
<1>6. WrittenOK' /\ SendFailedNeverSent'
  BY <1>1, <1>3, <1>4, WrittenKept DEF NotWritten, NotRecorded
<1>7. QED BY <1>5, <1>6

LEMMA FrameRows ==
  ASSUME TypeOK, HandlersOK, CreditOK, WrittenOK, SendFailedNeverSent,
         NEW s \in Sessions, FrameStep(s)
  PROVE  CreditOK' /\ WrittenOK' /\ SendFailedNeverSent'
<1> DEFINE c == handler[s].cmd
<1>0. \A d \in Commands : pc'[d] = pc[d] \/ pc'[d] = "answered"
  <2>1. CASE RejectionFinishes(s) \/ ReplyFinishes(s)
    <3>1. c \in Commands /\ (FinishEntry(c) \/ FinishRow(c))
      BY <2>1 DEF RejectionFinishes, ReplyFinishes, TypeOK, WithCommand,
                  Handlers, CommandOrNone
    <3>2. QED BY <3>1, FinishPending
  <2>2. CASE ~(RejectionFinishes(s) \/ ReplyFinishes(s))
    BY <2>2 DEF FrameStep, ReceiveAck, AckApplied, ReceiveReply, Correlate,
                LateFound, FallBack, ReplyApplied, FollowUpApplied, calls
  <2>3. QED BY <2>1, <2>2
<1>w. \A d \in Commands : pc'[d] = pc[d] \/ pc'[d] \notin NotWritten
  BY <1>0 DEF NotWritten
<1>1. CASE AckApplied(s)
  <2>1. c \in Commands /\ credit' = credit
    BY <1>1 DEF AckApplied, TypeOK, WithCommand, Handlers, CommandOrNone
  <2>2. rows[c] \in Row
    BY <2>1 DEF TypeOK
  <2>3. \A ok \in BOOLEAN : AckRow(c, ok).status \in {"acknowledged", "rejected"}
    BY <2>2 DEF AckRow, Row
  <2>4. handler[s].frame.ok \in BOOLEAN
    BY DEF TypeOK, Handlers, Frame
  <2>5. \A d \in Commands : \/ rows'[d] = rows[d]
                            \/ rows'[d].status \in {"acknowledged", "rejected"}
    BY <1>1, <2>1, <2>3, <2>4 DEF AckApplied, TypeOK
  <2>6. CreditOK'
    BY <2>1, <2>5, CreditKept
  <2>7. QED BY <2>5, <2>6, <1>w, FrameFrame, WrittenKept DEF NotRecorded
<1>2. CASE ReplyApplied(s)
  <2>1. c \in Commands /\ handler[s].frame.of # NoCommand
    BY <1>2 DEF ReplyApplied, TypeOK, WithCommand, Handlers, CommandOrNone,
                HandlersOK, HandlerOK
  <2>2. \E o : SetStatus(c, "completed", o)
    BY <1>2 DEF ReplyApplied
  <2>3. \A d \in Commands : IF d = c THEN rows'[d].status = "completed"
                                     ELSE rows'[d] = rows[d]
    BY <2>1, <2>2, StatusStep
  <2>4. \A d \in Commands : credit'[d] = IF d = c THEN handler[s].frame.of
                                         ELSE credit[d]
    BY <1>2 DEF ReplyApplied, TypeOK
  <2>5. CreditOK'
    BY <2>1, <2>3, <2>4, CreditKept
  <2>6. QED BY <2>3, <2>5, <1>w, FrameFrame, WrittenKept DEF NotRecorded
<1>3. CASE ~(AckApplied(s) \/ ReplyApplied(s))
  <2>1. rows' = rows /\ credit' = credit
    BY <1>3 DEF FrameStep, ReceiveAck, RejectionFinishes, ReceiveReply,
                Correlate, LateFound, FallBack, FollowUpApplied,
                ReplyFinishes, store
  <2>2. CreditOK'
    BY <2>1, CreditKept
  <2>3. QED BY <2>1, <2>2, <1>w, FrameFrame, WrittenKept
<1>4. QED BY <1>1, <1>2, <1>3

LEMMA OtherRows ==
  ASSUME TypeOK, CreditOK, WrittenOK, SendFailedNeverSent,
         \/ Disconnect \/ Device \/ Restart \/ StoreFails
         \/ \E s \in Sessions : Connect(s)
  PROVE  CreditOK' /\ WrittenOK' /\ SendFailedNeverSent'
<1>1. written' = written /\ credit' = credit
  BY ConnectionFrame, DeviceFrame DEF Restart, StoreFails, store, calls
<1>2. \A c \in Commands : rows'[c] = rows[c] \/ rows'[c].status = "timeout"
  <2>1. CASE Restart
    BY <2>1 DEF Restart, Recovered
  <2>2. CASE ~Restart
    BY <2>2, ConnectionFrame, DeviceFrame DEF StoreFails, store
  <2>3. QED BY <2>1, <2>2
<1>3. \A c \in Commands : pc'[c] = pc[c] \/ pc'[c] \in {"gone", "failed"}
  <2>1. CASE Restart
    BY <2>1 DEF Restart
  <2>2. CASE StoreFails
    BY <2>2 DEF StoreFails, Goto, TypeOK
  <2>3. CASE ~(Restart \/ StoreFails)
    BY <2>3, ConnectionFrame, DeviceFrame DEF calls
  <2>4. QED BY <2>1, <2>2, <2>3
<1>4. CreditOK'
  BY <1>1, <1>2, CreditKept
<1>5. QED BY <1>1, <1>2, <1>3, <1>4, WrittenKept DEF NotWritten, NotRecorded

-----------------------------------------------------------------------------
(* Entries and their timers: PendingHasTimer *)

\* Timers stay as they are, or are stopped with their entry.
LEMMA TimersKept ==
  ASSUME TypeOK, PendingOK, PendingHasTimer, NEW c \in Commands,
         used'.failure = used.failure,
         \A n \in Serials : pending'[n] \in {pending[n], NoCommand},
         \A d \in Commands : \/ timer'[d] = timer[d] \/ timer'[d] # "off"
                             \/ d = c /\ pending'[serial[c]] = NoCommand
  PROVE  PendingHasTimer'
<1>1. \A n \in Serials : pending[n] # NoCommand =>
        pending[n] \in Commands /\ n = serial[pending[n]]
  BY DEF TypeOK, CommandOrNone, PendingOK
<1>2. QED BY <1>1 DEF PendingHasTimer

LEMMA FinishTimer ==
  ASSUME TypeOK, NEW c \in Commands, FinishEntry(c) \/ FinishRow(c)
  PROVE  \A d \in Commands : \/ timer'[d] = timer[d]
                             \/ d = c /\ pending'[serial[c]] = NoCommand
<1>1. serial[c] \in Serials
  BY DEF TypeOK
<1>2. \A d \in Commands : d # c => Cleared(c)[d] = timer[d]
  BY DEF Cleared, TypeOK
<1>3. Removed(serial[c])[serial[c]] = NoCommand
  BY <1>1 DEF Removed, TypeOK
<1>4. CASE FinishEntry(c)
  <2>1. timer' = Cleared(c) /\ pending' = Removed(serial[c])
    BY <1>4 DEF FinishEntry
  <2>2. QED BY <1>2, <1>3, <2>1
<1>5. CASE FinishRow(c)
  BY <1>5 DEF FinishRow
<1>6. QED BY <1>4, <1>5

LEMMA CallTimers ==
  ASSUME TypeOK, PendingOK, PendingHasTimer, NEW c \in Commands, CallStep(c)
  PROVE  PendingHasTimer'
<1>1. used' = used
  BY CallFrame
<1>2. CASE Register(c)
  <2>1. \/ /\ pending' = [pending EXCEPT ![serial[c]] = c]
           /\ timer' = [timer EXCEPT ![c] = "armed"]
        \/ pending' = [pending EXCEPT ![serial[c]] = NoCommand] /\ timer' = timer
    BY <1>2 DEF Register, Armed, Removed
  <2>2. \A n \in Serials : pending[n] # NoCommand => pending[n] \in Commands
    BY DEF TypeOK, CommandOrNone
  <2>3. \A n \in Serials : \/ pending'[n] \in {pending[n], NoCommand}
                           \/ pending'[n] = c /\ timer'[c] = "armed"
    <3>1. CASE /\ pending' = [pending EXCEPT ![serial[c]] = c]
               /\ timer' = [timer EXCEPT ![c] = "armed"]
      <4>1. timer'[c] = "armed"
        BY <3>1 DEF TypeOK
      <4>2. \A n \in Serials : pending'[n] \in {pending[n], c}
        BY <3>1 DEF TypeOK
      <4>3. QED BY <4>1, <4>2
    <3>2. CASE pending' = [pending EXCEPT ![serial[c]] = NoCommand]
      <4>1. pending \in [Serials -> CommandOrNone]
        BY DEF TypeOK
      <4>2. QED BY <3>2, <4>1
    <3>3. QED BY <2>1, <3>1, <3>2
  <2>4. \A d \in Commands : timer'[d] = timer[d] \/ timer'[d] = "armed"
    BY <2>1 DEF TypeOK
  <2>5. QED BY <1>1, <2>2, <2>3, <2>4 DEF PendingHasTimer
<1>3. CASE ~Register(c)
  <2>1. pending' = pending /\ timer' = timer
    BY <1>3 DEF CallStep, Running, Refuse, Execute, RefusalInserted,
                CommandInserted, Record, Failed, Logged, Marked, Noted, Return,
                WaitExpires, entries
  <2>2. QED BY <1>1, <2>1 DEF PendingHasTimer
<1>4. QED BY <1>2, <1>3

LEMMA TimerTimers ==
  ASSUME TypeOK, PendingOK, PendingHasTimer, NEW c \in Commands, TimerStep(c)
  PROVE  PendingHasTimer'
<1>1. used' = used
  BY TimerFrame
<1>2. serial[c] \in Serials
  BY DEF TypeOK
<1>3. /\ \A n \in Serials : pending'[n] \in {pending[n], NoCommand}
      /\ \A d \in Commands : \/ timer'[d] = timer[d] \/ timer'[d] # "off"
                             \/ d = c /\ pending'[serial[c]] = NoCommand
  BY <1>2 DEF TimerStep, TimerFires, TimeoutApplied, TimeoutFinishes, Removed,
              TypeOK
<1>4. QED BY <1>1, <1>3, TimersKept

LEMMA FrameTimers ==
  ASSUME TypeOK, PendingOK, PendingHasTimer, NEW s \in Sessions, FrameStep(s)
  PROVE  PendingHasTimer'
<1>1. used'.failure = used.failure
  BY FrameFrame DEF TypeOK, Usage
<1>2. CASE RejectionFinishes(s) \/ ReplyFinishes(s)
  <2> DEFINE c == handler[s].cmd
  <2>1. c \in Commands /\ (FinishEntry(c) \/ FinishRow(c))
    BY <1>2 DEF RejectionFinishes, ReplyFinishes, TypeOK, WithCommand, Handlers,
                CommandOrNone
  <2>2. QED BY <1>1, <2>1, FinishPending, FinishTimer, TimersKept
<1>3. CASE ~(RejectionFinishes(s) \/ ReplyFinishes(s))
  <2>1. pending' = pending /\ timer' = timer
    BY <1>3 DEF FrameStep, ReceiveAck, AckApplied, ReceiveReply, Correlate,
                LateFound, FallBack, ReplyApplied, FollowUpApplied, entries
  <2>2. QED BY <1>1, <2>1 DEF PendingHasTimer
<1>4. QED BY <1>2, <1>3

LEMMA OtherTimers ==
  ASSUME TypeOK, PendingHasTimer,
         \/ Disconnect \/ Device \/ Restart \/ StoreFails
         \/ \E s \in Sessions : Connect(s)
  PROVE  PendingHasTimer'
<1>1. CASE Disconnect \/ Device \/ \E s \in Sessions : Connect(s)
  <2>1. pending' = pending /\ timer' = timer /\ used'.failure = used.failure
    BY <1>1, ConnectionFrame, DeviceFrame, FailureFrame DEF entries
  <2>2. QED BY <2>1 DEF PendingHasTimer
<1>2. CASE Restart
  BY <1>2 DEF Restart, PendingHasTimer
<1>3. CASE StoreFails
  <2>1. used'.failure = used.failure + 1 /\ used.failure \in Nat
    BY <1>3 DEF StoreFails, TypeOK, Usage
  <2>2. QED BY <2>1 DEF PendingHasTimer
<1>4. QED BY <1>1, <1>2, <1>3

-----------------------------------------------------------------------------
(* The theorems *)

LEMMA InitInv == Init => CallInv
<1> SUFFICES ASSUME Init PROVE CallInv
  OBVIOUS
<1>1. TypeOK
  BY InitType
<1>2. PendingOK /\ FramesOK /\ CreditOK /\ WrittenOK /\ SendFailedNeverSent
      /\ PendingHasTimer
  BY DEF Init, PendingOK, FramesOK, CreditOK, KeypadNeverCompletes, NoRow,
         WrittenOK, SendFailedNeverSent, PendingHasTimer
<1>3. HandlersOK
  BY AtRestOK DEF Init, HandlersOK
<1>4. QED BY <1>1, <1>2, <1>3 DEF CallInv

LEMMA StepInv ==
  ASSUME CallInv, [Next]_vars
  PROVE  CallInv'
<1> USE DEF CallInv
<1>1. TypeOK'
  BY CallType, TimerType, FrameType, ConnectionType, RestartType,
     StoreFailsType, DeviceType, DayType, StutterType DEF Next
<1>2. ASSUME NEW c \in Commands, CallStep(c) PROVE CallInv'
  <2>1. FramesOK' /\ HandlersOK'
    BY <1>2, CallFrame DEF FramesOK, HandlersOK
  <2>2. QED
    BY <1>1, <1>2, <2>1, CallPending, CallCredit, CallWritten, CallTimers
<1>3. ASSUME NEW c \in Commands, TimerStep(c) PROVE CallInv'
  <2>1. FramesOK' /\ HandlersOK'
    BY <1>3, TimerFrame DEF FramesOK, HandlersOK
  <2>2. QED BY <1>1, <1>3, <2>1, TimerPending, TimerRows, TimerTimers
<1>4. ASSUME NEW s \in Sessions, FrameStep(s) PROVE CallInv'
  BY <1>1, <1>4, FramePending, FrameFrames, FrameHandlers, FrameRows,
     FrameTimers
<1>5. CASE \/ Disconnect \/ Device \/ Restart \/ StoreFails
           \/ \E s \in Sessions : Connect(s)
  BY <1>1, <1>5, OtherPending, OtherFrames, OtherRows, OtherTimers
<1>6. CASE DayPasses \/ UNCHANGED vars
  <2>u. /\ UNCHANGED <<calls, entries, rows, credit, handler, wire>>
        /\ used'.failure = used.failure
    BY <1>6, DayFrame DEF vars, store, TypeOK, Usage
  <2>1. PendingOK' /\ FramesOK' /\ HandlersOK'
    BY <2>u DEF PendingOK, FramesOK, HandlersOK, calls, entries, wire
  <2>2. CreditOK' /\ WrittenOK' /\ SendFailedNeverSent' /\ PendingHasTimer'
    BY <2>u DEF CreditOK, KeypadNeverCompletes, WrittenOK, SendFailedNeverSent,
                PendingHasTimer, calls, entries
  <2>3. QED BY <1>1, <2>1, <2>2
<1>7. QED BY <1>2, <1>3, <1>4, <1>5, <1>6 DEF Next

LEMMA Invariance == Spec => []CallInv
BY InitInv, StepInv, PTL DEF Spec

\* No operation at the lock's own keypad, whose 0x55 carries serial 0 and a
\* keypad source, ever completes a command row: onOperationReply neither finds
\* it an entry or a row nor lets it fall back (D-28), whatever the device
\* echoes, retransmits or loses.
THEOREM KeypadTheorem == Spec => []KeypadNeverCompletes
BY Invariance, PTL DEF CallInv, CreditOK

\* A command whose frame went out is never recorded as send_failed, and its
\* row exists: the catch in execute reports only frames that were not written.
THEOREM SendFailedTheorem == Spec => []SendFailedNeverSent
BY Invariance, PTL DEF CallInv

\* As long as no store statement failed, every entry of the map `pending` has
\* a timer that is armed or in the middle of onTimeout, which removes it.
THEOREM PendingTimerTheorem == Spec => []PendingHasTimer
BY Invariance, PTL DEF CallInv

-----------------------------------------------------------------------------
(***************************************************************************)
(* Part 2.  With a device that echoes the business serial and is up to a   *)
(* day late a reply is given to its command, what is reported as done was  *)
(* done, and the stored key is that of an executed seal.  Whatever the     *)
(* device does, a success rests on an operation of the command's type.     *)
(***************************************************************************)

(***************************************************************************)
(* Frames on their way                                                     *)
(***************************************************************************)

Written(c) == \E i \in DOMAIN written : written[i] = c

\* A frame on its way to the device was written and has not been received, and
\* is there once; the lock knows of written commands only.
DownOK ==
  /\ \A s \in Sessions : \A i \in DOMAIN down[s] :
       Written(down[s][i]) /\ lock[down[s][i]] = "none"
  /\ \A s, t \in Sessions : \A i \in DOMAIN down[s] : \A j \in DOMAIN down[t] :
       down[s][i] = down[t][j] => s = t /\ i = j
  /\ \A c \in Commands : lock[c] # "none" => Written(c)

\* A command has its serial from execute on.
SerialOK ==
  \A c \in Commands : /\ pc[c] = "idle" => serial[c] = 0
                      /\ Written(c) => serial[c] # 0

\* A frame of the device tells what the lock did.
Tells(f) ==
  f.of # NoCommand =>
    IF f.kind = "reply"
    THEN /\ lock[f.of] = (IF f.ok THEN "succeeded" ELSE "failed")
         /\ f.type = TypeOf[f.of]
         /\ EchoSerial => f.serial = serial[f.of]
    ELSE lock[f.of] # "none" /\ (~f.ok => lock[f.of] = "refused")

FramesTell ==
  /\ \A s \in Sessions : \A i \in DOMAIN up[s] : Tells(up[s][i])
  /\ \A s \in Sessions : /\ Tells(handler[s].frame)
                         /\ handler[s].at = "acking" =>
                              /\ handler[s].frame.kind = "ack"
                              /\ handler[s].cmd = handler[s].frame.of

\* A refused command is all that is ever rejected.
RejectedOK == \A c \in Commands : rows[c].status = "rejected" => lock[c] = "refused"

TransitInv == DownOK /\ SerialOK /\ FramesTell /\ RejectedOK

-----------------------------------------------------------------------------
(***************************************************************************)
(* Replies that nothing repeats                                            *)
(***************************************************************************)

IsReplyOf(f, c) == f.kind = "reply" /\ f.of = c

\* The reply of c is being correlated.
Processes(h, c) ==
  h.at \in {"replying", "finding", "found", "correlated"} /\ h.frame.of = c

\* There is one reply to a command, which waits or is being correlated.
OneReply ==
  used.retransmit = 0 => \A c \in Commands :
    /\ \A s, t \in Sessions : \A i \in DOMAIN up[s] : \A j \in DOMAIN up[t] :
         IsReplyOf(up[s][i], c) /\ IsReplyOf(up[t][j], c) => s = t /\ i = j
    /\ \A s, t \in Sessions : \A i \in DOMAIN up[s] :
         ~(IsReplyOf(up[s][i], c) /\ Processes(handler[t], c))
    /\ \A s, t \in Sessions :
         Processes(handler[s], c) /\ Processes(handler[t], c) => s = t

\* A command whose reply is to come, or is there and not applied.
Awaits(c) ==
  \/ Written(c) /\ lock[c] \in {"none", "accepted"}
  \/ \E s \in Sessions : \E i \in DOMAIN up[s] : IsReplyOf(up[s][i], c)
  \/ \E s \in Sessions : Processes(handler[s], c)

\* Its row can be found, and what is done to it is the right thing.
RowsTell ==
  Plain => \A c \in Commands :
    /\ Awaits(c) => rows[c].status \in OPEN \cup {"timeout"}
    /\ rows[c].status = "completed" => Written(c)
    /\ rows[c].outcome = "success" => lock[c] = "succeeded"

HandlersTell ==
  Plain => \A s \in Sessions :
    LET h == handler[s]
    IN  /\ h.at \in {"found", "correlated", "completed", "finishing"}
             /\ h.frame.of # NoCommand =>
               h.cmd = h.frame.of
        /\ h.at = "completed" => h.frame.of # NoCommand /\ h.frame.ok

CorrelationInv == OneReply /\ RowsTell /\ HandlersTell /\ KeyOfAnExecutedSeal

-----------------------------------------------------------------------------
(***************************************************************************)
(* What a step does to the lock, the serials and the frames written        *)
(***************************************************************************)

LEMMA LockStep ==
  ASSUME TypeOK, DownOK, [Next]_vars, NEW c \in Commands
  PROVE  \/ lock'[c] = lock[c]
         \/ lock[c] = "none" /\ lock'[c] \in {"accepted", "refused"}
         \/ lock[c] = "accepted" /\ lock'[c] \in {"succeeded", "failed"}
<1>1. ASSUME NEW d \in Commands, CallStep(d) \/ TimerStep(d) PROVE lock' = lock
  BY <1>1 DEF CallStep, Running, Refuse, Execute, RefusalInserted, CommandInserted, Record,
     Register, Failed, Logged, Marked, Noted, Return, WaitExpires, TimerStep, TimerFires,
     TimeoutApplied, TimeoutFinishes
<1>2. ASSUME NEW s \in Sessions, FrameStep(s) \/ Connect(s) PROVE lock' = lock
  BY <1>2 DEF FrameStep, ReceiveAck, AckApplied, RejectionFinishes, ReceiveReply, Correlate,
     LateFound, FallBack, ReplyApplied, FollowUpApplied, ReplyFinishes, Connect
<1>3. CASE Disconnect \/ Restart \/ DayPasses \/ StoreFails \/ UNCHANGED vars
  BY <1>3 DEF Disconnect, Restart, DayPasses, StoreFails, vars
<1>4. ASSUME NEW s \in Sessions, DeviceReceives(s)
      PROVE  \/ lock'[c] = lock[c]
             \/ lock[c] = "none" /\ lock'[c] \in {"accepted", "refused"}
  <2>1. 1 \in DOMAIN down[s] /\ Head(down[s]) = down[s][1]
    BY <1>4 DEF DeviceReceives, TypeOK
  <2>2. lock[Head(down[s])] = "none"
    BY <2>1 DEF DownOK
  <2>3. \E l \in {"accepted", "refused"} : lock' = [lock EXCEPT ![Head(down[s])] = l]
    BY <1>4 DEF DeviceReceives
  <2>4. QED
    BY <2>2, <2>3 DEF TypeOK
<1>5. ASSUME NEW d \in Commands, DeviceOperates(d)
      PROVE  \/ lock'[c] = lock[c]
             \/ lock[c] = "accepted" /\ lock'[c] \in {"succeeded", "failed"}
  BY <1>5 DEF DeviceOperates, TypeOK
<1>6. ASSUME NEW d \in Commands, DeviceRetransmits(d) \/ Keypad PROVE lock' = lock
  BY <1>6 DEF DeviceRetransmits, Keypad
<1>7. ASSUME Keypad PROVE lock' = lock
  BY <1>7 DEF Keypad
<1>8. QED
  BY <1>1, <1>2, <1>3, <1>4, <1>5, <1>6, <1>7 DEF Next, Device

LEMMA SerialStep ==
  ASSUME TypeOK, [Next]_vars, NEW c \in Commands
  PROVE  /\ serial'[c] = serial[c] \/ Execute(c)
         /\ pc'[c] = "idle" => pc[c] = "idle" /\ serial'[c] = serial[c]
<1>1. ASSUME NEW d \in Commands, Execute(d)
      PROVE  /\ d # c => serial'[c] = serial[c] /\ pc'[c] = pc[c]
             /\ d = c => pc'[c] # "idle"
  BY <1>1 DEF Execute, Goto, TypeOK
<1>2. ASSUME NEW d \in Commands, CallStep(d), ~Execute(d)
      PROVE  serial' = serial /\ (pc'[c] = pc[c] \/ pc'[c] # "idle")
  BY <1>2 DEF CallStep, Running, Refuse, RefusalInserted, CommandInserted, Record,
     Register, Failed, Logged, AfterLog, Marked, Noted, Return, WaitExpires, Goto, TypeOK
<1>3. ASSUME NEW d \in Commands, TimerStep(d)
      PROVE  serial' = serial /\ (pc'[c] = pc[c] \/ pc'[c] # "idle")
  BY <1>3 DEF TimerStep, TimerFires, TimeoutApplied, TimeoutFinishes, calls, Resolved, TypeOK
<1>4. ASSUME NEW s \in Sessions, FrameStep(s)
      PROVE  serial' = serial /\ (pc'[c] = pc[c] \/ pc'[c] # "idle")
  <2>1. \A d \in Commands : FinishEntry(d) \/ FinishRow(d) => (pc'[c] = pc[c] \/ pc'[c] # "idle")
    BY FinishPending
  <2>2. CASE RejectionFinishes(s) \/ ReplyFinishes(s)
    <3>1. handler[s].cmd \in Commands
      BY <2>2 DEF RejectionFinishes, ReplyFinishes, TypeOK, WithCommand, Handlers, CommandOrNone
    <3>2. QED
      BY <2>1, <2>2, <3>1 DEF RejectionFinishes, ReplyFinishes
  <2>3. CASE ~(RejectionFinishes(s) \/ ReplyFinishes(s))
    BY <1>4, <2>3 DEF FrameStep, ReceiveAck, AckApplied, ReceiveReply, Correlate,
       LateFound, FallBack, ReplyApplied, FollowUpApplied, calls
  <2>4. QED
    BY <1>4, <2>2, <2>3, FrameFrame
<1>5. CASE Device \/ Disconnect \/ \E s \in Sessions : Connect(s)
  BY <1>5, DeviceFrame, ConnectionFrame DEF calls
<1>6. CASE Restart
  BY <1>6 DEF Restart, TypeOK
<1>7. CASE StoreFails
  BY <1>7 DEF StoreFails, Goto, TypeOK
<1>8. CASE DayPasses \/ UNCHANGED vars
  BY <1>8 DEF DayPasses, vars, calls
<1>9. QED
  BY <1>1, <1>2, <1>3, <1>4, <1>5, <1>6, <1>7, <1>8 DEF Next, CallStep

LEMMA WrittenStep ==
  ASSUME TypeOK, [Next]_vars, NEW c \in Commands
  PROVE  /\ Written(c) => Written(c)'
         /\ Written(c)' => Written(c) \/ (Register(c) /\ link[target[c]] = "up")
<1>1. ASSUME written' = written PROVE Written(c)' <=> Written(c)
  BY <1>1 DEF Written
<1>2. ASSUME NEW d \in Commands, Register(d)
      PROVE  /\ Written(c) => Written(c)'
             /\ Written(c)' => Written(c) \/ (d = c /\ link[target[c]] = "up")
  <2>1. CASE link[target[d]] = "up"
    <3>1. written \in Seq(Commands) /\ written' = Append(written, d)
      BY <1>2, <2>1 DEF Register, TypeOK
    <3>2. /\ \A i \in DOMAIN written : i \in DOMAIN written' /\ written'[i] = written[i]
          /\ \A i \in DOMAIN written' : \/ i \in DOMAIN written /\ written'[i] = written[i]
                                        \/ written'[i] = d
      BY <3>1
    <3>3. QED
      BY <2>1, <3>2 DEF Written
  <2>2. CASE link[target[d]] # "up"
    BY <1>1, <1>2, <2>2 DEF Register
  <2>3. QED
    BY <2>1, <2>2
<1>3. ASSUME NEW d \in Commands, CallStep(d), ~Register(d) PROVE written' = written
  BY <1>3 DEF CallStep, Running, Refuse, Execute, RefusalInserted, CommandInserted, Record,
     Failed, Logged, Marked, Noted, Return, WaitExpires
<1>4. ASSUME \/ \E d \in Commands : TimerStep(d)
             \/ \E s \in Sessions : FrameStep(s) \/ Connect(s)
             \/ Disconnect \/ Device
      PROVE  written' = written
  BY <1>4, TimerFrame, FrameFrame, ConnectionFrame, DeviceFrame DEF calls
<1>5. CASE Restart \/ DayPasses \/ StoreFails \/ UNCHANGED vars
  <2>1. written' = written
    BY <1>5 DEF Restart, DayPasses, StoreFails, vars, calls
  <2>2. QED
    BY <1>1, <2>1
<1>6. QED
  BY <1>1, <1>2, <1>3, <1>4, <1>5 DEF Next, CallStep

-----------------------------------------------------------------------------
(***************************************************************************)
(* What a step does to the frames of the device                            *)
(***************************************************************************)

\* q is what is left of r when frames are taken from its ends.
PartOf(q, r) ==
  \E k \in Nat : \A i \in DOMAIN q : i + k \in DOMAIN r /\ q[i] = r[i + k]

LEMMA PartOfItself ==
  ASSUME NEW S, NEW q \in Seq(S)
  PROVE  PartOf(q, q) /\ PartOf(<< >>, q)
<1>1. 0 \in Nat /\ \A i \in DOMAIN q : i + 0 \in DOMAIN q /\ q[i] = q[i + 0]
  OBVIOUS
<1>2. \A i \in DOMAIN << >> : i + 0 \in DOMAIN q /\ << >>[i] = q[i + 0]
  OBVIOUS
<1>3. QED
  BY <1>1, <1>2 DEF PartOf

LEMMA PartOfTail ==
  ASSUME NEW S, NEW q \in Seq(S), q # << >>
  PROVE  PartOf(Tail(q), q)
<1>1. 1 \in Nat /\ \A i \in DOMAIN Tail(q) : i + 1 \in DOMAIN q /\ Tail(q)[i] = q[i + 1]
  OBVIOUS
<1>2. QED
  BY <1>1 DEF PartOf

LEMMA PartOfPrefix ==
  ASSUME NEW S, NEW q \in Seq(S), NEW n \in 0..Len(q)
  PROVE  PartOf(SubSeq(q, 1, n), q)
<1>1. 0 \in Nat /\ \A i \in DOMAIN SubSeq(q, 1, n) :
        i + 0 \in DOMAIN q /\ SubSeq(q, 1, n)[i] = q[i + 0]
  OBVIOUS
<1>2. QED
  BY <1>1 DEF PartOf

\* Only the device adds to its frames.
LEMMA FewerUp ==
  ASSUME TypeOK,
         \/ \E c \in Commands : CallStep(c) \/ TimerStep(c)
         \/ \E s \in Sessions : FrameStep(s) \/ Connect(s)
         \/ Disconnect \/ Restart \/ DayPasses \/ StoreFails
         \/ UNCHANGED vars
  PROVE  \A t \in Sessions : PartOf(up'[t], up[t])
<1>0. \A t \in Sessions : up[t] \in Seq(Frame)
  BY DEF TypeOK
<1>1. ASSUME up' = up PROVE \A t \in Sessions : PartOf(up'[t], up[t])
  BY <1>0, <1>1, PartOfItself
<1>2. ASSUME NEW s \in Sessions, up[s] # << >>, Take(s)
      PROVE  \A t \in Sessions : PartOf(up'[t], up[t])
  <2>1. \A t \in Sessions : up'[t] = IF t = s THEN Tail(up[s]) ELSE up[t]
    BY <1>2 DEF Take, TypeOK
  <2>2. PartOf(Tail(up[s]), up[s])
    BY <1>0, <1>2, PartOfTail
  <2>3. QED
    BY <1>0, <2>1, <2>2, PartOfItself
<1>3. ASSUME NEW s \in Sessions, Cut(s)
      PROVE  \A t \in Sessions : PartOf(up'[t], up[t])
  <2>1. PICK n \in 0..Len(up[s]) : up' = [up EXCEPT ![s] = SubSeq(@, 1, n)]
    BY <1>3 DEF Cut
  <2>2. \A t \in Sessions : up'[t] = IF t = s THEN SubSeq(up[s], 1, n) ELSE up[t]
    BY <2>1 DEF TypeOK
  <2>3. PartOf(SubSeq(up[s], 1, n), up[s])
    BY <1>0, PartOfPrefix
  <2>4. QED
    BY <1>0, <2>2, <2>3, PartOfItself
<1>4. CASE \E c \in Commands : CallStep(c) \/ TimerStep(c)
  BY <1>1, <1>4, CallFrame, TimerFrame
<1>5. ASSUME NEW s \in Sessions, FrameStep(s) PROVE \A t \in Sessions : PartOf(up'[t], up[t])
  <2>1. CASE ReceiveAck(s) \/ ReceiveReply(s)
    BY <1>2, <2>1 DEF ReceiveAck, ReceiveReply, NextIs
  <2>2. CASE ~(ReceiveAck(s) \/ ReceiveReply(s))
    <3>1. up' = up
      BY <1>5, <2>2 DEF FrameStep, AckApplied, RejectionFinishes, Correlate, LateFound, FallBack,
         ReplyApplied, FollowUpApplied, ReplyFinishes, wire
    <3>2. QED
      BY <1>1, <3>1
  <2>3. QED
    BY <2>1, <2>2
<1>6. ASSUME NEW s \in Sessions, Connect(s) PROVE \A t \in Sessions : PartOf(up'[t], up[t])
  <2>1. up' = up \/ (current \in Sessions /\ Cut(current))
    BY <1>6 DEF Connect, TypeOK
  <2>2. QED
    BY <1>1, <1>3, <2>1
<1>7. CASE Disconnect
  BY <1>3, <1>7 DEF Disconnect, TypeOK
<1>8. CASE Restart
  <2>1. \A t \in Sessions : up'[t] = << >>
    BY <1>8 DEF Restart
  <2>2. QED
    BY <1>0, <2>1, PartOfItself
<1>9. CASE StoreFails
  <2>1. up' = up \/ \E s \in Sessions : up[s] # << >> /\ Take(s)
    BY <1>9 DEF StoreFails
  <2>2. QED
    BY <1>1, <1>2, <2>1
<1>10. CASE DayPasses \/ UNCHANGED vars
  BY <1>1, <1>10 DEF DayPasses, vars, wire
<1>11. QED
  BY <1>4, <1>5, <1>6, <1>7, <1>8, <1>9, <1>10

\* What the device adds, and what that says of the lock.
LEMMA DeviceUp ==
  ASSUME TypeOK, Device
  PROVE  \/ up' = up
         \/ \E s \in Sessions, c \in Commands, ok \in BOOLEAN :
              /\ Deliver(s, [NoFrame EXCEPT !.of = c, !.ok = ok])
              /\ lock'[c] = IF ok THEN "accepted" ELSE "refused"
         \/ \E s \in Sessions, c \in Commands, ok \in BOOLEAN :
              /\ Deliver(s, Reply(c, ok))
              /\ lock'[c] = IF ok THEN "succeeded" ELSE "failed"
              /\ lock[c] = "accepted" \/ used'.retransmit # 0
         \/ \E s \in Sessions, f \in Frame : Deliver(s, f) /\ f.of = NoCommand /\ f.kind = "reply"
<1>1. ASSUME NEW s \in Sessions, DeviceReceives(s)
      PROVE  \/ up' = up
             \/ \E c \in Commands, ok \in BOOLEAN :
                  /\ Deliver(s, [NoFrame EXCEPT !.of = c, !.ok = ok])
                  /\ lock'[c] = IF ok THEN "accepted" ELSE "refused"
  <2> DEFINE c == Head(down[s])
  <2>1. PICK ok \in AckResults :
          /\ lock' = [lock EXCEPT ![c] = IF ok THEN "accepted" ELSE "refused"]
          /\ IF link[s] = "up" THEN Deliver(s, [NoFrame EXCEPT !.of = c, !.ok = ok])
             ELSE UNCHANGED up
    BY <1>1 DEF DeviceReceives
  <2>2. ok \in BOOLEAN
    BY CommandAssumption
  <2>3. c \in Commands
    BY <1>1, TailType DEF DeviceReceives, TypeOK
  <2>4. lock'[c] = IF ok THEN "accepted" ELSE "refused"
    BY <2>1, <2>3 DEF TypeOK
  <2> HIDE DEF c
  <2>5. QED
    BY <2>1, <2>2, <2>3, <2>4
<1>2. ASSUME NEW c \in Commands, DeviceOperates(c)
      PROVE  \/ up' = up
             \/ \E s \in Sessions, ok \in BOOLEAN :
                  /\ Deliver(s, Reply(c, ok))
                  /\ lock'[c] = IF ok THEN "succeeded" ELSE "failed"
                  /\ lock[c] = "accepted"
  <2>1. PICK ok \in LockResults :
          /\ lock' = [lock EXCEPT ![c] = IF ok THEN "succeeded" ELSE "failed"]
          /\ IF current # NoSession THEN Deliver(current, Reply(c, ok)) ELSE UNCHANGED up
    BY <1>2 DEF DeviceOperates
  <2>2. ok \in BOOLEAN
    BY CommandAssumption
  <2>3. lock'[c] = IF ok THEN "succeeded" ELSE "failed"
    BY <2>1 DEF TypeOK
  <2>4. lock[c] = "accepted"
    BY <1>2 DEF DeviceOperates
  <2>5. current # NoSession => current \in Sessions
    BY DEF TypeOK
  <2>6. QED
    BY <2>1, <2>2, <2>3, <2>4, <2>5
<1>3. ASSUME NEW c \in Commands, DeviceRetransmits(c)
      PROVE  \E s \in Sessions, ok \in BOOLEAN :
                  /\ Deliver(s, Reply(c, ok))
                  /\ lock'[c] = IF ok THEN "succeeded" ELSE "failed"
                  /\ used'.retransmit # 0
  <2>1. /\ lock[c] \in {"succeeded", "failed"} /\ current # NoSession
        /\ Deliver(current, Reply(c, lock[c] = "succeeded"))
        /\ lock' = lock
    BY <1>3 DEF DeviceRetransmits
  <2>2. used.retransmit \in Nat
    BY DEF TypeOK, Usage
  <2>3. used'.retransmit = used.retransmit + 1
    BY <1>3 DEF DeviceRetransmits, TypeOK, Usage
  <2>4. current \in Sessions
    BY <2>1 DEF TypeOK
  <2> DEFINE did == lock[c] = "succeeded"
  <2>5. did \in BOOLEAN /\ Deliver(current, Reply(c, did))
    BY <2>1
  <2>6. lock'[c] = IF did THEN "succeeded" ELSE "failed"
    BY <2>1
  <2> HIDE DEF did
  <2>7. used'.retransmit # 0
    BY <2>2, <2>3
  <2>8. QED
    BY <2>4, <2>5, <2>6, <2>7
<1>4. ASSUME Keypad
      PROVE  \E s \in Sessions, f \in Frame : Deliver(s, f) /\ f.of = NoCommand /\ f.kind = "reply"
  <2>1. current # NoSession /\ current \in Sessions
    BY <1>4 DEF Keypad, TypeOK
  <2>2. PICK t \in Types :
          Deliver(current, [kind |-> "reply", of |-> NoCommand, serial |-> 0,
                            source |-> "keypad", type |-> t, ok |-> TRUE])
    BY <1>4 DEF Keypad
  <2> DEFINE f == [kind |-> "reply", of |-> NoCommand, serial |-> 0,
                   source |-> "keypad", type |-> t, ok |-> TRUE]
  <2>3. f \in Frame /\ f.of = NoCommand /\ f.kind = "reply"
    BY ZeroIsSerial DEF Frame, CommandOrNone
  <2> HIDE DEF f
  <2>4. Deliver(current, f)
    BY <2>2 DEF f
  <2>5. QED
    BY <2>1, <2>3, <2>4
<1>5. QED
  BY <1>1, <1>2, <1>3, <1>4 DEF Device

-----------------------------------------------------------------------------
(***************************************************************************)
(* TransitInv is inductive                                                 *)
(***************************************************************************)

LEMMA DownStep ==
  ASSUME TypeOK, [Next]_vars
  PROVE  \/ /\ down' = down
            /\ \A c \in Commands : lock[c] = "none" => lock'[c] = "none"
         \/ \E c \in Commands : Register(c) /\ link[target[c]] = "up"
         \/ \E s \in Sessions : DeviceReceives(s)
<1> USE DEF calls, entries, store, wire
<1>1. ASSUME NEW d \in Commands, CallStep(d) \/ TimerStep(d),
             ~(Register(d) /\ link[target[d]] = "up")
      PROVE  down' = down /\ lock' = lock
  BY <1>1 DEF CallStep, Running, Refuse, Execute, RefusalInserted, CommandInserted, Record,
     Register, Failed, Logged, Marked, Noted, Return, WaitExpires, TimerStep, TimerFires,
     TimeoutApplied, TimeoutFinishes
<1>2. ASSUME NEW s \in Sessions, FrameStep(s) \/ Connect(s) PROVE down' = down /\ lock' = lock
  BY <1>2 DEF FrameStep, ReceiveAck, AckApplied, RejectionFinishes, ReceiveReply, Correlate,
     LateFound, FallBack, ReplyApplied, FollowUpApplied, ReplyFinishes, Connect
<1>3. CASE Disconnect \/ Restart \/ DayPasses \/ StoreFails \/ UNCHANGED vars
  BY <1>3 DEF Disconnect, Restart, DayPasses, StoreFails, vars
<1>4. ASSUME NEW d \in Commands, DeviceOperates(d)
      PROVE  /\ down' = down
             /\ \A c \in Commands : lock[c] = "none" => lock'[c] = "none"
  <2>1. down' = down /\ lock[d] = "accepted"
    BY <1>4 DEF DeviceOperates
  <2>2. \A c \in Commands : c # d => lock'[c] = lock[c]
    BY <1>4 DEF DeviceOperates, TypeOK
  <2>3. QED
    BY <2>1, <2>2
<1>5. ASSUME NEW d \in Commands, DeviceRetransmits(d) PROVE down' = down /\ lock' = lock
  BY <1>5 DEF DeviceRetransmits
<1>6. ASSUME Keypad PROVE down' = down /\ lock' = lock
  BY <1>6 DEF Keypad
<1>7. QED
  BY <1>1, <1>2, <1>3, <1>4, <1>5, <1>6 DEF Next, Device

LEMMA DownKept ==
  ASSUME CallInv, TransitInv, [Next]_vars
  PROVE  DownOK'
<1> TypeOK /\ DownOK /\ WrittenOK
  BY DEF CallInv, TransitInv
<1>w. \A c \in Commands : Written(c) => Written(c)'
  BY WrittenStep
<1>q. \A t \in Sessions : down[t] \in Seq(Commands)
  BY DEF TypeOK
<1>c. \A t \in Sessions : \A i \in DOMAIN down[t] : down[t][i] \in Commands
  BY <1>q
<1>1. CASE /\ down' = down
           /\ \A c \in Commands : lock[c] = "none" => lock'[c] = "none"
  <2>1. \A c \in Commands : lock'[c] # "none" => Written(c)'
    <3>1. ASSUME NEW c \in Commands, lock'[c] # "none" PROVE Written(c)
      BY <1>1, <3>1 DEF DownOK
    <3>2. QED
      BY <3>1, <1>w
  <2>2. \A s \in Sessions : \A i \in DOMAIN down[s] :
          Written(down[s][i])' /\ lock'[down[s][i]] = "none"
    <3>1. ASSUME NEW d \in Commands, Written(d), lock[d] = "none"
          PROVE  Written(d)' /\ lock'[d] = "none"
      BY <1>1, <1>w, <3>1
    <3> TAKE s \in Sessions
    <3> TAKE i \in DOMAIN down[s]
    <3>2. PICK d \in Commands : d = down[s][i]
      BY <1>c
    <3>3. Written(d) /\ lock[d] = "none"
      BY <3>2 DEF DownOK
    <3>4. Written(d)' /\ lock'[d] = "none"
      BY <3>1, <3>3
    <3>5. (down[s][i])' = down[s][i]
      BY <1>1
    <3>6. QED
      BY <1>1, <3>2, <3>4, <3>5 DEF Written
  <2>3. QED
    BY <1>1, <2>1, <2>2 DEF DownOK, Written
<1>2. ASSUME NEW c \in Commands, Register(c), link[target[c]] = "up" PROVE DownOK'
  <2> DEFINE s == target[c]
  <2>1. /\ pc[c] = "inserted" /\ lock' = lock /\ written' = Append(written, c)
        /\ down' = [down EXCEPT ![s] = Append(@, c)]
    BY <1>2 DEF Register
  <2>2. ~Written(c)
    BY <2>1 DEF WrittenOK, Written, NotWritten
  <2>3. lock[c] = "none"
    BY <2>2 DEF DownOK
  <2>4. Written(c)'
    <3>1. Len(written) + 1 \in DOMAIN Append(written, c) /\ Append(written, c)[Len(written) + 1] = c
      BY DEF TypeOK
    <3>2. QED
      BY <2>1, <3>1 DEF Written
  <2>5. \A t \in Sessions : \A i \in DOMAIN down'[t] :
          \/ i \in DOMAIN down[t] /\ down'[t][i] = down[t][i]
          \/ t = s /\ i = Len(down[t]) + 1 /\ down'[t][i] = c
    <3> DEFINE q == down[s]
    <3>1. s \in Sessions => \A i \in DOMAIN Append(q, c) :
            \/ i \in DOMAIN q /\ Append(q, c)[i] = q[i]
            \/ i = Len(q) + 1 /\ Append(q, c)[i] = c
      BY <1>q
    <3>2. \A t \in Sessions : down'[t] = IF t = s THEN Append(q, c) ELSE down[t]
      BY <2>1 DEF TypeOK
    <3> HIDE DEF q
    <3>3. QED
      BY <3>1, <3>2 DEF q
  <2>6. \A t \in Sessions : \A i \in DOMAIN down[t] : down[t][i] # c
    BY <2>2, <1>c DEF DownOK
  <2>7. \A t \in Sessions : \A i \in DOMAIN down'[t] :
          \E d \in Commands : down'[t][i] = d /\ Written(d)' /\ lock'[d] = "none"
    <3> TAKE t \in Sessions
    <3> TAKE i \in DOMAIN down'[t]
    <3>1. CASE i \in DOMAIN down[t] /\ down'[t][i] = down[t][i]
      <4>1. PICK d \in Commands : d = down[t][i]
        BY <3>1, <1>c
      <4>2. Written(d) /\ lock[d] = "none"
        BY <3>1, <4>1 DEF DownOK
      <4>3. QED
        BY <3>1, <4>1, <4>2, <1>w, <2>1
    <3>2. CASE down'[t][i] = c
      BY <3>2, <2>1, <2>3, <2>4
    <3>3. QED
      BY <2>5, <3>1, <3>2
  <2>8. \A t, u \in Sessions : \A i \in DOMAIN down'[t] : \A j \in DOMAIN down'[u] :
          down'[t][i] = down'[u][j] => t = u /\ i = j
    <3>1. ASSUME NEW t \in Sessions, NEW u \in Sessions, NEW i \in DOMAIN down'[t],
                 NEW j \in DOMAIN down'[u], down'[t][i] = down'[u][j]
          PROVE  t = u /\ i = j
      <4>1. CASE down'[t][i] = c
        <5>1. t = s /\ i = Len(down[t]) + 1
          BY <2>5, <2>6, <4>1
        <5>2. u = s /\ j = Len(down[u]) + 1
          BY <2>5, <2>6, <3>1, <4>1
        <5>3. QED
          BY <5>1, <5>2
      <4>2. CASE down'[t][i] # c
        <5>1. /\ i \in DOMAIN down[t] /\ down'[t][i] = down[t][i]
              /\ j \in DOMAIN down[u] /\ down'[u][j] = down[u][j]
          BY <2>5, <3>1, <4>2
        <5>2. down[t][i] = down[u][j]
          BY <3>1, <5>1
        <5>3. QED
          BY <5>1, <5>2 DEF DownOK
      <4>3. QED
        BY <4>1, <4>2
    <3>2. QED
      BY <3>1
  <2>9. \A d \in Commands : lock'[d] # "none" => Written(d)'
    BY <1>w, <2>1 DEF DownOK
  <2>10. QED
    BY <2>7, <2>8, <2>9 DEF DownOK, Written
<1>3. ASSUME NEW s \in Sessions, DeviceReceives(s) PROVE DownOK'
  <2> DEFINE c == Head(down[s])
  <2>1. down[s] # << >> /\ down' = [down EXCEPT ![s] = Tail(@)] /\ written' = written
    BY <1>3 DEF DeviceReceives, calls
  <2>2. 1 \in DOMAIN down[s] /\ c = down[s][1]
    BY <2>1, <1>q
  <2>3. \A d \in Commands : d # c => lock'[d] = lock[d]
    BY <1>3 DEF DeviceReceives, TypeOK
  <2>4. \A t \in Sessions : \A i \in DOMAIN down'[t] :
          \/ t # s /\ i \in DOMAIN down[t] /\ down'[t][i] = down[t][i]
          \/ t = s /\ i + 1 \in DOMAIN down[t] /\ down'[t][i] = down[t][i + 1] /\ i \in Nat \ {0}
    <3> DEFINE q == down[s]
    <3>1. \A i \in DOMAIN Tail(q) : i + 1 \in DOMAIN q /\ Tail(q)[i] = q[i + 1] /\ i \in Nat \ {0}
      BY <2>1, <1>q
    <3>2. \A t \in Sessions : down'[t] = IF t = s THEN Tail(q) ELSE down[t]
      BY <2>1 DEF TypeOK
    <3> HIDE DEF q
    <3>3. QED
      BY <3>1, <3>2 DEF q
  <2>5. \A t \in Sessions : \A i \in DOMAIN down'[t] :
          \E d \in Commands : down'[t][i] = d /\ Written(d) /\ lock'[d] = "none"
    <3> TAKE t \in Sessions
    <3> TAKE i \in DOMAIN down'[t]
    <3>1. PICK j : j \in DOMAIN down[t] /\ down'[t][i] = down[t][j] /\ (t = s => j # 1)
      BY <2>4
    <3>2. down[t][j] # c
      BY <2>2, <3>1 DEF DownOK
    <3>3. PICK d \in Commands : d = down[t][j]
      BY <3>1, <1>c
    <3>4. Written(d) /\ lock[d] = "none"
      BY <3>1, <3>3 DEF DownOK
    <3>5. QED
      BY <2>3, <3>1, <3>2, <3>3, <3>4
  <2>6. \A t, u \in Sessions : \A i \in DOMAIN down'[t] : \A j \in DOMAIN down'[u] :
          down'[t][i] = down'[u][j] => t = u /\ i = j
    <3>1. ASSUME NEW t \in Sessions, NEW u \in Sessions, NEW i \in DOMAIN down'[t],
                 NEW j \in DOMAIN down'[u], down'[t][i] = down'[u][j]
          PROVE  t = u /\ i = j
      <4>1. CASE t = s /\ u = s
        <5>1. /\ i + 1 \in DOMAIN down[s] /\ j + 1 \in DOMAIN down[s]
              /\ down[s][i + 1] = down[s][j + 1] /\ i \in Nat /\ j \in Nat
          BY <2>4, <3>1, <4>1
        <5>2. i + 1 = j + 1
          BY <5>1 DEF DownOK
        <5>3. QED
          BY <4>1, <5>1, <5>2
      <4>2. CASE t # s \/ u # s
        BY <2>4, <3>1, <4>2 DEF DownOK
      <4>3. QED
        BY <4>1, <4>2
    <3>2. QED
      BY <3>1
  <2>7. \A d \in Commands : lock'[d] # "none" => Written(d)
    BY <2>2, <2>3, <1>c DEF DownOK
  <2>8. \A d : Written(d)' <=> Written(d)
    BY <2>1 DEF Written
  <2>9. \A t \in Sessions : \A i \in DOMAIN down'[t] :
          \E d \in Commands : down'[t][i] = d /\ Written(d)' /\ lock'[d] = "none"
    BY <2>5, <2>8
  <2>10. \A d \in Commands : lock'[d] # "none" => Written(d)'
    BY <2>7, <2>8
  <2> HIDE DEF c
  <2>11. QED
    BY <2>6, <2>9, <2>10 DEF DownOK, Written
<1>4. QED
  BY <1>1, <1>2, <1>3, DownStep

LEMMA SerialKept ==
  ASSUME CallInv, TransitInv, [Next]_vars
  PROVE  SerialOK'
<1> TypeOK /\ SerialOK /\ WrittenOK /\ PendingOK
  BY DEF CallInv, TransitInv
<1>1. ASSUME NEW c \in Commands, pc'[c] = "idle" PROVE serial'[c] = 0
  BY <1>1, SerialStep DEF SerialOK
<1>2. ASSUME NEW c \in Commands, Written(c)' PROVE serial'[c] # 0
  <2>1. CASE Execute(c)
    BY <2>1, DrawnType DEF Execute, TypeOK
  <2>2. CASE ~Execute(c)
    <3>1. serial'[c] = serial[c]
      BY <2>2, SerialStep
    <3>2. Written(c) \/ Register(c)
      BY <1>2, WrittenStep
    <3>3. CASE Written(c)
      BY <3>1, <3>3 DEF SerialOK
    <3>4. CASE Register(c)
      BY <3>1, <3>4 DEF Register, PendingOK
    <3>5. QED
      BY <3>2, <3>3, <3>4
  <2>3. QED
    BY <2>1, <2>2
<1>3. QED
  BY <1>1, <1>2 DEF SerialOK

LEMMA TellsKept ==
  ASSUME CallInv, TransitInv, [Next]_vars, NEW f \in Frame, Tells(f)
  PROVE  Tells(f)'
<1> TypeOK /\ DownOK /\ WrittenOK
  BY DEF CallInv, TransitInv
<1>1. CASE f.of = NoCommand
  BY <1>1 DEF Tells
<1>2. CASE f.of # NoCommand
  <2> DEFINE c == f.of
  <2>1. c \in Commands
    BY <1>2 DEF Frame, CommandOrNone
  <2>2. lock[c] \in {"refused", "succeeded", "failed"} => lock'[c] = lock[c]
    BY <2>1, LockStep
  <2>3. lock[c] \in {"refused", "succeeded", "failed"} => serial'[c] = serial[c]
    <3>1. ASSUME lock[c] # "none" PROVE pc[c] # "idle"
      BY <2>1, <3>1 DEF DownOK, WrittenOK, Written, NotWritten
    <3>2. QED
      BY <2>1, <3>1, SerialStep DEF Execute
  <2>4. lock[c] # "none" => lock'[c] # "none"
    BY <2>1, LockStep
  <2>5. QED
    BY <1>2, <2>1, <2>2, <2>3, <2>4 DEF Tells
<1>3. QED
  BY <1>1, <1>2

LEMMA UpTells ==
  ASSUME CallInv, TransitInv, [Next]_vars
  PROVE  \A s \in Sessions : \A i \in DOMAIN up'[s] : Tells(up[s][i])'
<1> TypeOK /\ TypeOK' /\ FramesTell
  BY StepInv DEF CallInv, TransitInv
<1>q. \A s \in Sessions : up[s] \in Seq(Frame)
  BY DEF TypeOK
<1>c. \A s \in Sessions : \A i \in DOMAIN up[s] : up[s][i] \in Frame
  BY <1>q
<1>k. \A s \in Sessions : \A i \in DOMAIN up[s] :
        \E f \in Frame : up[s][i] = f /\ Tells(f)'
  BY <1>c, TellsKept DEF FramesTell
<1>1. ASSUME NEW s \in Sessions, NEW f \in Frame, Deliver(s, f), Tells(f)'
      PROVE  \A t \in Sessions : \A i \in DOMAIN up'[t] :
               \E g \in Frame : up'[t][i] = g /\ Tells(g)'
  <2> DEFINE q == up[s]
  <2>1. \A i \in DOMAIN Append(q, f) :
          \/ i \in DOMAIN q /\ Append(q, f)[i] = q[i]
          \/ Append(q, f)[i] = f
    BY <1>q
  <2>2. \A t \in Sessions : up'[t] = IF t = s THEN Append(q, f) ELSE up[t]
    BY <1>1 DEF TypeOK, Deliver
  <2>3. \A i \in DOMAIN Append(q, f) : \E g \in Frame : Append(q, f)[i] = g /\ Tells(g)'
    <3> TAKE i \in DOMAIN Append(q, f)
    <3>1. CASE i \in DOMAIN q /\ Append(q, f)[i] = q[i]
      BY <1>k, <3>1
    <3>2. CASE Append(q, f)[i] = f
      BY <1>1, <3>2
    <3>3. QED
      BY <2>1, <3>1, <3>2
  <2> HIDE DEF q
  <2>4. QED
    BY <1>k, <2>2, <2>3
<1>2. ASSUME \A t \in Sessions : PartOf(up'[t], up[t])
      PROVE  \A t \in Sessions : \A i \in DOMAIN up'[t] :
               \E g \in Frame : up'[t][i] = g /\ Tells(g)'
  BY <1>2, <1>k DEF PartOf
<1>3. ASSUME Device
      PROVE  \A t \in Sessions : \A i \in DOMAIN up'[t] :
               \E g \in Frame : up'[t][i] = g /\ Tells(g)'
  <2>1. CASE up' = up
    BY <1>k, <2>1
  <2>2. ASSUME NEW s \in Sessions, NEW c \in Commands, NEW ok \in BOOLEAN,
               Deliver(s, [NoFrame EXCEPT !.of = c, !.ok = ok]),
               lock'[c] = IF ok THEN "accepted" ELSE "refused"
        PROVE  \A t \in Sessions : \A i \in DOMAIN up'[t] :
                 \E g \in Frame : up'[t][i] = g /\ Tells(g)'
    <3> DEFINE f == [NoFrame EXCEPT !.of = c, !.ok = ok]
    <3>1. NoFrame \in Frame /\ NoFrame.kind = "ack"
      BY NoFrameType DEF NoFrame
    <3>2. f \in Frame /\ f.kind = "ack" /\ f.of = c /\ f.ok = ok
      BY <3>1 DEF Frame, CommandOrNone
    <3>3. Deliver(s, f)
      BY <2>2
    <3> HIDE DEF f
    <3>4. Tells(f)'
      BY <2>2, <3>2 DEF Tells
    <3>5. QED
      BY <1>1, <3>2, <3>3, <3>4
  <2>3. ASSUME NEW s \in Sessions, NEW c \in Commands, NEW ok \in BOOLEAN,
               Deliver(s, Reply(c, ok)),
               lock'[c] = IF ok THEN "succeeded" ELSE "failed"
        PROVE  \A t \in Sessions : \A i \in DOMAIN up'[t] :
                 \E g \in Frame : up'[t][i] = g /\ Tells(g)'
    <3>1. PICK f \in Frame : f = Reply(c, ok)
      BY ReplyType
    <3>2. serial' = serial
      BY <1>3, DeviceFrame DEF calls
    <3>3. /\ f.kind = "reply" /\ f.of = c /\ f.type = TypeOf[c] /\ f.ok = ok
          /\ EchoSerial => f.serial = serial[c]
      BY <3>1 DEF Reply
    <3>4. Tells(f)'
      BY <2>3, <3>2, <3>3 DEF Tells
    <3>5. QED
      BY <1>1, <2>3, <3>1, <3>4
  <2>4. ASSUME NEW s \in Sessions, NEW f \in Frame, Deliver(s, f), f.of = NoCommand
        PROVE  \A t \in Sessions : \A i \in DOMAIN up'[t] :
                 \E g \in Frame : up'[t][i] = g /\ Tells(g)'
    BY <1>1, <2>4 DEF Tells
  <2>5. QED
    BY <1>3, <2>1, <2>2, <2>3, <2>4, DeviceUp
<1>4. \A t \in Sessions : \A i \in DOMAIN up'[t] :
        \E g \in Frame : up'[t][i] = g /\ Tells(g)'
  BY <1>2, <1>3, FewerUp DEF Next
<1>5. QED
  BY <1>4 DEF Tells

\* Only its own steps change what the handler of a session does, unless the
\* frame is given up.
LEMMA HandlerStep ==
  ASSUME TypeOK, [Next]_vars, NEW t \in Sessions
  PROVE  handler'[t] = handler[t] \/ FrameStep(t) \/ handler'[t] = AtRest
<1>1. ASSUME NEW s \in Sessions, FrameStep(s), s # t PROVE handler'[t] = handler[t]
  BY <1>1 DEF FrameStep, ReceiveAck, AckApplied, RejectionFinishes, ReceiveReply, Correlate,
     LateFound, FallBack, ReplyApplied, FollowUpApplied, ReplyFinishes, TypeOK
<1>2. CASE \E c \in Commands : CallStep(c) \/ TimerStep(c)
  BY <1>2, CallFrame, TimerFrame
<1>3. CASE Device \/ Disconnect \/ \E s \in Sessions : Connect(s)
  BY <1>3, ConnectionFrame, DeviceFrame
<1>4. CASE Restart
  BY <1>4 DEF Restart
<1>5. CASE StoreFails
  BY <1>5 DEF StoreFails, TypeOK
<1>6. CASE DayPasses \/ UNCHANGED vars
  BY <1>6 DEF DayPasses, vars
<1>7. QED
  BY <1>1, <1>2, <1>3, <1>4, <1>5, <1>6 DEF Next

\* The steps of a handler, field by field.
LEMMA HandlerMoves ==
  ASSUME TypeOK, NEW s \in Sessions, FrameStep(s)
  PROVE  LET h == handler[s]
             k == handler'[s]
         IN  \/ k = AtRest \/ k = h
             \/ /\ ReceiveAck(s) /\ up[s] # << >> /\ k.at = "acking"
                /\ k.frame = Head(up[s]) /\ k.frame.kind = "ack"
                /\ k.cmd = AckEntry(s, k.frame) /\ k.cmd # NoCommand
             \/ /\ ReceiveReply(s) /\ up[s] # << >> /\ Take(s) /\ k.at = "replying"
                /\ k.frame = Head(up[s]) /\ k.frame.kind = "reply" /\ h.at = "idle"
             \/ AckApplied(s) /\ k.at = "rejected" /\ k.frame = h.frame
             \/ /\ Correlate(s) /\ k.frame = h.frame /\ h.at = "replying"
                /\ \/ /\ k.at = "correlated" /\ k.cmd = pending[h.frame.serial]
                      /\ k.cmd # NoCommand
                   \/ k.at = "finding" /\ pending[h.frame.serial] = NoCommand
             \/ /\ LateFound(s) /\ k.frame = h.frame /\ h.at = "finding" /\ k.at = "found"
                /\ \/ h.frame.serial = 0 \/ Matching(h.frame.serial) = {}
                   \/ k.cmd \in FindCommandByBusinessSerial(h.frame.serial)
             \/ /\ FallBack(s) /\ k.frame = h.frame /\ h.at = "found" /\ k.at = "correlated"
                /\ h.cmd # NoCommand => k.cmd = h.cmd
             \/ /\ ReplyApplied(s) /\ k.frame = h.frame /\ k.cmd = h.cmd
                /\ h.at = "correlated"
                /\ k.at = IF HasFollowUp(h.cmd, h.frame) THEN "completed" ELSE "finishing"
             \/ /\ FollowUpApplied(s) /\ k.frame = h.frame /\ k.cmd = h.cmd
                /\ h.at = "completed" /\ k.at = "finishing"
<1> DEFINE h == handler[s]
           k == handler'[s]
<1>h. h \in Handlers
  BY DEF TypeOK
<1>e. \A x : handler' = [handler EXCEPT ![s] = x] => k = x
  BY DEF TypeOK
<1>f. ASSUME NEW a, k = [h EXCEPT !.at = a]
      PROVE  k.at = a /\ k.frame = h.frame /\ k.cmd = h.cmd
  BY <1>h, <1>f DEF Handlers
<1>1. CASE ReceiveAck(s)
  <2> DEFINE f == Head(up[s])
             c == AckEntry(s, f)
  <2>1. \/ handler' = handler
        \/ /\ c # NoCommand
           /\ handler' = [handler EXCEPT ![s] = [at |-> "acking", frame |-> f, cmd |-> c, entry |-> TRUE]]
    BY <1>1 DEF ReceiveAck
  <2>2. up[s] # << >> /\ f.kind = "ack"
    BY <1>1 DEF ReceiveAck, NextIs
  <2> HIDE DEF f, c
  <2>3. \/ k = h
        \/ c # NoCommand /\ k.at = "acking" /\ k.frame = f /\ k.cmd = c
    BY <2>1, <1>e
  <2>4. QED
    BY <1>1, <2>2, <2>3 DEF f, c
<1>2. CASE AckApplied(s)
  <2>1. \/ handler' = [handler EXCEPT ![s] = AtRest]
        \/ handler' = [handler EXCEPT ![s] = [h EXCEPT !.at = "rejected"]]
    BY <1>2 DEF AckApplied
  <2>2. k = AtRest \/ k = [h EXCEPT !.at = "rejected"]
    BY <2>1, <1>e
  <2>3. k = AtRest \/ (k.at = "rejected" /\ k.frame = h.frame)
    BY <2>2, <1>f
  <2>4. QED
    BY <1>2, <2>3
<1>3. CASE RejectionFinishes(s) \/ ReplyFinishes(s)
  <2>1. handler' = [handler EXCEPT ![s] = AtRest]
    BY <1>3 DEF RejectionFinishes, ReplyFinishes
  <2>2. QED
    BY <2>1, <1>e
<1>4. CASE ReceiveReply(s)
  <2> DEFINE f == Head(up[s])
  <2>1. AtRest \in Handlers
    BY AtRestType
  <2>2. /\ [AtRest EXCEPT !.at = "replying", !.frame = f].at = "replying"
        /\ [AtRest EXCEPT !.at = "replying", !.frame = f].frame = f
    BY <2>1 DEF Handlers
  <2>3. \/ handler' = handler
        \/ handler' = [handler EXCEPT ![s] = [AtRest EXCEPT !.at = "replying", !.frame = f]]
    BY <1>4 DEF ReceiveReply
  <2>4. up[s] # << >> /\ f.kind = "reply" /\ Take(s) /\ h.at = "idle"
    BY <1>4 DEF ReceiveReply, NextIs
  <2> HIDE DEF f
  <2>5. k = h \/ (k.at = "replying" /\ k.frame = f)
    BY <2>2, <2>3, <1>e
  <2>6. QED
    BY <1>4, <2>4, <2>5 DEF f
<1>5. CASE Correlate(s)
  <2>1. \/ /\ pending[h.frame.serial] # NoCommand
           /\ handler' = [handler EXCEPT ![s] = [h EXCEPT !.at = "correlated",
                            !.cmd = pending[h.frame.serial], !.entry = TRUE]]
        \/ /\ pending[h.frame.serial] = NoCommand
           /\ handler' = [handler EXCEPT ![s] = [h EXCEPT !.at = "finding"]]
    BY <1>5 DEF Correlate
  <2>2. h.at = "replying"
    BY <1>5 DEF Correlate
  <2> DEFINE d == pending[h.frame.serial]
  <2>3. \/ d # NoCommand /\ k = [h EXCEPT !.at = "correlated", !.cmd = d, !.entry = TRUE]
        \/ d = NoCommand /\ k = [h EXCEPT !.at = "finding"]
    BY <2>1, <1>e
  <2>4. \/ d # NoCommand /\ k.at = "correlated" /\ k.cmd = d /\ k.frame = h.frame
        \/ d = NoCommand /\ k.at = "finding" /\ k.frame = h.frame
    <3> HIDE DEF h, k, d
    <3>1. CASE d # NoCommand
      BY <2>3, <3>1, <1>h DEF Handlers
    <3>2. CASE d = NoCommand
      BY <2>3, <3>2, <1>h DEF Handlers
    <3>3. QED
      BY <3>1, <3>2
  <2>5. QED
    BY <1>5, <2>2, <2>4
<1>6. CASE LateFound(s)
  <2>1. \/ /\ h.frame.serial = 0 \/ Matching(h.frame.serial) = {}
           /\ handler' = [handler EXCEPT ![s] = [h EXCEPT !.at = "found"]]
        \/ \E c \in FindCommandByBusinessSerial(h.frame.serial) :
             handler' = [handler EXCEPT ![s] = [h EXCEPT !.at = "found", !.cmd = c]]
    BY <1>6 DEF LateFound
  <2>2. h.at = "finding"
    BY <1>6 DEF LateFound
  <2> DEFINE n == h.frame.serial
  <2>3. \/ (n = 0 \/ Matching(n) = {}) /\ k = [h EXCEPT !.at = "found"]
        \/ \E c \in FindCommandByBusinessSerial(n) : k = [h EXCEPT !.at = "found", !.cmd = c]
    BY <2>1, <1>e
  <2>4. \/ (n = 0 \/ Matching(n) = {}) /\ k.at = "found" /\ k.frame = h.frame
        \/ k.cmd \in FindCommandByBusinessSerial(n) /\ k.at = "found" /\ k.frame = h.frame
    <3> HIDE DEF h, k, n
    <3>1. CASE (n = 0 \/ Matching(n) = {}) /\ k = [h EXCEPT !.at = "found"]
      BY <3>1, <1>h DEF Handlers
    <3>2. ASSUME NEW c \in FindCommandByBusinessSerial(n), k = [h EXCEPT !.at = "found", !.cmd = c]
          PROVE  k.cmd = c /\ k.at = "found" /\ k.frame = h.frame
      BY <3>2, <1>h DEF Handlers
    <3>3. QED
      BY <2>3, <3>1, <3>2
  <2>5. QED
    BY <1>6, <2>2, <2>4
<1>7. CASE FallBack(s)
  <2>1. \/ /\ h.cmd # NoCommand
           /\ handler' = [handler EXCEPT ![s] = [h EXCEPT !.at = "correlated"]]
        \/ /\ h.cmd = NoCommand
           /\ \E c : handler' = [handler EXCEPT ![s] =
                                   [h EXCEPT !.at = "correlated", !.cmd = c, !.entry = TRUE]]
        \/ handler' = [handler EXCEPT ![s] = AtRest]
    BY <1>7 DEF FallBack
  <2>2. h.at = "found"
    BY <1>7 DEF FallBack
  <2>3. \/ h.cmd # NoCommand /\ k = [h EXCEPT !.at = "correlated"]
        \/ h.cmd = NoCommand /\ \E c : k = [h EXCEPT !.at = "correlated", !.cmd = c, !.entry = TRUE]
        \/ k = AtRest
    BY <2>1, <1>e
  <2>4. \/ h.cmd # NoCommand /\ k.cmd = h.cmd /\ k.at = "correlated" /\ k.frame = h.frame
        \/ h.cmd = NoCommand /\ k.at = "correlated" /\ k.frame = h.frame
        \/ k = AtRest
    <3> HIDE DEF h, k
    <3>1. CASE h.cmd # NoCommand /\ k = [h EXCEPT !.at = "correlated"]
      BY <3>1, <1>h DEF Handlers
    <3>2. ASSUME NEW c, k = [h EXCEPT !.at = "correlated", !.cmd = c, !.entry = TRUE]
          PROVE  k.at = "correlated" /\ k.frame = h.frame
      BY <3>2, <1>h DEF Handlers
    <3>3. QED
      BY <2>3, <3>1, <3>2
  <2>5. QED
    BY <1>7, <2>2, <2>4
<1>8. CASE ReplyApplied(s)
  <2>1. /\ h.at = "correlated"
        /\ handler' = [handler EXCEPT ![s] = [h EXCEPT !.at =
                         IF HasFollowUp(h.cmd, h.frame) THEN "completed" ELSE "finishing"]]
    BY <1>8 DEF ReplyApplied
  <2>2. QED
    BY <1>8, <2>1, <1>e, <1>f
<1>9. CASE FollowUpApplied(s)
  <2>1. /\ h.at = "completed"
        /\ handler' = [handler EXCEPT ![s] = [h EXCEPT !.at = "finishing"]]
    BY <1>9 DEF FollowUpApplied
  <2>2. QED
    BY <1>9, <2>1, <1>e, <1>f
<1>10. QED
  BY <1>1, <1>2, <1>3, <1>4, <1>5, <1>6, <1>7, <1>8, <1>9 DEF FrameStep

LEMMA HandlersTellFrames ==
  ASSUME CallInv, TransitInv, [Next]_vars, NEW t \in Sessions
  PROVE  /\ \E f \in Frame : handler'[t].frame = f /\ Tells(f)'
         /\ handler'[t].at = "acking" =>
              handler'[t].frame.kind = "ack" /\ handler'[t].cmd = handler'[t].frame.of
<1> TypeOK /\ FramesTell
  BY DEF CallInv, TransitInv
<1> DEFINE h == handler[t]
           k == handler'[t]
<1>1. h \in Handlers /\ h.frame \in Frame /\ Tells(h.frame)
  BY DEF TypeOK, Handlers, FramesTell
<1>2. Tells(NoFrame)' /\ NoFrame \in Frame
  BY NoFrameType DEF Tells, NoFrame
<1>3. ASSUME up[t] # << >> PROVE Head(up[t]) \in Frame /\ Tells(Head(up[t]))
  <2>1. 1 \in DOMAIN up[t] /\ Head(up[t]) = up[t][1] /\ Head(up[t]) \in Frame
    BY <1>3 DEF TypeOK
  <2>2. QED
    BY <2>1 DEF FramesTell
<1>4. \A f \in Frame : Tells(f) => Tells(f)'
  BY TellsKept
<1>5. AtRest.frame = NoFrame /\ AtRest.at # "acking"
  BY DEF AtRest
<1>6. \/ k.frame = h.frame \/ k.frame = NoFrame
      \/ up[t] # << >> /\ k.frame = Head(up[t])
  BY <1>5, HandlerStep, HandlerMoves
<1>7. k.at = "acking" => k.frame.kind = "ack" /\ k.cmd = k.frame.of
  <2>1. CASE k = h
    BY <2>1 DEF FramesTell
  <2>2. CASE k = AtRest
    BY <2>2, <1>5
  <2>3. CASE FrameStep(t) /\ k # h /\ k # AtRest
    <3>1. k.at = "acking" => /\ k.frame.kind = "ack" /\ k.cmd = AckEntry(t, k.frame)
                             /\ k.cmd # NoCommand
      BY <2>3, HandlerMoves
    <3>2. QED
      BY <3>1 DEF AckEntry
  <2>4. QED
    BY <2>1, <2>2, <2>3, HandlerStep
<1>8. \E f \in Frame : k.frame = f /\ Tells(f)'
  BY <1>1, <1>2, <1>3, <1>4, <1>6
<1>9. QED
  BY <1>7, <1>8

LEMMA FramesTellKept ==
  ASSUME CallInv, TransitInv, [Next]_vars
  PROVE  FramesTell'
<1>1. \A s \in Sessions : \A i \in DOMAIN up'[s] : Tells(up[s][i])'
  BY UpTells
<1>2. \A t \in Sessions : Tells(handler[t].frame)'
  BY HandlersTellFrames DEF Tells
<1>3. QED
  BY <1>1, <1>2, HandlersTellFrames DEF FramesTell

\* How the row of a command may change.
RowMoves(c) ==
  LET r == rows[c]
      n == rows'[c]
  IN  \/ n = r
      \/ /\ pc[c] \in {"refusing", "inserting", "failing"}
         /\ n.status \in {"pending", "send_failed"} /\ n.outcome \in {"none", "failure"}
      \/ pc[c] = "marking" /\ n.status = "sent" /\ n.outcome = r.outcome
      \/ n.status = "timeout" /\ n.outcome = "timeout"
      \/ \E s \in Sessions :
           /\ AckApplied(s) /\ handler[s].at = "acking" /\ handler[s].cmd = c
           /\ IF handler[s].frame.ok
              THEN n.status = "acknowledged" /\ n.outcome = r.outcome
              ELSE n.status = "rejected" /\ n.outcome = "failure"
      \/ \E s \in Sessions :
           /\ ReplyApplied(s) /\ handler[s].at = "correlated" /\ handler[s].cmd = c
           /\ n.status = "completed" /\ n.outcome = ReplyOutcome(c, handler[s].frame)
      \/ /\ r.status \in OPEN /\ n.status = "timeout"
         /\ n.outcome = r.outcome \/ n.outcome = "timeout"

LEMMA RowStep ==
  ASSUME TypeOK, [Next]_vars, NEW c \in Commands
  PROVE  RowMoves(c)
<1>s. ASSUME NEW d \in Commands, NEW s, NEW o, SetStatus(d, s, o)
      PROVE  IF d = c THEN rows'[c].status = s /\ rows'[c].outcome = o
                      ELSE rows'[c] = rows[c]
  BY <1>s DEF SetStatus, TypeOK
<1>1. ASSUME NEW d \in Commands, CallStep(d) PROVE RowMoves(c)
  <2>1. \/ rows' = rows
        \/ /\ pc[d] \in {"refusing", "inserting", "failing"}
           /\ \E s \in {"pending", "send_failed"}, o \in {"none", "failure"} : SetStatus(d, s, o)
        \/ pc[d] = "marking" /\ SetStatus(d, "sent", rows[d].outcome)
    BY <1>1 DEF CallStep, Running, Refuse, Execute, RefusalInserted, CommandInserted, Record,
       Register, Failed, Logged, Marked, Noted, Return, WaitExpires, store
  <2>2. QED
    BY <2>1, <1>s DEF RowMoves
<1>2. ASSUME NEW d \in Commands, TimerStep(d) PROVE RowMoves(c)
  <2>1. rows' = rows \/ SetStatus(d, "timeout", "timeout")
    BY <1>2 DEF TimerStep, TimerFires, TimeoutApplied, TimeoutFinishes, store
  <2>2. QED
    BY <2>1, <1>s DEF RowMoves
<1>3. ASSUME NEW s \in Sessions, FrameStep(s) PROVE RowMoves(c)
  <2> DEFINE h == handler[s]
  <2>1. CASE AckApplied(s)
    <3>1. h.at = "acking" /\ rows' = [rows EXCEPT ![h.cmd] = AckRow(h.cmd, h.frame.ok)]
      BY <2>1 DEF AckApplied
    <3>2. CASE h.cmd = c
      <4>1. rows'[c] = AckRow(c, h.frame.ok)
        BY <3>1, <3>2 DEF TypeOK
      <4>2. rows[c] \in Row
        BY DEF TypeOK
      <4>3. IF h.frame.ok
            THEN rows'[c].status = "acknowledged" /\ rows'[c].outcome = rows[c].outcome
            ELSE rows'[c].status = "rejected" /\ rows'[c].outcome = "failure"
        BY <4>1, <4>2 DEF AckRow, Row
      <4>4. QED
        BY <2>1, <3>1, <3>2, <4>3 DEF RowMoves
    <3>3. CASE h.cmd # c
      BY <3>1, <3>3 DEF RowMoves, TypeOK
    <3>4. QED
      BY <3>2, <3>3
  <2>2. CASE ReplyApplied(s)
    <3>1. h.at = "correlated" /\ SetStatus(h.cmd, "completed", ReplyOutcome(h.cmd, h.frame))
      BY <2>2 DEF ReplyApplied
    <3>2. h.cmd \in Commands
      BY <3>1 DEF TypeOK, WithCommand, Handlers, CommandOrNone
    <3>3. QED
      BY <2>2, <3>1, <3>2, <1>s DEF RowMoves
  <2>3. CASE ~(AckApplied(s) \/ ReplyApplied(s))
    <3>1. rows' = rows
      BY <1>3, <2>3 DEF FrameStep, ReceiveAck, RejectionFinishes, ReceiveReply, Correlate, LateFound,
         FallBack, FollowUpApplied, ReplyFinishes, store
    <3>2. QED
      BY <3>1 DEF RowMoves
  <2>4. QED
    BY <2>1, <2>2, <2>3
<1>4. CASE Device \/ Disconnect \/ \E s \in Sessions : Connect(s)
  BY <1>4, ConnectionFrame, DeviceFrame DEF store, RowMoves
<1>5. CASE Restart
  <2>1. rows'[c] = Recovered(c)
    BY <1>5 DEF Restart
  <2>2. \/ rows'[c] = rows[c]
        \/ /\ rows[c].status \in OPEN /\ rows'[c].status = "timeout"
           /\ rows'[c].outcome = rows[c].outcome \/ rows'[c].outcome = "timeout"
    BY <2>1 DEF Recovered, Open
  <2>3. QED
    BY <2>2 DEF RowMoves
<1>6. CASE DayPasses \/ StoreFails \/ UNCHANGED vars
  <2>1. rows' = rows
    BY <1>6 DEF DayPasses, StoreFails, vars, store
  <2>2. QED
    BY <2>1 DEF RowMoves
<1>7. QED
  BY <1>1, <1>2, <1>3, <1>4, <1>5, <1>6 DEF Next

LEMMA RejectedKept ==
  ASSUME CallInv, TransitInv, [Next]_vars
  PROVE  RejectedOK'
<1> TypeOK /\ FramesTell /\ RejectedOK /\ DownOK
  BY DEF CallInv, TransitInv
<1>1. ASSUME NEW c \in Commands, rows'[c].status = "rejected" PROVE lock[c] = "refused"
  <2>1. \/ rows[c].status = "rejected"
        \/ \E s \in Sessions : handler[s].at = "acking" /\ handler[s].cmd = c /\ ~handler[s].frame.ok
    BY <1>1, RowStep DEF RowMoves
  <2>2. ASSUME NEW s \in Sessions, handler[s].at = "acking", handler[s].cmd = c, ~handler[s].frame.ok
        PROVE  lock[c] = "refused"
    <3>1. /\ handler[s].frame.kind = "ack" /\ handler[s].frame.of = c /\ Tells(handler[s].frame)
          /\ c # NoCommand
      BY <2>2, CommandAssumption DEF FramesTell
    <3>2. QED
      BY <2>2, <3>1 DEF Tells
  <2>3. QED
    BY <2>1, <2>2 DEF RejectedOK
<1>2. QED
  BY <1>1, LockStep DEF RejectedOK

LEMMA InitTransit == Init => TransitInv
<1> SUFFICES ASSUME Init PROVE TransitInv
  OBVIOUS
<1>1. DownOK /\ SerialOK /\ RejectedOK
  BY DEF Init, DownOK, SerialOK, RejectedOK, Written, NoRow
<1>2. FramesTell
  BY DEF Init, FramesTell, AtRest, NoFrame, Tells
<1>3. QED
  BY <1>1, <1>2 DEF TransitInv

LEMMA StepTransit ==
  ASSUME CallInv, TransitInv, [Next]_vars
  PROVE  TransitInv'
BY DownKept, SerialKept, FramesTellKept, RejectedKept DEF TransitInv

-----------------------------------------------------------------------------
(***************************************************************************)
(* OneReply is inductive                                                   *)
(***************************************************************************)

LEMMA RetransmitGrows ==
  ASSUME TypeOK, [Next]_vars
  PROVE  /\ used'.retransmit = 0 => used.retransmit = 0
         /\ used'.late = 0 => used.late = 0
<1>0. used \in Usage
  BY DEF TypeOK
<1>1. \/ used' = used
      \/ used' = [used EXCEPT !.keypad = @ + 1]
      \/ used' = [used EXCEPT !.retransmit = @ + 1]
      \/ used' = [used EXCEPT !.disconnect = @ + 1]
      \/ used' = [used EXCEPT !.restart = @ + 1]
      \/ used' = [used EXCEPT !.failure = @ + 1]
      \/ used' = [used EXCEPT !.day = @ + 1]
      \/ used' = [used EXCEPT !.late = @ + 1]
  <2>1. CASE \/ \E c \in Commands : CallStep(c) \/ TimerStep(c)
             \/ \E s \in Sessions : FrameStep(s)
    BY <2>1, CallFrame, TimerFrame, FrameFrame
  <2>2. CASE \/ \E s \in Sessions : Connect(s)
             \/ Disconnect \/ Restart \/ DayPasses \/ StoreFails \/ UNCHANGED vars
    BY <2>2 DEF Connect, Disconnect, Restart, DayPasses, StoreFails, vars
  <2>3. CASE Device
    BY <2>3 DEF Device, DeviceReceives, DeviceOperates, DeviceRetransmits, Keypad
  <2>4. QED
    BY <2>1, <2>2, <2>3 DEF Next
<1>2. /\ used'.retransmit = used.retransmit \/ used'.retransmit = used.retransmit + 1
      /\ used'.late = used.late \/ used'.late = used.late + 1
  BY <1>0, <1>1 DEF Usage
<1>3. QED
  BY <1>0, <1>2 DEF Usage

\* The conditions on the device and on the serials once lost stay lost.
LEMMA PlainBefore ==
  ASSUME CallInv, TransitInv, [Next]_vars, Plain'
  PROVE  Plain
<1> TypeOK /\ SerialOK
  BY DEF CallInv, TransitInv
<1>1. \A c \in Commands : serial[c] # 0 => serial'[c] = serial[c]
  BY SerialStep DEF Execute, SerialOK
<1>2. NoSerialReuse
  BY <1>1 DEF Plain, NoSerialReuse
<1>3. QED
  BY <1>2, RetransmitGrows DEF Plain

\* A reply comes to be correlated from the head of its session's frames.
LEMMA ProcessesStep ==
  ASSUME TypeOK, [Next]_vars, NEW t \in Sessions, NEW c \in Commands,
         Processes(handler'[t], c)
  PROVE  \/ Processes(handler[t], c)
         \/ /\ ReceiveReply(t) /\ up[t] # << >> /\ Take(t)
            /\ IsReplyOf(Head(up[t]), c)
<1> DEFINE h == handler[t]
           k == handler'[t]
<1>1. k.at \in {"replying", "finding", "found", "correlated"} /\ k.frame.of = c
  BY DEF Processes
<1>2. CASE k = AtRest
  BY <1>1, <1>2 DEF AtRest
<1>3. CASE k = h
  BY <1>3, <1>1 DEF Processes
<1>4. CASE FrameStep(t) /\ k # AtRest /\ k # h
  <2>1. \/ /\ k.frame = h.frame /\ h.at \in {"replying", "finding", "found", "correlated"}
        \/ /\ ReceiveReply(t) /\ up[t] # << >> /\ Take(t)
           /\ k.frame = Head(up[t]) /\ k.frame.kind = "reply"
    BY <1>1, <1>4, HandlerMoves
  <2>2. QED
    BY <1>1, <2>1 DEF Processes, IsReplyOf
<1>5. QED
  BY <1>2, <1>3, <1>4, HandlerStep

LEMMA OneReplyKept ==
  ASSUME CallInv, TransitInv, OneReply, [Next]_vars
  PROVE  OneReply'
<1> SUFFICES ASSUME used'.retransmit = 0, NEW c \in Commands
    PROVE  /\ \A s, t \in Sessions : \A i \in DOMAIN up'[s] : \A j \in DOMAIN up'[t] :
                IsReplyOf(up'[s][i], c) /\ IsReplyOf(up'[t][j], c) => s = t /\ i = j
           /\ \A s, t \in Sessions : \A i \in DOMAIN up'[s] :
                ~(IsReplyOf(up'[s][i], c) /\ Processes(handler'[t], c))
           /\ \A s, t \in Sessions :
                Processes(handler'[s], c) /\ Processes(handler'[t], c) => s = t
  BY DEF OneReply, IsReplyOf, Processes
<1> TypeOK /\ FramesTell
  BY DEF CallInv, TransitInv
<1>q. \A s \in Sessions : up[s] \in Seq(Frame)
  BY DEF TypeOK
<1>u. \A s \in Sessions : DOMAIN up[s] \subseteq Nat
  BY <1>q
<1>v. \A s \in Sessions : DOMAIN up'[s] \subseteq Nat
  <2>1. TypeOK'
    BY StepInv DEF CallInv
  <2>2. QED
    BY <2>1 DEF TypeOK
<1>a. /\ \A s, t \in Sessions : \A i \in DOMAIN up[s] : \A j \in DOMAIN up[t] :
           IsReplyOf(up[s][i], c) /\ IsReplyOf(up[t][j], c) => s = t /\ i = j
      /\ \A s, t \in Sessions : \A i \in DOMAIN up[s] :
           ~(IsReplyOf(up[s][i], c) /\ Processes(handler[t], c))
      /\ \A s, t \in Sessions :
           Processes(handler[s], c) /\ Processes(handler[t], c) => s = t
  BY RetransmitGrows DEF OneReply
<1>1. CASE /\ \A t \in Sessions : PartOf(up'[t], up[t])
           /\ \A t \in Sessions : Processes(handler'[t], c) => Processes(handler[t], c)
  <2>1. \A s \in Sessions : \A i \in DOMAIN up'[s] :
          IsReplyOf(up'[s][i], c) => \E m \in DOMAIN up[s] : IsReplyOf(up[s][m], c)
    BY <1>1 DEF PartOf
  <2>2. \A s \in Sessions : \A i, j \in DOMAIN up'[s] :
          IsReplyOf(up'[s][i], c) /\ IsReplyOf(up'[s][j], c) => i = j
    <3>1. ASSUME NEW s \in Sessions, NEW i \in DOMAIN up'[s], NEW j \in DOMAIN up'[s],
                 IsReplyOf(up'[s][i], c), IsReplyOf(up'[s][j], c)
          PROVE  i = j
      <4>1. PICK k \in Nat : \A m \in DOMAIN up'[s] :
                               m + k \in DOMAIN up[s] /\ up'[s][m] = up[s][m + k]
        BY <1>1 DEF PartOf
      <4>2. i + k = j + k
        BY <1>a, <3>1, <4>1
      <4>3. QED
        BY <1>v, <4>1, <4>2
    <3>2. QED
      BY <3>1
  <2>3. \A s, t \in Sessions : \A i \in DOMAIN up'[s] : \A j \in DOMAIN up'[t] :
          IsReplyOf(up'[s][i], c) /\ IsReplyOf(up'[t][j], c) => s = t
    BY <1>a, <2>1
  <2>4. QED
    BY <1>1, <1>a, <2>1, <2>2, <2>3
<1>2. ASSUME NEW s \in Sessions, ReceiveReply(s), up[s] # << >>, Take(s),
             IsReplyOf(Head(up[s]), c)
      PROVE  /\ \A t \in Sessions : \A i \in DOMAIN up'[t] : ~IsReplyOf(up'[t][i], c)
             /\ \A t \in Sessions : Processes(handler'[t], c) => t = s
  <2>1. 1 \in DOMAIN up[s] /\ Head(up[s]) = up[s][1]
    BY <1>2, <1>q
  <2>2. \A t \in Sessions : up'[t] = IF t = s THEN Tail(up[s]) ELSE up[t]
    BY <1>2 DEF Take, TypeOK
  <2>3. \A i \in DOMAIN Tail(up[s]) : i + 1 \in DOMAIN up[s] /\ Tail(up[s])[i] = up[s][i + 1]
                                      /\ i + 1 # 1
    BY <1>2, <1>q
  <2>4. \A t \in Sessions : \A i \in DOMAIN up[t] : IsReplyOf(up[t][i], c) => t = s /\ i = 1
    BY <1>2, <1>a, <2>1
  <2>5. \A t \in Sessions : \A i \in DOMAIN up'[t] : ~IsReplyOf(up'[t][i], c)
    <3> SUFFICES ASSUME NEW t \in Sessions, NEW i \in DOMAIN up'[t] PROVE ~IsReplyOf(up'[t][i], c)
      OBVIOUS
    <3>1. CASE t = s
      <4>1. i + 1 \in DOMAIN up[s] /\ up'[t][i] = up[s][i + 1] /\ i + 1 # 1
        BY <2>2, <2>3, <3>1
      <4>2. QED
        BY <2>4, <4>1
    <3>2. CASE t # s
      BY <2>2, <2>4, <3>2
    <3>3. QED
      BY <3>1, <3>2
  <2>6. \A t \in Sessions : ~Processes(handler[t], c)
    BY <1>2, <1>a, <2>1
  <2>7. \A t \in Sessions : t # s => handler'[t] = handler[t]
    BY <1>2 DEF ReceiveReply, TypeOK
  <2>8. QED
    BY <2>5, <2>6, <2>7
<1>3. CASE Device
  <2>h. handler' = handler
    BY <1>3, DeviceFrame
  <2>1. CASE up' = up
    BY <1>a, <2>1, <2>h
  <2>n. ASSUME NEW s \in Sessions, NEW f \in Frame, Deliver(s, f)
        PROVE  \A t \in Sessions : \A i \in DOMAIN up'[t] :
                 \/ i \in DOMAIN up[t] /\ up'[t][i] = up[t][i]
                 \/ t = s /\ i = Len(up[s]) + 1 /\ up'[t][i] = f
    <3> DEFINE q == up[s]
    <3>1. \A i \in DOMAIN Append(q, f) :
            \/ i \in DOMAIN q /\ Append(q, f)[i] = q[i]
            \/ i = Len(q) + 1 /\ Append(q, f)[i] = f
      BY <1>q
    <3>2. \A t \in Sessions : up'[t] = IF t = s THEN Append(q, f) ELSE up[t]
      BY <2>n DEF TypeOK, Deliver
    <3> HIDE DEF q
    <3>3. QED
      BY <3>1, <3>2 DEF q
  <2>2. ASSUME NEW s \in Sessions, NEW f \in Frame, Deliver(s, f), ~IsReplyOf(f, c)
        PROVE  \A t \in Sessions : \A i \in DOMAIN up'[t] :
                 IsReplyOf(up'[t][i], c) => i \in DOMAIN up[t] /\ up'[t][i] = up[t][i]
    BY <2>2, <2>n
  <2>3. CASE \A t \in Sessions : \A i \in DOMAIN up'[t] :
                 IsReplyOf(up'[t][i], c) => i \in DOMAIN up[t] /\ up'[t][i] = up[t][i]
    BY <1>a, <2>3, <2>h
  <2>4. ASSUME NEW s \in Sessions, NEW f \in Frame, Deliver(s, f), IsReplyOf(f, c),
               lock[c] = "accepted"
        PROVE  /\ \A t \in Sessions : \A i \in DOMAIN up'[t] :
                    IsReplyOf(up'[t][i], c) => t = s /\ i = Len(up[s]) + 1
               /\ \A t \in Sessions : ~Processes(handler'[t], c)
    <3>1. \A t \in Sessions : \A i \in DOMAIN up[t] : ~IsReplyOf(up[t][i], c)
      BY <2>4, CommandAssumption DEF FramesTell, Tells, IsReplyOf
    <3>2. \A t \in Sessions : ~Processes(handler[t], c)
      <4>1. \A t \in Sessions : Processes(handler[t], c) => handler[t].frame.kind = "reply"
        BY DEF Processes, CallInv, HandlersOK, HandlerOK
      <4>2. ASSUME NEW t \in Sessions, Processes(handler[t], c) PROVE FALSE
        <5>1. /\ handler[t].frame.kind = "reply" /\ handler[t].frame.of = c
              /\ Tells(handler[t].frame) /\ c # NoCommand
          BY <4>1, <4>2, CommandAssumption DEF FramesTell, Processes
        <5>2. lock[c] \in {"succeeded", "failed"}
          BY <5>1 DEF Tells
        <5>3. QED
          BY <2>4, <5>2
      <4>3. QED
        BY <4>2
    <3>3. QED
      BY <2>4, <2>h, <2>n, <3>1, <3>2
  <2>5. ASSUME NEW s \in Sessions, NEW d \in Commands, NEW ok \in BOOLEAN,
               Deliver(s, [NoFrame EXCEPT !.of = d, !.ok = ok])
        PROVE  \E f \in Frame : Deliver(s, f) /\ ~IsReplyOf(f, c)
    <3>1. NoFrame \in Frame /\ NoFrame.kind = "ack"
      BY NoFrameType DEF NoFrame
    <3>2. /\ [NoFrame EXCEPT !.of = d, !.ok = ok] \in Frame
          /\ [NoFrame EXCEPT !.of = d, !.ok = ok].kind = "ack"
      BY <3>1 DEF Frame, CommandOrNone
    <3>3. QED
      BY <2>5, <3>2 DEF IsReplyOf
  <2>6. ASSUME NEW s \in Sessions, NEW d \in Commands, NEW ok \in BOOLEAN,
               Deliver(s, Reply(d, ok)), lock[d] = "accepted"
        PROVE  \E f \in Frame : Deliver(s, f) /\ (IsReplyOf(f, c) => lock[c] = "accepted")
    <3>1. Reply(d, ok) \in Frame /\ Reply(d, ok).of = d
      BY ReplyType DEF Reply
    <3>2. QED
      BY <2>6, <3>1 DEF IsReplyOf
  <2>7. \/ up' = up
        \/ \E s \in Sessions, f \in Frame : Deliver(s, f) /\ (IsReplyOf(f, c) => lock[c] = "accepted")
    <3>1. \A f \in Frame : f.of = NoCommand => ~IsReplyOf(f, c)
      BY CommandAssumption DEF IsReplyOf
    <3>2. QED
      BY <1>3, <2>5, <2>6, <3>1, DeviceUp
  <2>8. ASSUME NEW s \in Sessions, NEW f \in Frame, Deliver(s, f), IsReplyOf(f, c) => lock[c] = "accepted"
        PROVE  /\ \A t, u \in Sessions : \A i \in DOMAIN up'[t] : \A j \in DOMAIN up'[u] :
                    IsReplyOf(up'[t][i], c) /\ IsReplyOf(up'[u][j], c) => t = u /\ i = j
               /\ \A t, u \in Sessions : \A i \in DOMAIN up'[t] :
                    ~(IsReplyOf(up'[t][i], c) /\ Processes(handler'[u], c))
               /\ \A t, u \in Sessions :
                    Processes(handler'[t], c) /\ Processes(handler'[u], c) => t = u
    <3>1. CASE IsReplyOf(f, c)
      BY <2>4, <2>8, <3>1
    <3>2. CASE ~IsReplyOf(f, c)
      BY <2>2, <2>3, <2>8, <3>2
    <3>3. QED
      BY <3>1, <3>2
  <2>9. QED
    BY <2>1, <2>7, <2>8
<1>4. CASE ~Device
  <2>1. \A t \in Sessions : PartOf(up'[t], up[t])
    BY <1>4, FewerUp DEF Next
  <2>2. QED
    BY <1>1, <1>2, <2>1, ProcessesStep
<1>5. QED
  BY <1>3, <1>4

-----------------------------------------------------------------------------
(***************************************************************************)
(* CorrelationInv is inductive                                             *)
(***************************************************************************)

\* A command whose reply is awaited was written, and not refused.
LEMMA AwaitsLock ==
  ASSUME TypeOK, HandlersOK, DownOK, FramesTell, NEW c \in Commands, Awaits(c)
  PROVE  Written(c) /\ lock[c] # "refused"
<1>1. CASE Written(c) /\ lock[c] \in {"none", "accepted"}
  BY <1>1
<1>2. ASSUME NEW s \in Sessions, NEW i \in DOMAIN up[s], IsReplyOf(up[s][i], c)
      PROVE  lock[c] \in {"succeeded", "failed"}
  <2>1. Tells(up[s][i]) /\ c # NoCommand
    BY CommandAssumption DEF FramesTell
  <2>2. QED
    BY <1>2, <2>1 DEF Tells, IsReplyOf
<1>3. ASSUME NEW s \in Sessions, Processes(handler[s], c)
      PROVE  lock[c] \in {"succeeded", "failed"}
  <2>1. /\ Tells(handler[s].frame) /\ c # NoCommand /\ handler[s].frame.kind = "reply"
        /\ handler[s].frame.of = c
    BY <1>3, CommandAssumption DEF FramesTell, Processes, HandlersOK, HandlerOK
  <2>2. QED
    BY <2>1 DEF Tells
<1>4. QED
  BY <1>1, <1>2, <1>3 DEF Awaits, DownOK

\* A command comes to be awaited when its frame is written.
LEMMA AwaitsStep ==
  ASSUME CallInv, TransitInv, [Next]_vars, used'.retransmit = 0,
         NEW c \in Commands, Awaits(c)'
  PROVE  Awaits(c) \/ Register(c)
<1> TypeOK /\ DownOK
  BY DEF CallInv, TransitInv
<1>1. CASE Written(c)' /\ lock'[c] \in {"none", "accepted"}
  <2>1. lock[c] \in {"none", "accepted"}
    BY <1>1, LockStep
  <2>2. Written(c) \/ Register(c)
    BY <1>1, WrittenStep
  <2>3. QED
    BY <2>1, <2>2 DEF Awaits
<1>2. ASSUME NEW s \in Sessions, NEW i \in DOMAIN up'[s], IsReplyOf(up'[s][i], c)
      PROVE  Awaits(c)
  <2>1. CASE \A t \in Sessions : PartOf(up'[t], up[t])
    <3>1. PICK j \in DOMAIN up[s] : up'[s][i] = up[s][j]
      BY <2>1 DEF PartOf
    <3>2. QED
      BY <1>2, <3>1 DEF Awaits
  <2>d. ASSUME NEW t \in Sessions, NEW f \in Frame, Deliver(t, f)
        PROVE  (i \in DOMAIN up[s] /\ up'[s][i] = up[s][i]) \/ up'[s][i] = f
    <3> DEFINE q == up[t]
    <3>1. \A m \in DOMAIN Append(q, f) :
            (m \in DOMAIN q /\ Append(q, f)[m] = q[m]) \/ Append(q, f)[m] = f
      <4>1. q \in Seq(Frame)
        BY DEF TypeOK
      <4>2. QED
        BY <4>1
    <3>2. \A u \in Sessions : up'[u] = IF u = t THEN Append(q, f) ELSE up[u]
      BY <2>d DEF TypeOK, Deliver
    <3> HIDE DEF q
    <3>3. QED
      BY <3>1, <3>2 DEF q
  <2>2. CASE Device
    <3>1. ASSUME NEW t \in Sessions, NEW d \in Commands, NEW ok \in BOOLEAN,
                 Deliver(t, [NoFrame EXCEPT !.of = d, !.ok = ok])
          PROVE  Awaits(c)
      <4>1. NoFrame \in Frame /\ NoFrame.kind = "ack"
        BY NoFrameType DEF NoFrame
      <4>2. /\ [NoFrame EXCEPT !.of = d, !.ok = ok] \in Frame
            /\ [NoFrame EXCEPT !.of = d, !.ok = ok].kind = "ack"
        BY <4>1 DEF Frame, CommandOrNone
      <4>3. QED
        BY <1>2, <2>d, <3>1, <4>2 DEF IsReplyOf, Awaits
    <3>2. ASSUME NEW t \in Sessions, NEW d \in Commands, NEW ok \in BOOLEAN,
                 Deliver(t, Reply(d, ok)), lock[d] = "accepted"
          PROVE  Awaits(c)
      <4>1. Reply(d, ok) \in Frame /\ Reply(d, ok).of = d
        BY ReplyType DEF Reply
      <4>2. CASE d = c
        BY <3>2, <4>2 DEF Awaits, DownOK
      <4>3. CASE d # c
        BY <1>2, <2>d, <3>2, <4>1, <4>3 DEF IsReplyOf, Awaits
      <4>4. QED
        BY <4>2, <4>3
    <3>3. ASSUME NEW t \in Sessions, NEW f \in Frame, Deliver(t, f), f.of = NoCommand
          PROVE  Awaits(c)
      BY <1>2, <2>d, <3>3, CommandAssumption DEF IsReplyOf, Awaits
    <3>4. CASE up' = up
      BY <1>2, <3>4 DEF Awaits
    <3>5. QED
      BY <2>2, <3>1, <3>2, <3>3, <3>4, DeviceUp
  <2>3. QED
    BY <2>1, <2>2, FewerUp DEF Next
<1>3. ASSUME NEW s \in Sessions, Processes(handler'[s], c)
      PROVE  Awaits(c)
  <2>1. CASE Processes(handler[s], c)
    BY <2>1 DEF Awaits
  <2>2. CASE up[s] # << >> /\ IsReplyOf(Head(up[s]), c)
    <3>1. 1 \in DOMAIN up[s] /\ Head(up[s]) = up[s][1]
      BY <2>2 DEF TypeOK
    <3>2. QED
      BY <2>2, <3>1 DEF Awaits
  <2>3. QED
    BY <1>3, <2>1, <2>2, ProcessesStep
<1>4. \/ Written(c)' /\ lock'[c] \in {"none", "accepted"}
      \/ \E s \in Sessions : \E i \in DOMAIN up'[s] : IsReplyOf(up'[s][i], c)
      \/ \E s \in Sessions : Processes(handler'[s], c)
  BY DEF Awaits, IsReplyOf, Processes
<1>5. QED
  BY <1>1, <1>2, <1>3, <1>4

\* A handler that completes a row completes the row of the reply's command,
\* whose reply that was.
LEMMA AppliedOnce ==
  ASSUME CallInv, TransitInv, CorrelationInv, Plain, NEW s \in Sessions, ReplyApplied(s),
         NEW c \in Commands, handler[s].cmd = c
  PROVE  /\ handler[s].frame.of = c /\ handler[s].frame.kind = "reply"
         /\ lock[c] = (IF handler[s].frame.ok THEN "succeeded" ELSE "failed")
         /\ Written(c) /\ ~Awaits(c)'
<1> TypeOK /\ DownOK /\ FramesTell /\ HandlersOK
  BY DEF CallInv, TransitInv
<1> DEFINE h == handler[s]
<1>1. h.at = "correlated"
  BY DEF ReplyApplied
<1>2. h.frame.of = c /\ h.frame.kind = "reply" /\ c # NoCommand
  BY <1>1, CommandAssumption DEF HandlersOK, HandlerOK, CorrelationInv, HandlersTell
<1>3. lock[c] = IF h.frame.ok THEN "succeeded" ELSE "failed"
  BY <1>2 DEF FramesTell, Tells
<1>4. Processes(h, c)
  BY <1>1, <1>2 DEF Processes
<1>5. /\ \A t \in Sessions : \A i \in DOMAIN up[t] : ~IsReplyOf(up[t][i], c)
      /\ \A t \in Sessions : Processes(handler[t], c) => t = s
  BY <1>4 DEF CorrelationInv, OneReply, Plain
<1>6. up' = up /\ lock' = lock
  BY DEF ReplyApplied, wire
<1>7. handler'[s].at \in {"completed", "finishing"}
  BY DEF ReplyApplied, TypeOK, Handlers
<1>8. \A t \in Sessions : t # s => handler'[t] = handler[t]
  BY DEF ReplyApplied, TypeOK
<1>9. \A t \in Sessions : ~Processes(handler'[t], c)
  <2>1. ~Processes(handler'[s], c)
    BY <1>7 DEF Processes
  <2>2. QED
    BY <1>5, <1>8, <2>1
<1>10. ~Awaits(c)'
  <2>1. lock'[c] \notin {"none", "accepted"}
    BY <1>3, <1>6
  <2>2. \A t \in Sessions : \A i \in DOMAIN up'[t] : ~IsReplyOf(up'[t][i], c)
    BY <1>5, <1>6
  <2>3. Awaits(c)' => \/ lock'[c] \in {"none", "accepted"}
                      \/ \E t \in Sessions : \E i \in DOMAIN up'[t] : IsReplyOf(up'[t][i], c)
                      \/ \E t \in Sessions : Processes(handler'[t], c)
    BY DEF Awaits, IsReplyOf, Processes
  <2>4. QED
    BY <1>9, <2>1, <2>2, <2>3
<1>11. QED
  BY <1>2, <1>3, <1>10 DEF DownOK

LEMMA RowsTellKept ==
  ASSUME CallInv, TransitInv, CorrelationInv, [Next]_vars
  PROVE  RowsTell'
<1> SUFFICES ASSUME Plain', NEW c \in Commands
    PROVE  /\ Awaits(c)' => rows'[c].status \in OPEN \cup {"timeout"}
           /\ rows'[c].status = "completed" => Written(c)'
           /\ rows'[c].outcome = "success" => lock'[c] = "succeeded"
  BY DEF RowsTell, Awaits, Written
<1> TypeOK /\ DownOK /\ HandlersOK /\ FramesTell /\ RejectedOK /\ WrittenOK
  BY DEF CallInv, TransitInv
<1>p. Plain /\ used'.retransmit = 0
  BY PlainBefore DEF Plain
<1>r. /\ Awaits(c) => rows[c].status \in OPEN \cup {"timeout"}
      /\ rows[c].status = "completed" => Written(c)
      /\ rows[c].outcome = "success" => lock[c] = "succeeded"
  BY <1>p DEF CorrelationInv, RowsTell
<1>t. rows[c].status \in {"none"} \cup OPEN \cup FINAL
  BY DEF TypeOK, Row
<1>l. lock[c] = "succeeded" => lock'[c] = "succeeded"
  BY LockStep
<1>w. Written(c) => Written(c)' /\ pc[c] \notin NotWritten
  BY WrittenStep DEF WrittenOK, Written
<1>a. Awaits(c)' => Awaits(c) \/ Register(c)
  BY <1>p, AwaitsStep
<1>f. ASSUME Awaits(c)' PROVE lock'[c] # "refused"
  <2>1. TypeOK' /\ HandlersOK' /\ DownOK' /\ FramesTell'
    BY StepInv, StepTransit DEF CallInv, TransitInv
  <2>2. ASSUME NEW s \in Sessions, NEW i \in DOMAIN up'[s], IsReplyOf(up'[s][i], c)
        PROVE  lock'[c] # "refused"
    <3>1. Tells(up[s][i])' /\ c # NoCommand
      BY <2>1, CommandAssumption DEF FramesTell
    <3>2. QED
      BY <2>2, <3>1 DEF Tells, IsReplyOf
  <2>3. ASSUME NEW s \in Sessions, Processes(handler'[s], c)
        PROVE  lock'[c] # "refused"
    <3>1. /\ Tells(handler[s].frame)' /\ c # NoCommand /\ handler'[s].frame.kind = "reply"
          /\ handler'[s].frame.of = c
      BY <2>1, <2>3, CommandAssumption DEF FramesTell, Processes, HandlersOK, HandlerOK
    <3>2. QED
      BY <3>1 DEF Tells
  <2>4. Awaits(c)' => \/ lock'[c] \in {"none", "accepted"}
                      \/ \E t \in Sessions : \E i \in DOMAIN up'[t] : IsReplyOf(up'[t][i], c)
                      \/ \E t \in Sessions : Processes(handler'[t], c)
    BY DEF Awaits, IsReplyOf, Processes
  <2>5. QED
    BY <1>f, <2>2, <2>3, <2>4
<1>n. Awaits(c) => pc[c] \notin NotWritten
  BY <1>w, AwaitsLock
<1>1. CASE rows'[c] = rows[c]
  <2>1. ASSUME Register(c) PROVE rows[c].status \in OPEN \cup {"timeout"}
    <3>1. pc[c] = "inserted"
      BY <2>1 DEF Register
    <3>2. ~Written(c)
      BY <1>w, <3>1 DEF NotWritten
    <3>3. rows[c].status \notin {"none", "send_failed", "completed", "rejected"}
      BY <1>r, <3>1, <3>2 DEF WrittenOK, RejectedOK, DownOK
    <3>4. QED
      BY <1>t, <3>3 DEF FINAL
  <2>2. QED
    BY <1>1, <1>r, <1>l, <1>w, <1>a, <2>1
<1>2. CASE /\ pc[c] \in {"refusing", "inserting", "failing"}
           /\ rows'[c].status \in {"pending", "send_failed"}
           /\ rows'[c].outcome \in {"none", "failure"}
  <2>1. ~Awaits(c)'
    BY <1>2, <1>a, <1>n DEF NotWritten, Register
  <2>2. QED
    BY <1>2, <2>1
<1>3. CASE rows'[c].status = "sent" /\ rows'[c].outcome = rows[c].outcome
  BY <1>3, <1>r, <1>l DEF OPEN
<1>4. CASE rows'[c].status = "timeout" /\ rows'[c].outcome \in {"timeout", rows[c].outcome}
  BY <1>4, <1>r, <1>l
<1>5. ASSUME NEW s \in Sessions, handler[s].at = "acking", handler[s].cmd = c,
             IF handler[s].frame.ok
             THEN rows'[c].status = "acknowledged" /\ rows'[c].outcome = rows[c].outcome
             ELSE rows'[c].status = "rejected" /\ rows'[c].outcome = "failure"
      PROVE  /\ Awaits(c)' => rows'[c].status \in OPEN \cup {"timeout"}
             /\ rows'[c].status = "completed" => Written(c)'
             /\ rows'[c].outcome = "success" => lock'[c] = "succeeded"
  <2>1. CASE handler[s].frame.ok
    BY <1>5, <1>r, <1>l, <2>1 DEF OPEN
  <2>2. CASE ~handler[s].frame.ok
    <3>1. /\ handler[s].frame.kind = "ack" /\ handler[s].frame.of = c /\ Tells(handler[s].frame)
          /\ c # NoCommand
      BY <1>5, CommandAssumption DEF FramesTell
    <3>2. lock[c] = "refused"
      BY <2>2, <3>1 DEF Tells
    <3>3. lock'[c] = "refused"
      BY <3>2, LockStep
    <3>4. QED
      BY <1>5, <1>f, <2>2, <3>3
  <2>3. QED
    BY <2>1, <2>2
<1>6. ASSUME NEW s \in Sessions, ReplyApplied(s), handler[s].cmd = c,
             rows'[c].status = "completed", rows'[c].outcome = ReplyOutcome(c, handler[s].frame)
      PROVE  /\ Awaits(c)' => rows'[c].status \in OPEN \cup {"timeout"}
             /\ rows'[c].status = "completed" => Written(c)'
             /\ rows'[c].outcome = "success" => lock'[c] = "succeeded"
  <2>1. /\ lock[c] = (IF handler[s].frame.ok THEN "succeeded" ELSE "failed")
        /\ Written(c) /\ ~Awaits(c)'
    BY <1>6, <1>p, AppliedOnce
  <2>2. rows'[c].outcome = "success" => handler[s].frame.ok
    BY <1>6 DEF ReplyOutcome
  <2>3. QED
    BY <1>l, <1>w, <2>1, <2>2
<1>7. QED
  BY <1>1, <1>2, <1>3, <1>4, <1>5, <1>6, RowStep DEF RowMoves

LEMMA HandlersTellKept ==
  ASSUME CallInv, TransitInv, CorrelationInv, [Next]_vars
  PROVE  HandlersTell'
<1> SUFFICES ASSUME Plain', NEW s \in Sessions
    PROVE  /\ handler'[s].at \in {"found", "correlated", "completed", "finishing"}
                /\ handler'[s].frame.of # NoCommand =>
                  handler'[s].cmd = handler'[s].frame.of
           /\ handler'[s].at = "completed" =>
                handler'[s].frame.of # NoCommand /\ handler'[s].frame.ok
  BY DEF HandlersTell
<1> DEFINE h == handler[s]
           k == handler'[s]
           c == h.frame.of
<1> TypeOK /\ DownOK /\ HandlersOK /\ FramesTell /\ SerialOK /\ PendingOK
  BY DEF CallInv, TransitInv
<1>p. Plain
  BY PlainBefore
<1>h. /\ h.at \in {"found", "correlated", "completed", "finishing"} /\ h.frame.of # NoCommand =>
           h.cmd = h.frame.of
      /\ h.at = "completed" => h.frame.of # NoCommand /\ h.frame.ok
  BY <1>p DEF CorrelationInv, HandlersTell
<1>k. HandlerOK(h) /\ Tells(h.frame) /\ h.frame \in Frame
  BY DEF HandlersOK, FramesTell, TypeOK, Handlers
<1>n. ASSUME h.at \in {"replying", "finding"}, c # NoCommand
      PROVE  /\ c \in Commands /\ Awaits(c) /\ serial[c] # 0 /\ h.frame.serial = serial[c]
             /\ rows[c].status \in OPEN \cup {"timeout"}
  <2>1. c \in Commands /\ h.frame.kind = "reply"
    BY <1>k, <1>n DEF Frame, CommandOrNone, HandlerOK
  <2>2. Awaits(c)
    BY <1>n, <2>1 DEF Awaits, Processes
  <2>3. h.frame.serial = serial[c]
    BY <1>k, <1>n, <1>p, <2>1 DEF Tells, Plain
  <2>4. Written(c)
    BY <2>1, <2>2, AwaitsLock
  <2>5. QED
    BY <1>p, <2>1, <2>2, <2>3, <2>4 DEF SerialOK, CorrelationInv, RowsTell
<1>1. CASE k = AtRest
  BY <1>1 DEF AtRest
<1>2. CASE k = h
  BY <1>2, <1>h
<1>3. CASE FrameStep(s) /\ k # AtRest /\ k # h
  <2>1. CASE k.at \in {"acking", "replying", "rejected", "finding"}
    BY <2>1
  <2>2. CASE /\ Correlate(s) /\ k.frame = h.frame /\ h.at = "replying"
             /\ k.at = "correlated" /\ k.cmd = pending[h.frame.serial] /\ k.cmd # NoCommand
    <3>1. ASSUME c # NoCommand PROVE k.cmd = c
      <4>1. h.frame.serial \in Serials
        BY <1>k DEF Frame
      <4>2. k.cmd \in Commands
        BY <2>2, <4>1 DEF TypeOK, CommandOrNone
      <4>3. serial[k.cmd] = h.frame.serial
        BY <2>2, <4>1 DEF PendingOK
      <4>4. serial[c] = serial[k.cmd] /\ c \in Commands /\ serial[c] # 0
        BY <1>n, <2>2, <3>1, <4>3
      <4>5. QED
        BY <1>p, <4>2, <4>4 DEF Plain, NoSerialReuse
    <3>2. QED
      BY <2>2, <3>1
  <2>3. CASE /\ LateFound(s) /\ k.frame = h.frame /\ h.at = "finding" /\ k.at = "found"
             /\ \/ h.frame.serial = 0 \/ Matching(h.frame.serial) = {}
                \/ k.cmd \in FindCommandByBusinessSerial(h.frame.serial)
    <3>1. ASSUME c # NoCommand PROVE k.cmd = c
      <4>1. c \in Commands /\ serial[c] # 0 /\ h.frame.serial = serial[c]
            /\ rows[c].status \in OPEN \cup {"timeout"}
        BY <1>n, <2>3, <3>1
      <4>r. Recent(c)
        <5>1. used \in Usage /\ used'.late = 0
          BY DEF Plain, TypeOK
        <5>2. ~TooLate(h.frame)
          BY <2>3, <5>1 DEF LateFound, Usage
        <5>3. QED
          BY <3>1, <5>2 DEF TooLate
      <4>2. c \in Matching(h.frame.serial)
        BY <4>1, <4>r DEF Matching
      <4>3. k.cmd \in Commands /\ serial[k.cmd] = serial[c]
        BY <2>3, <4>1, <4>2 DEF FindCommandByBusinessSerial, Matching
      <4>4. QED
        BY <1>p, <4>1, <4>3 DEF Plain, NoSerialReuse
    <3>2. QED
      BY <2>3, <3>1
  <2>4. CASE /\ FallBack(s) /\ k.frame = h.frame /\ h.at = "found" /\ k.at = "correlated"
             /\ h.cmd # NoCommand => k.cmd = h.cmd
    BY <2>4, <1>h
  <2>5. CASE /\ ReplyApplied(s) /\ k.frame = h.frame /\ k.cmd = h.cmd
             /\ h.at = "correlated"
             /\ k.at = IF HasFollowUp(h.cmd, h.frame) THEN "completed" ELSE "finishing"
    <3>1. h.frame.of # NoCommand
      BY <1>k, <2>5 DEF HandlerOK
    <3>2. HasFollowUp(h.cmd, h.frame) => h.frame.ok
      BY DEF HasFollowUp, ReplyOutcome
    <3>3. QED
      BY <1>h, <2>5, <3>1, <3>2
  <2>6. CASE /\ FollowUpApplied(s) /\ k.frame = h.frame /\ k.cmd = h.cmd
             /\ h.at = "completed" /\ k.at = "finishing"
    BY <1>h, <2>6
  <2>7. QED
    BY <1>3, <2>1, <2>2, <2>3, <2>4, <2>5, <2>6, HandlerMoves
<1>4. QED
  BY <1>1, <1>2, <1>3, HandlerStep

\* The key is stored by the follow-up of a completed seal, and by nothing else.
LEMMA KeyStep ==
  ASSUME TypeOK, [Next]_vars
  PROVE  \/ currentKey' = currentKey
         \/ \E s \in Sessions : /\ handler[s].at = "completed"
                                /\ handler[s].frame.type = "seal"
                                /\ currentKey' = handler[s].cmd
<1>1. ASSUME NEW c \in Commands, CallStep(c) \/ TimerStep(c) PROVE currentKey' = currentKey
  BY <1>1 DEF CallStep, Running, Refuse, Execute, RefusalInserted, CommandInserted, Record,
     Register, Failed, Logged, Marked, Noted, Return, WaitExpires, TimerStep, TimerFires,
     TimeoutApplied, TimeoutFinishes, store
<1>2. ASSUME NEW s \in Sessions, FrameStep(s), ~FollowUpApplied(s) PROVE currentKey' = currentKey
  BY <1>2 DEF FrameStep, ReceiveAck, AckApplied, RejectionFinishes, ReceiveReply, Correlate,
     LateFound, FallBack, ReplyApplied, ReplyFinishes, store
<1>3. ASSUME NEW s \in Sessions, FollowUpApplied(s)
      PROVE  \/ currentKey' = currentKey
             \/ /\ handler[s].at = "completed" /\ handler[s].frame.type = "seal"
                /\ currentKey' = handler[s].cmd
  BY <1>3 DEF FollowUpApplied
<1>4. CASE Device \/ Disconnect \/ \E s \in Sessions : Connect(s)
  BY <1>4, ConnectionFrame, DeviceFrame DEF store
<1>5. CASE Restart \/ DayPasses \/ StoreFails \/ UNCHANGED vars
  BY <1>5 DEF Restart, DayPasses, StoreFails, vars, store
<1>6. QED
  BY <1>1, <1>2, <1>3, <1>4, <1>5 DEF Next

LEMMA KeyKept ==
  ASSUME CallInv, TransitInv, CorrelationInv, [Next]_vars
  PROVE  KeyOfAnExecutedSeal'
<1> SUFFICES ASSUME Plain', currentKey' # NoCommand
    PROVE  lock'[currentKey'] = "succeeded" /\ TypeOf[currentKey'] = "seal"
  BY DEF KeyOfAnExecutedSeal
<1> TypeOK /\ DownOK /\ FramesTell /\ HandlersOK
  BY DEF CallInv, TransitInv
<1>p. Plain
  BY PlainBefore
<1>1. ASSUME NEW c \in Commands, currentKey' = c, lock[c] = "succeeded", TypeOf[c] = "seal"
      PROVE  lock'[currentKey'] = "succeeded" /\ TypeOf[currentKey'] = "seal"
  BY <1>1, LockStep
<1>2. CASE currentKey' = currentKey
  <2>1. currentKey \in Commands /\ lock[currentKey] = "succeeded" /\ TypeOf[currentKey] = "seal"
    BY <1>2, <1>p DEF CorrelationInv, KeyOfAnExecutedSeal, TypeOK, CommandOrNone
  <2>2. QED
    BY <1>1, <1>2, <2>1
<1>3. ASSUME NEW s \in Sessions, handler[s].at = "completed", handler[s].frame.type = "seal",
             currentKey' = handler[s].cmd
      PROVE  lock'[currentKey'] = "succeeded" /\ TypeOf[currentKey'] = "seal"
  <2> DEFINE h == handler[s]
  <2>1. h.frame.of # NoCommand /\ h.frame.ok /\ h.cmd = h.frame.of /\ h.frame.kind = "reply"
    BY <1>3, <1>p DEF CorrelationInv, HandlersTell, HandlersOK, HandlerOK
  <2>2. h.frame.of \in Commands
    BY <2>1 DEF TypeOK, Handlers, Frame, CommandOrNone
  <2>3. lock[h.frame.of] = "succeeded" /\ TypeOf[h.frame.of] = "seal"
    BY <1>3, <2>1 DEF FramesTell, Tells
  <2>4. QED
    BY <1>1, <1>3, <2>1, <2>2, <2>3
<1>4. QED
  BY <1>2, <1>3, KeyStep

-----------------------------------------------------------------------------
(***************************************************************************)
(* The theorems                                                            *)
(***************************************************************************)

TellInv == CallInv /\ TransitInv /\ CorrelationInv

LEMMA InitCorrelation == Init => TellInv
<1> SUFFICES ASSUME Init PROVE TellInv
  OBVIOUS
<1>1. CallInv /\ TransitInv
  BY InitInv, InitTransit
<1>2. \A s \in Sessions : handler[s].at = "idle" /\ DOMAIN up[s] = {}
  <2>1. handler = [s \in Sessions |-> AtRest] /\ up = [s \in Sessions |-> << >>]
    BY DEF Init
  <2>2. AtRest.at = "idle"
    BY DEF AtRest
  <2>3. DOMAIN << >> = {}
    OBVIOUS
  <2>4. QED
    BY <2>1, <2>2, <2>3
<1>3. OneReply
  BY <1>2 DEF OneReply, Processes
<1>4. RowsTell
  <2>1. \A c \in Commands : rows[c].status = "none" /\ rows[c].outcome = "none"
    BY DEF Init, NoRow
  <2>2. written = << >> /\ DOMAIN << >> = {}
    BY DEF Init
  <2>3. \A c : ~Awaits(c)
    BY <1>2, <2>2 DEF Awaits, Processes, Written
  <2>4. QED
    BY <2>1, <2>3 DEF RowsTell
<1>5. HandlersTell /\ KeyOfAnExecutedSeal
  BY <1>2 DEF Init, HandlersTell, KeyOfAnExecutedSeal
<1>6. QED
  BY <1>1, <1>3, <1>4, <1>5 DEF TellInv, CorrelationInv

LEMMA StepCorrelation ==
  ASSUME TellInv, [Next]_vars
  PROVE  TellInv'
<1>1. CallInv' /\ TransitInv'
  BY StepInv, StepTransit DEF TellInv
<1>2. OneReply' /\ RowsTell' /\ HandlersTell' /\ KeyOfAnExecutedSeal'
  BY OneReplyKept, RowsTellKept, HandlersTellKept, KeyKept DEF TellInv, CorrelationInv
<1>3. QED
  BY <1>1, <1>2 DEF TellInv, CorrelationInv

LEMMA AlwaysTells == Spec => []TellInv
BY InitCorrelation, StepCorrelation, PTL DEF Spec

\* onOperationReply gives an operation reply to the command whose operation it
\* reports and to no other: through the map `pending`, or, when the timeout,
\* another connection or a restart has come between, through the row of that
\* business serial.  That holds for a device that echoes the serial, repeats
\* nothing and is never more than a day late (findCommandByBusinessSerial of
\* PgStore looks no further), as long as no serial is used twice, with any
\* number of commands, sessions, days, restarts and failures of the store.
THEOREM ReplyFindsItsCommand == Spec => []RepliesFindTheirCommand
<1>1. TellInv => RepliesFindTheirCommand
  BY DEF TellInv, CorrelationInv, HandlersTell, RepliesFindTheirCommand
<1>2. QED
  BY <1>1, AlwaysTells, PTL

\* Under the same conditions a row that says completed and success is that of
\* an operation the lock carried out: neither a failure nor another command's
\* reply is ever recorded as a success.
THEOREM SuccessWasExecuted == Spec => []SuccessMeansExecuted
<1>1. TellInv => SuccessMeansExecuted
  BY DEF TellInv, CorrelationInv, RowsTell, SuccessMeansExecuted, Succeeded
<1>2. QED
  BY <1>1, AlwaysTells, PTL

\* Under the same conditions devices.current_key, which the follow-up of a
\* completed seal writes, holds the key of a seal that the lock carried out.
THEOREM KeyWasSealedWith == Spec => []KeyOfAnExecutedSeal
<1>1. TellInv => KeyOfAnExecutedSeal
  BY DEF TellInv, CorrelationInv
<1>2. QED
  BY <1>1, AlwaysTells, PTL

\* The credit of a command is given with its completion, to the command whose
\* operation the frame reports.
LEMMA CreditStep ==
  ASSUME TypeOK, [Next]_vars, NEW c \in Commands
  PROVE  \/ credit'[c] = credit[c]
         \/ \E s \in Sessions : /\ ReplyApplied(s) /\ handler[s].cmd = c
                                /\ credit'[c] = handler[s].frame.of
<1>1. ASSUME NEW d \in Commands, CallStep(d) \/ TimerStep(d) PROVE credit' = credit
  BY <1>1, CallFrame, TimerFrame
<1>2. ASSUME NEW s \in Sessions, FrameStep(s), ~ReplyApplied(s) PROVE credit' = credit
  <2> USE DEF store
  <2>1. CASE ReceiveAck(s) \/ AckApplied(s) \/ RejectionFinishes(s)
    BY <2>1 DEF ReceiveAck, AckApplied, RejectionFinishes
  <2>2. CASE ReceiveReply(s) \/ Correlate(s)
    BY <2>2 DEF ReceiveReply, Correlate
  <2>3. CASE LateFound(s) \/ FallBack(s)
    BY <2>3, Zenon DEF LateFound, FallBack
  <2>4. CASE FollowUpApplied(s) \/ ReplyFinishes(s)
    BY <2>4 DEF FollowUpApplied, ReplyFinishes
  <2>5. QED
    BY <1>2, <2>1, <2>2, <2>3, <2>4 DEF FrameStep
<1>3. ASSUME NEW s \in Sessions, ReplyApplied(s)
      PROVE  \/ credit'[c] = credit[c]
             \/ handler[s].cmd = c /\ credit'[c] = handler[s].frame.of
  BY <1>3 DEF ReplyApplied, TypeOK
<1>4. CASE Device \/ Disconnect \/ \E s \in Sessions : Connect(s)
  BY <1>4, ConnectionFrame, DeviceFrame DEF store
<1>5. CASE Restart \/ DayPasses \/ StoreFails \/ UNCHANGED vars
  BY <1>5 DEF Restart, DayPasses, StoreFails, vars, store
<1>6. QED
  BY <1>1, <1>2, <1>3, <1>4, <1>5 DEF Next

LEMMA RestsKept ==
  ASSUME CallInv, TransitInv, SuccessRestsOnOperation, [Next]_vars
  PROVE  SuccessRestsOnOperation'
<1> SUFFICES ASSUME NEW c \in Commands, Succeeded(c)'
    PROVE  /\ credit'[c] # NoCommand /\ lock'[credit'[c]] = "succeeded"
           /\ TypeOf[credit'[c]] = TypeOf[c]
  BY DEF SuccessRestsOnOperation
<1> TypeOK /\ DownOK /\ HandlersOK /\ FramesTell
  BY DEF CallInv, TransitInv
<1>1. ASSUME NEW d \in Commands, credit'[c] = d, lock[d] = "succeeded", TypeOf[d] = TypeOf[c]
      PROVE  /\ credit'[c] # NoCommand /\ lock'[credit'[c]] = "succeeded"
             /\ TypeOf[credit'[c]] = TypeOf[c]
  BY <1>1, LockStep, CommandAssumption
<1>2. ASSUME NEW s \in Sessions, ReplyApplied(s), handler[s].cmd = c
      PROVE  /\ credit'[c] # NoCommand /\ lock'[credit'[c]] = "succeeded"
             /\ TypeOf[credit'[c]] = TypeOf[c]
  <2> DEFINE f == handler[s].frame
  <2>1. handler[s].at = "correlated" /\ rows'[c].outcome = ReplyOutcome(c, f)
        /\ credit'[c] = f.of
    BY <1>2 DEF ReplyApplied, SetStatus, TypeOK
  <2>2. f.type = TypeOf[c] /\ f.ok
    BY <2>1 DEF Succeeded, ReplyOutcome
  <2>3. f.of # NoCommand /\ f.kind = "reply"
    BY <2>1 DEF HandlersOK, HandlerOK
  <2>4. f.of \in Commands
    BY <2>3 DEF TypeOK, Handlers, Frame, CommandOrNone
  <2>5. lock[f.of] = "succeeded" /\ f.type = TypeOf[f.of]
    BY <2>2, <2>3 DEF FramesTell, Tells
  <2>6. QED
    BY <1>1, <2>1, <2>2, <2>4, <2>5
<1>3. ASSUME ~\E s \in Sessions : ReplyApplied(s) /\ handler[s].cmd = c
      PROVE  /\ credit'[c] # NoCommand /\ lock'[credit'[c]] = "succeeded"
             /\ TypeOf[credit'[c]] = TypeOf[c]
  <2>1. rows'[c].status = "completed" /\ rows'[c].outcome = "success"
    BY DEF Succeeded
  <2>2. rows'[c] = rows[c]
    BY <1>3, <2>1, RowStep DEF RowMoves
  <2>3. credit'[c] = credit[c]
    BY <1>3, CreditStep
  <2>4. /\ credit[c] # NoCommand /\ lock[credit[c]] = "succeeded"
        /\ TypeOf[credit[c]] = TypeOf[c]
    BY <2>1, <2>2 DEF SuccessRestsOnOperation, Succeeded
  <2>5. credit[c] \in Commands
    BY <2>4 DEF TypeOK, CommandOrNone
  <2>6. QED
    BY <1>1, <2>3, <2>4, <2>5
<1>4. QED
  BY <1>2, <1>3

\* Without any condition on the device, the serials or the time that passes: a
\* row that says completed and success was completed by the reply to an
\* operation that the lock carried out for a command of the platform, and of
\* the row's own type.  What onOperationReply may get wrong is only which
\* command of that type it was.
THEOREM SuccessRests == Spec => []SuccessRestsOnOperation
<1>1. Init => SuccessRestsOnOperation
  BY DEF Init, NoRow, SuccessRestsOnOperation, Succeeded
<1>2. TellInv /\ SuccessRestsOnOperation /\ [Next]_vars => SuccessRestsOnOperation'
  BY RestsKept DEF TellInv
<1>3. QED
  BY <1>1, <1>2, AlwaysTells, PTL DEF Spec

-----------------------------------------------------------------------------
(***************************************************************************)
(* Part 3.  With atomic statements, that is with the in-memory store, what *)
(* is settled is final, nobody waits in vain, and every step is a step of  *)
(* CommandLifecycle or changes nothing there.                              *)
(***************************************************************************)

(***************************************************************************)
(* One callback at a time                                                  *)
(***************************************************************************)

Calling(c)  == pc[c] \in Executing
Firing(c)   == timer[c] \in {"updating", "updated"}
Handling(s) == handler[s].at # "idle"

\* At most one callback is half way: a call of execute, a timer, or a frame.
OneAtATime ==
  /\ \A c, d \in Commands : Calling(c) /\ Calling(d) => c = d
  /\ \A c, d \in Commands : Firing(c) /\ Firing(d) => c = d
  /\ \A s, t \in Sessions : Handling(s) /\ Handling(t) => s = t
  /\ \A c, d \in Commands : ~(Calling(c) /\ Firing(d))
  /\ \A c \in Commands, s \in Sessions : ~(Calling(c) /\ Handling(s))
  /\ \A c \in Commands, s \in Sessions : ~(Firing(c) /\ Handling(s))

LEMMA NothingRuns ==
  ASSUME InstantStore, TypeOK, LoopFree
  PROVE  /\ \A c \in Commands : ~Calling(c) /\ ~Firing(c)
         /\ \A s \in Sessions : ~Handling(s)
<1>1. \A c \in Commands : pc[c] \in Resting /\ timer[c] \in {"off", "armed"}
  BY DEF LoopFree
<1>2. QED
  BY <1>1 DEF LoopFree, Calling, Firing, Handling, Resting, Executing

\* Nothing is begun.
GoesOn ==
  /\ \A c \in Commands : (Calling(c)' => Calling(c)) /\ (Firing(c)' => Firing(c))
  /\ \A s \in Sessions : Handling(s)' => Handling(s)

LEMMA ResolvedCalls ==
  ASSUME TypeOK, NEW c \in Commands, pc' = Resolved(c), NEW d \in Commands
  PROVE  Calling(d)' => Calling(d)
BY DEF Resolved, Calling, Executing, TypeOK

LEMMA CallGoesOn ==
  ASSUME TypeOK, NEW c \in Commands, Running(c) \/ WaitExpires(c)
  PROVE  GoesOn
<1>1. handler' = handler
  BY CallFrame DEF CallStep
<1>2. \A d \in Commands : Firing(d)' => Firing(d)
  <2>1. timer' = timer \/ timer' = Armed(c)
    BY DEF Running, RefusalInserted, CommandInserted, Record, Register, Failed, Logged, Marked,
       Noted, Return, WaitExpires, entries
  <2>2. QED
    BY <2>1 DEF Armed, Firing, TypeOK
<1>3. \A d \in Commands : Calling(d)' => Calling(d)
  <2>1. \/ pc[c] \in Executing
        \/ \E l \in Resting : pc' = [pc EXCEPT ![c] = l]
    BY DEF Running, RefusalInserted, CommandInserted, Record, Register, Failed, Logged, Marked,
       Noted, Return, WaitExpires, Goto, Executing, Resting
  <2>2. \E l : pc' = [pc EXCEPT ![c] = l]
    BY DEF Running, RefusalInserted, CommandInserted, Record, Register, Failed, Logged, Marked,
       Noted, Return, WaitExpires, Goto
  <2>3. QED
    BY <2>1, <2>2 DEF Calling, Executing, Resting, TypeOK
<1>4. QED
  BY <1>1, <1>2, <1>3 DEF GoesOn, Handling

LEMMA TimerGoesOn ==
  ASSUME TypeOK, NEW c \in Commands, TimeoutApplied(c) \/ TimeoutFinishes(c)
  PROVE  GoesOn
<1>1. handler' = handler
  BY TimerFrame DEF TimerStep
<1>2. \A d \in Commands : Firing(d)' => Firing(d)
  BY DEF TimeoutApplied, TimeoutFinishes, Firing, TypeOK
<1>3. \A d \in Commands : Calling(d)' => Calling(d)
  BY ResolvedCalls DEF TimeoutApplied, TimeoutFinishes, calls, Calling
<1>4. QED
  BY <1>1, <1>2, <1>3 DEF GoesOn, Handling

LEMMA FrameGoesOn ==
  ASSUME TypeOK, NEW s \in Sessions, FrameStep(s), ~ReceiveAck(s), ~ReceiveReply(s)
  PROVE  GoesOn
<1>1. /\ Handling(s)
      /\ \A t \in Sessions : t # s => handler'[t] = handler[t]
  BY DEF FrameStep, AckApplied, RejectionFinishes, Correlate, LateFound, FallBack, ReplyApplied,
     FollowUpApplied, ReplyFinishes, Handling, TypeOK
<1>2. CASE RejectionFinishes(s) \/ ReplyFinishes(s)
  <2>1. handler[s].cmd \in Commands
    BY <1>2 DEF RejectionFinishes, ReplyFinishes, TypeOK, WithCommand, Handlers, CommandOrNone
  <2>2. pc' = Resolved(handler[s].cmd)
    BY <1>2 DEF RejectionFinishes, ReplyFinishes, FinishEntry, FinishRow
  <2>3. timer' = timer \/ timer' = Cleared(handler[s].cmd)
    BY <1>2 DEF RejectionFinishes, ReplyFinishes, FinishEntry, FinishRow
  <2>4. \A d \in Commands : Firing(d)' => Firing(d)
    BY <2>1, <2>3 DEF Cleared, Firing, TypeOK
  <2>5. QED
    BY <1>1, <2>1, <2>2, <2>4, ResolvedCalls DEF GoesOn, Handling
<1>3. CASE ~(RejectionFinishes(s) \/ ReplyFinishes(s))
  <2>1. pc' = pc /\ timer' = timer
    BY <1>3 DEF FrameStep, AckApplied, Correlate, LateFound, FallBack, ReplyApplied,
       FollowUpApplied, calls, entries
  <2>2. QED
    BY <1>1, <2>1 DEF GoesOn, Handling, Calling, Firing
<1>4. QED
  BY <1>2, <1>3

LEMMA OtherGoesOn ==
  ASSUME TypeOK,
         \/ Device \/ Disconnect \/ (\E s \in Sessions : Connect(s))
         \/ Restart \/ DayPasses \/ StoreFails \/ UNCHANGED vars
  PROVE  GoesOn
<1>1. CASE \/ Device \/ Disconnect \/ (\E s \in Sessions : Connect(s))
           \/ DayPasses \/ UNCHANGED vars
  <2>1. CASE DayPasses \/ UNCHANGED vars
    BY <2>1 DEF DayPasses, GoesOn, Calling, Firing, Handling, calls, entries, vars
  <2>2. CASE Device \/ Disconnect \/ \E s \in Sessions : Connect(s)
    <3>1. pc' = pc /\ timer' = timer /\ handler' = handler
      BY <2>2, DeviceFrame, ConnectionFrame DEF calls, entries
    <3>2. QED
      BY <3>1 DEF GoesOn, Calling, Firing, Handling
  <2>3. QED
    BY <1>1, <2>1, <2>2
<1>2. CASE Restart
  BY <1>2 DEF Restart, AtRest, GoesOn, Calling, Firing, Handling, Executing
<1>3. CASE StoreFails
  <2>1. \/ pc' = pc
        \/ \E c \in Commands : pc' = [pc EXCEPT ![c] = "failed"]
    BY <1>3 DEF StoreFails, Goto
  <2>2. timer' = timer \/ \E c \in Commands : timer' = [timer EXCEPT ![c] = "off"]
    BY <1>3 DEF StoreFails
  <2>3. handler' = handler \/ \E s \in Sessions : handler' = [handler EXCEPT ![s] = AtRest]
    BY <1>3 DEF StoreFails
  <2>4. \A c \in Commands : Calling(c)' => Calling(c)
    BY <2>1 DEF Calling, Executing, TypeOK
  <2>5. \A c \in Commands : Firing(c)' => Firing(c)
    BY <2>2 DEF Firing, TypeOK
  <2>6. \A s \in Sessions : Handling(s)' => Handling(s)
    <3>1. AtRest.at = "idle"
      BY DEF AtRest
    <3>2. QED
      BY <2>3, <3>1 DEF Handling, TypeOK
  <2>7. QED
    BY <2>4, <2>5, <2>6 DEF GoesOn
<1>4. QED
  BY <1>1, <1>2, <1>3

\* The steps that begin a callback find no other half way.
Begins == \/ \E c \in Commands : Refuse(c) \/ Execute(c) \/ TimerFires(c)
          \/ \E s \in Sessions : ReceiveAck(s) \/ ReceiveReply(s)

LEMMA BeginsAlone ==
  ASSUME InstantStore, TypeOK, Begins
  PROVE  OneAtATime'
<1>0. /\ \A c \in Commands : ~Calling(c) /\ ~Firing(c)
      /\ \A s \in Sessions : ~Handling(s)
  BY NothingRuns DEF Begins, Refuse, Execute, TimerFires, ReceiveAck, ReceiveReply, NextIs
<1>1. ASSUME NEW c \in Commands, Refuse(c) \/ Execute(c) PROVE OneAtATime'
  <2>1. /\ timer' = timer /\ handler' = handler
        /\ \A d \in Commands : d # c => pc'[d] = pc[d]
    BY <1>1 DEF Refuse, Execute, Goto, entries, TypeOK
  <2>2. QED
    BY <1>0, <2>1 DEF OneAtATime, Calling, Firing, Handling
<1>2. ASSUME NEW c \in Commands, TimerFires(c) PROVE OneAtATime'
  <2>1. /\ pc' = pc /\ handler' = handler
        /\ \A d \in Commands : d # c => timer'[d] = timer[d]
    BY <1>2 DEF TimerFires, calls, TypeOK
  <2>2. QED
    BY <1>0, <2>1 DEF OneAtATime, Calling, Firing, Handling
<1>3. ASSUME NEW s \in Sessions, ReceiveAck(s) \/ ReceiveReply(s) PROVE OneAtATime'
  <2>1. /\ pc' = pc /\ timer' = timer
        /\ \A t \in Sessions : t # s => handler'[t] = handler[t]
    BY <1>3 DEF ReceiveAck, ReceiveReply, calls, entries, TypeOK
  <2>2. QED
    BY <1>0, <2>1 DEF OneAtATime, Calling, Firing, Handling
<1>4. QED
  BY <1>1, <1>2, <1>3 DEF Begins

LEMMA OneAtATimeKept ==
  ASSUME InstantStore, TypeOK, OneAtATime, [Next]_vars
  PROVE  OneAtATime'
<1>1. CASE GoesOn
  BY <1>1 DEF OneAtATime, GoesOn
<1>2. CASE Begins
  BY <1>2, BeginsAlone
<1>3. QED
  BY <1>1, <1>2, CallGoesOn, TimerGoesOn, FrameGoesOn, OtherGoesOn
  DEF Next, CallStep, TimerStep, Begins

-----------------------------------------------------------------------------
(***************************************************************************)
(* A message is acknowledged once                                          *)
(***************************************************************************)

IsAckOf(f, c) == f.kind = "ack" /\ f.of = c

Acks(h, c) == h.at = "acking" /\ h.cmd = c

\* There is one 0x0001 to the message of a command, until it has been matched.
OneAck ==
  \A c \in Commands :
    /\ \A s, t \in Sessions : \A i \in DOMAIN up[s] : \A j \in DOMAIN up[t] :
         IsAckOf(up[s][i], c) /\ IsAckOf(up[t][j], c) => s = t /\ i = j
    /\ acked[c] => /\ lock[c] # "none"
                   /\ \A s \in Sessions : \A i \in DOMAIN up[s] : ~IsAckOf(up[s][i], c)

\* The row is acknowledged once, by the handler that has matched it.
AckedOnce ==
  \A c \in Commands :
    /\ rows[c].status = "acknowledged" => acked[c]
    /\ \A s \in Sessions : Acks(handler[s], c) => acked[c] /\ rows[c].status # "acknowledged"
    /\ \A s, t \in Sessions : Acks(handler[s], c) /\ Acks(handler[t], c) => s = t

\* An entry is marked by the 0x0001 that is taken from the frames.
LEMMA AckedStep ==
  ASSUME TypeOK, [Next]_vars, NEW c \in Commands
  PROVE  \/ acked'[c] = acked[c]
         \/ \E s \in Sessions : /\ ReceiveAck(s) /\ up[s] # << >> /\ Take(s)
                                /\ IsAckOf(Head(up[s]), c) /\ acked'[c]
<1>1. ASSUME NEW d \in Commands, CallStep(d) \/ TimerStep(d) PROVE acked' = acked
  BY <1>1 DEF CallStep, Running, Refuse, Execute, RefusalInserted, CommandInserted, Record,
     Register, Failed, Logged, Marked, Noted, Return, WaitExpires, TimerStep, TimerFires,
     TimeoutApplied, TimeoutFinishes, entries
<1>2. ASSUME NEW s \in Sessions, FrameStep(s), ~ReceiveAck(s) PROVE acked' = acked
  BY <1>2 DEF FrameStep, AckApplied, RejectionFinishes, ReceiveReply, Correlate,
     LateFound, FallBack, ReplyApplied, FollowUpApplied, ReplyFinishes, entries
<1>3. CASE Device \/ Disconnect \/ \E s \in Sessions : Connect(s)
  BY <1>3, DeviceFrame, ConnectionFrame DEF entries
<1>4. CASE Restart \/ DayPasses \/ StoreFails \/ UNCHANGED vars
  BY <1>4 DEF Restart, DayPasses, StoreFails, vars, entries
<1>5. ASSUME NEW s \in Sessions, ReceiveAck(s)
      PROVE  \/ acked'[c] = acked[c]
             \/ /\ up[s] # << >> /\ Take(s) /\ IsAckOf(Head(up[s]), c) /\ acked'[c]
  <2>1. up[s] # << >> /\ Head(up[s]).kind = "ack" /\ Take(s)
    BY <1>5 DEF ReceiveAck, NextIs
  <2>2. LET d == AckEntry(s, Head(up[s]))
        IN  acked' = acked \/ (d # NoCommand /\ acked' = [acked EXCEPT ![d] = TRUE])
    BY <1>5 DEF ReceiveAck
  <2>3. \/ acked'[c] = acked[c]
        \/ acked'[c] /\ AckEntry(s, Head(up[s])) = c
    BY <2>2 DEF TypeOK
  <2>4. AckEntry(s, Head(up[s])) = c => Head(up[s]).of = c
    BY CommandAssumption DEF AckEntry
  <2>5. QED
    BY <2>1, <2>3, <2>4 DEF IsAckOf
<1>6. QED
  BY <1>1, <1>2, <1>3, <1>4, <1>5 DEF Next, CallStep

LEMMA AckDelivered ==
  ASSUME TypeOK, DownOK, Device, NEW c \in Commands
  PROVE  \/ up' = up
         \/ \E s \in Sessions, f \in Frame :
              Deliver(s, f) /\ (IsAckOf(f, c) => lock[c] = "none")
<1>1. ASSUME NEW s \in Sessions, DeviceReceives(s)
      PROVE  \/ up' = up
             \/ \E f \in Frame : Deliver(s, f) /\ (IsAckOf(f, c) => lock[c] = "none")
  <2> DEFINE d == Head(down[s])
  <2>1. 1 \in DOMAIN down[s] /\ d = down[s][1] /\ d \in Commands
    BY <1>1, TailType DEF DeviceReceives, TypeOK
  <2>2. lock[d] = "none"
    BY <2>1 DEF DownOK
  <2> HIDE DEF d
  <2>3. up' = up \/ \E ok \in BOOLEAN : Deliver(s, [NoFrame EXCEPT !.of = d, !.ok = ok])
    BY <1>1, CommandAssumption DEF DeviceReceives, d
  <2>4. \A ok \in BOOLEAN : /\ [NoFrame EXCEPT !.of = d, !.ok = ok] \in Frame
                            /\ [NoFrame EXCEPT !.of = d, !.ok = ok].of = d
    BY <2>1, NoFrameType DEF Frame, CommandOrNone
  <2>5. QED
    BY <2>2, <2>3, <2>4 DEF IsAckOf
<1>2. ASSUME NEW s \in Sessions, NEW d \in Commands, NEW ok \in BOOLEAN, Deliver(s, Reply(d, ok))
      PROVE  \E f \in Frame : Deliver(s, f) /\ ~IsAckOf(f, c)
  <2>1. Reply(d, ok) \in Frame /\ Reply(d, ok).kind = "reply"
    BY ReplyType DEF Reply
  <2>2. QED
    BY <1>2, <2>1 DEF IsAckOf
<1>3. ASSUME ~\E s \in Sessions : DeviceReceives(s)
      PROVE  \/ up' = up
             \/ \E s \in Sessions, d \in Commands, ok \in BOOLEAN : Deliver(s, Reply(d, ok))
             \/ \E s \in Sessions, f \in Frame : Deliver(s, f) /\ f.of = NoCommand
  <2>1. CASE Keypad
    <3>1. \A t \in Types : LET f == [kind |-> "reply", of |-> NoCommand, serial |-> 0,
                                    source |-> "keypad", type |-> t, ok |-> TRUE]
                           IN  f \in Frame /\ f.of = NoCommand
      BY ZeroIsSerial DEF Frame, CommandOrNone
    <3>2. QED
      BY <2>1, <3>1 DEF Keypad, TypeOK
  <2>2. ASSUME NEW d \in Commands, DeviceOperates(d)
        PROVE  up' = up \/ \E s \in Sessions, ok \in BOOLEAN : Deliver(s, Reply(d, ok))
    BY <2>2, CommandAssumption DEF DeviceOperates, TypeOK
  <2>3. ASSUME NEW d \in Commands, DeviceRetransmits(d)
        PROVE  \E s \in Sessions, ok \in BOOLEAN : Deliver(s, Reply(d, ok))
    <3>1. (lock[d] = "succeeded") \in BOOLEAN
      OBVIOUS
    <3>2. current \in Sessions
      BY <2>3 DEF DeviceRetransmits, TypeOK
    <3>3. Deliver(current, Reply(d, lock[d] = "succeeded"))
      BY <2>3 DEF DeviceRetransmits
    <3>4. QED
      BY <3>1, <3>2, <3>3
  <2>4. QED
    BY <1>3, <2>1, <2>2, <2>3 DEF Device
<1>4. \A f : f.of = NoCommand => ~IsAckOf(f, c)
  BY CommandAssumption DEF IsAckOf
<1>5. QED
  BY <1>1, <1>2, <1>3, <1>4

LEMMA OneAckKept ==
  ASSUME CallInv, TransitInv, OneAck, [Next]_vars
  PROVE  OneAck'
<1> SUFFICES ASSUME NEW c \in Commands
    PROVE  /\ \A s, t \in Sessions : \A i \in DOMAIN up'[s] : \A j \in DOMAIN up'[t] :
                IsAckOf(up'[s][i], c) /\ IsAckOf(up'[t][j], c) => s = t /\ i = j
           /\ acked'[c] => /\ lock'[c] # "none"
                           /\ \A s \in Sessions : \A i \in DOMAIN up'[s] : ~IsAckOf(up'[s][i], c)
  BY DEF OneAck, IsAckOf
<1> TypeOK /\ FramesTell /\ DownOK
  BY DEF CallInv, TransitInv
<1>q. \A s \in Sessions : up[s] \in Seq(Frame)
  BY DEF TypeOK
<1>v. \A s \in Sessions : DOMAIN up'[s] \subseteq Nat
  <2>1. TypeOK'
    BY StepInv DEF CallInv
  <2>2. QED
    BY <2>1 DEF TypeOK
<1>a. /\ \A s, t \in Sessions : \A i \in DOMAIN up[s] : \A j \in DOMAIN up[t] :
           IsAckOf(up[s][i], c) /\ IsAckOf(up[t][j], c) => s = t /\ i = j
      /\ acked[c] => /\ lock[c] # "none"
                     /\ \A s \in Sessions : \A i \in DOMAIN up[s] : ~IsAckOf(up[s][i], c)
  BY DEF OneAck
<1>k. \A s \in Sessions : \A i \in DOMAIN up[s] : IsAckOf(up[s][i], c) => lock[c] # "none"
  BY CommandAssumption DEF FramesTell, Tells, IsAckOf
<1>l. lock[c] # "none" => lock'[c] # "none"
  BY LockStep
<1>1. CASE ~Device
  <2>p. \A t \in Sessions : PartOf(up'[t], up[t])
    BY <1>1, FewerUp DEF Next
  <2>1. \A s \in Sessions : \A i \in DOMAIN up'[s] :
          IsAckOf(up'[s][i], c) => \E m \in DOMAIN up[s] : IsAckOf(up[s][m], c)
    BY <2>p DEF PartOf
  <2>2. ASSUME NEW s \in Sessions, NEW i \in DOMAIN up'[s], NEW j \in DOMAIN up'[s],
               IsAckOf(up'[s][i], c), IsAckOf(up'[s][j], c)
        PROVE  i = j
    <3>1. PICK k \in Nat : \A m \in DOMAIN up'[s] :
                             m + k \in DOMAIN up[s] /\ up'[s][m] = up[s][m + k]
      BY <2>p DEF PartOf
    <3>2. i + k = j + k
      BY <1>a, <2>2, <3>1
    <3>3. QED
      BY <1>v, <3>1, <3>2
  <2>3. \A s, t \in Sessions : \A i \in DOMAIN up'[s] : \A j \in DOMAIN up'[t] :
          IsAckOf(up'[s][i], c) /\ IsAckOf(up'[t][j], c) => s = t
    BY <1>a, <2>1
  <2>4. CASE acked'[c] = acked[c]
    BY <1>a, <1>l, <2>1, <2>2, <2>3, <2>4
  <2>5. ASSUME NEW s \in Sessions, ReceiveAck(s), up[s] # << >>, Take(s), IsAckOf(Head(up[s]), c)
        PROVE  /\ lock'[c] # "none"
               /\ \A t \in Sessions : \A i \in DOMAIN up'[t] : ~IsAckOf(up'[t][i], c)
    <3>1. 1 \in DOMAIN up[s] /\ Head(up[s]) = up[s][1]
      BY <2>5, <1>q
    <3>2. \A t \in Sessions : up'[t] = IF t = s THEN Tail(up[s]) ELSE up[t]
      BY <2>5 DEF Take, TypeOK
    <3>3. \A i \in DOMAIN Tail(up[s]) : i + 1 \in DOMAIN up[s] /\ Tail(up[s])[i] = up[s][i + 1]
                                        /\ i + 1 # 1
      BY <2>5, <1>q
    <3>4. \A t \in Sessions : \A i \in DOMAIN up[t] : IsAckOf(up[t][i], c) => t = s /\ i = 1
      BY <2>5, <1>a, <3>1
    <3>5. \A t \in Sessions : \A i \in DOMAIN up'[t] : ~IsAckOf(up'[t][i], c)
      <4> SUFFICES ASSUME NEW t \in Sessions, NEW i \in DOMAIN up'[t] PROVE ~IsAckOf(up'[t][i], c)
        OBVIOUS
      <4>1. CASE t = s
        <5>1. i + 1 \in DOMAIN up[s] /\ up'[t][i] = up[s][i + 1] /\ i + 1 # 1
          BY <3>2, <3>3, <4>1
        <5>2. QED
          BY <3>4, <5>1
      <4>2. CASE t # s
        BY <3>2, <3>4, <4>2
      <4>3. QED
        BY <4>1, <4>2
    <3>6. QED
      BY <1>k, <1>l, <2>5, <3>1, <3>5
  <2>6. QED
    BY <2>2, <2>3, <2>4, <2>5, AckedStep
<1>2. CASE Device
  <2>h. acked' = acked
    BY <1>2, DeviceFrame DEF entries
  <2>1. CASE up' = up
    BY <1>a, <1>l, <2>1, <2>h
  <2>2. ASSUME NEW s \in Sessions, NEW f \in Frame, Deliver(s, f), IsAckOf(f, c) => lock[c] = "none"
        PROVE  /\ \A t, u \in Sessions : \A i \in DOMAIN up'[t] : \A j \in DOMAIN up'[u] :
                    IsAckOf(up'[t][i], c) /\ IsAckOf(up'[u][j], c) => t = u /\ i = j
               /\ acked'[c] => /\ lock'[c] # "none"
                               /\ \A t \in Sessions : \A i \in DOMAIN up'[t] : ~IsAckOf(up'[t][i], c)
    <3>n. \A t \in Sessions : \A i \in DOMAIN up'[t] :
            \/ i \in DOMAIN up[t] /\ up'[t][i] = up[t][i]
            \/ t = s /\ i = Len(up[s]) + 1 /\ up'[t][i] = f
      <4> DEFINE q == up[s]
      <4>1. \A i \in DOMAIN Append(q, f) :
              \/ i \in DOMAIN q /\ Append(q, f)[i] = q[i]
              \/ i = Len(q) + 1 /\ Append(q, f)[i] = f
        BY <1>q
      <4>2. \A t \in Sessions : up'[t] = IF t = s THEN Append(q, f) ELSE up[t]
        BY <2>2 DEF TypeOK, Deliver
      <4> HIDE DEF q
      <4>3. QED
        BY <4>1, <4>2 DEF q
    <3>1. CASE ~IsAckOf(f, c)
      BY <1>a, <1>l, <2>h, <3>n, <3>1
    <3>2. CASE IsAckOf(f, c)
      <4>1. \A t \in Sessions : \A i \in DOMAIN up[t] : ~IsAckOf(up[t][i], c)
        BY <1>k, <2>2, <3>2
      <4>2. ~acked[c]
        BY <1>a, <2>2, <3>2
      <4>3. QED
        BY <2>h, <3>n, <4>1, <4>2
    <3>3. QED
      BY <3>1, <3>2
  <2>3. QED
    BY <1>2, <2>1, <2>2, AckDelivered
<1>3. QED
  BY <1>1, <1>2

LEMMA AcksStep ==
  ASSUME TypeOK, [Next]_vars, NEW s \in Sessions, NEW c \in Commands, Acks(handler'[s], c)
  PROVE  \/ Acks(handler[s], c) /\ handler'[s] = handler[s]
         \/ /\ ReceiveAck(s) /\ up[s] # << >> /\ IsAckOf(Head(up[s]), c)
            /\ AckEntry(s, Head(up[s])) = c /\ acked'[c]
<1>1. AtRest.at # "acking"
  BY DEF AtRest
<1>2. CASE handler'[s] = handler[s]
  BY <1>2
<1>3. CASE FrameStep(s) /\ handler'[s] # handler[s]
  <2>1. /\ ReceiveAck(s) /\ up[s] # << >> /\ Head(up[s]).kind = "ack"
        /\ AckEntry(s, Head(up[s])) = c
    BY <1>1, <1>3, HandlerMoves DEF Acks
  <2>2. Head(up[s]).of = c
    BY <2>1, CommandAssumption DEF AckEntry
  <2>3. acked' = [acked EXCEPT ![c] = TRUE]
    BY <2>1, CommandAssumption DEF ReceiveAck
  <2>4. acked'[c]
    BY <2>3 DEF TypeOK
  <2>5. QED
    BY <2>1, <2>2, <2>4 DEF IsAckOf
<1>4. QED
  BY <1>1, <1>2, <1>3, HandlerStep DEF Acks

LEMMA AckedOnceKept ==
  ASSUME CallInv, TransitInv, OneAck, AckedOnce, [Next]_vars
  PROVE  AckedOnce'
<1> SUFFICES ASSUME NEW c \in Commands
    PROVE  /\ rows'[c].status = "acknowledged" => acked'[c]
           /\ \A s \in Sessions :
                Acks(handler'[s], c) => acked'[c] /\ rows'[c].status # "acknowledged"
           /\ \A s, t \in Sessions : Acks(handler'[s], c) /\ Acks(handler'[t], c) => s = t
  BY DEF AckedOnce, Acks
<1> TypeOK
  BY DEF CallInv
<1>1. acked[c] => acked'[c]
  BY AckedStep
<1>2. \/ rows'[c].status = rows[c].status
      \/ rows'[c].status # "acknowledged"
      \/ \E s \in Sessions : AckApplied(s) /\ Acks(handler[s], c)
  BY RowStep DEF RowMoves, Acks
<1>3. ASSUME NEW s \in Sessions, ReceiveAck(s), up[s] # << >>, IsAckOf(Head(up[s]), c)
      PROVE  /\ \A t \in Sessions : ~Acks(handler[t], c)
             /\ rows'[c].status # "acknowledged"
  <2>1. 1 \in DOMAIN up[s] /\ Head(up[s]) = up[s][1]
    BY <1>3 DEF TypeOK
  <2>2. ~acked[c]
    BY <1>3, <2>1 DEF OneAck
  <2>3. rows' = rows
    BY <1>3 DEF ReceiveAck, store
  <2>4. QED
    BY <2>2, <2>3 DEF AckedOnce
<1>4. ASSUME NEW s \in Sessions, Acks(handler[s], c), handler'[s] = handler[s]
      PROVE  rows'[c].status # "acknowledged"
  <2>1. rows[c].status # "acknowledged" /\ \A t \in Sessions : Acks(handler[t], c) => t = s
    BY <1>4 DEF AckedOnce
  <2>2. CASE AckApplied(s)
    <3>1. handler' = [handler EXCEPT ![s] = AtRest]
          \/ handler' = [handler EXCEPT ![s] = [handler[s] EXCEPT !.at = "rejected"]]
      BY <2>2 DEF AckApplied
    <3>2. handler[s] \in Handlers
      BY DEF TypeOK
    <3>3. handler'[s].at # "acking"
      BY <3>1, <3>2 DEF TypeOK, AtRest, Handlers
    <3>4. QED
      BY <1>4, <3>3 DEF Acks
  <2>3. CASE ~AckApplied(s)
    BY <1>2, <2>1, <2>3
  <2>4. QED
    BY <2>2, <2>3
<1>5. \A s \in Sessions : Acks(handler'[s], c) => acked'[c] /\ rows'[c].status # "acknowledged"
  BY <1>1, <1>3, <1>4, AcksStep DEF AckedOnce
<1>6. \A s, t \in Sessions : Acks(handler'[s], c) /\ Acks(handler'[t], c) => s = t
  <2>1. ASSUME NEW s \in Sessions, NEW t \in Sessions, Acks(handler'[s], c), Acks(handler'[t], c)
        PROVE  s = t
    <3>1. CASE Acks(handler[s], c) /\ Acks(handler[t], c)
      BY <3>1 DEF AckedOnce
    <3>2. CASE /\ up[s] # << >> /\ IsAckOf(Head(up[s]), c)
               /\ up[t] # << >> /\ IsAckOf(Head(up[t]), c)
      <4>1. /\ 1 \in DOMAIN up[s] /\ Head(up[s]) = up[s][1]
            /\ 1 \in DOMAIN up[t] /\ Head(up[t]) = up[t][1]
        BY <3>2 DEF TypeOK
      <4>2. QED
        BY <3>2, <4>1 DEF OneAck
    <3>3. QED
      BY <1>3, <2>1, <3>1, <3>2, AcksStep
  <2>2. QED
    BY <2>1
<1>7. QED
  BY <1>1, <1>2, <1>5, <1>6 DEF AckedOnce

-----------------------------------------------------------------------------
(***************************************************************************)
(* The row of a command, its entry and what handles them agree             *)
(***************************************************************************)

\* No statement has failed and no serial has come round again.
Calm == used.failure = 0 /\ NoSerialReuse

\* A handler is about to take the entry out.
Ends(c) == \E s \in Sessions : /\ handler[s].cmd = c
                               /\ handler[s].at \in {"rejected", "completed", "finishing"}

\* The row and the call of execute.
CallRow(c) ==
  /\ pc[c] \in {"idle", "refusing", "inserting"} => rows[c] = NoRow
  /\ pc[c] \in {"inserted", "failing"} => rows[c].status = "pending"
  /\ pc[c] \in {"logging", "marking"} =>
       rows[c].status = "pending" /\ IsPending(c) /\ ~acked[c]
  /\ pc[c] # "noting"
  /\ pc[c] \in {"marked", "waiting"} => IsPending(c)
  /\ rows[c].status = "pending" => pc[c] \in {"inserted", "failing", "logging", "marking"}
  /\ Open(c) => /\ rows[c].outcome = "none"
                /\ pc[c] \in {"inserted", "failing"} \/ IsPending(c)

\* The row and the entry.
EntryRow(c) ==
  /\ timer[c] # "off" => IsPending(c)
  /\ timer[c] = "updated" => rows[c].status = "timeout"
  /\ IsPending(c) => /\ pc[c] \notin NotWritten
                     /\ Open(c) \/ timer[c] = "updated" \/ Ends(c)

\* The row and the handler that has found it.
HandlerRow(s) ==
  LET h == handler[s]
      c == h.cmd
  IN  /\ h.at = "acking" => IsPending(c) /\ Open(c)
      /\ h.at = "rejected" => IsPending(c) /\ rows[c].status = "rejected"
      /\ h.at \in {"replying", "finding"} => ~h.entry
      /\ h.at = "finding" => pending[h.frame.serial] = NoCommand
      /\ h.at \in {"found", "correlated"} /\ c # NoCommand =>
           rows[c].status \in OPEN \cup {"timeout"}
      /\ h.at \in {"completed", "finishing"} => rows[c].status = "completed"
      /\ h.at \in {"found", "correlated", "completed", "finishing"} /\ c # NoCommand =>
           (h.entry <=> IsPending(c))

RowsAtomic == Calm => /\ \A c \in Commands : CallRow(c) /\ EntryRow(c)
                      /\ \A s \in Sessions : HandlerRow(s)

\* A failure of the store and a serial used twice are not undone.
LEMMA FailureGrows ==
  ASSUME TypeOK, [Next]_vars, used'.failure = 0
  PROVE  used.failure = 0 /\ ~StoreFails
<1>0. used \in Usage
  BY DEF TypeOK
<1>1. CASE \/ \E c \in Commands : CallStep(c) \/ TimerStep(c)
           \/ \E s \in Sessions : FrameStep(s)
  BY <1>1, CallFrame, TimerFrame, FrameFrame, <1>0 DEF StoreFails, Usage
<1>2. CASE Device \/ Disconnect \/ \E s \in Sessions : Connect(s)
  BY <1>2, FailureFrame, <1>0 DEF StoreFails, Usage
<1>3. CASE Restart
  BY <1>3, <1>0 DEF Restart, StoreFails, Usage
<1>4. CASE StoreFails
  BY <1>4, <1>0 DEF StoreFails, Usage
<1>5. CASE DayPasses \/ UNCHANGED vars
  BY <1>5, <1>0, DayFrame DEF vars, StoreFails, Usage
<1>6. QED
  BY <1>1, <1>2, <1>3, <1>4, <1>5 DEF Next

LEMMA CalmBefore ==
  ASSUME TypeOK, SerialOK, [Next]_vars, Calm'
  PROVE  Calm /\ ~StoreFails
<1>1. \A c \in Commands : serial[c] # 0 => serial'[c] = serial[c]
  BY SerialStep DEF Execute, SerialOK
<1>2. NoSerialReuse
  BY <1>1 DEF Calm, NoSerialReuse
<1>3. QED
  BY <1>2, FailureGrows DEF Calm

LEMMA RestartsNever ==
  ASSUME InstantStore, TypeOK
  PROVE  ~Restart
<1>1. MaxRestarts = 0 /\ used.restart \in Nat
  BY CommandAssumption DEF TypeOK, Usage
<1>2. QED
  BY <1>1 DEF Restart

\* What is taken out of the map, and what is not.
LEMMA RemovedOne ==
  ASSUME TypeOK, PendingOK, NoSerialReuse, NEW c \in Commands, serial' = serial, pending' = Removed(serial[c])
  PROVE  /\ ~IsPending(c)'
         /\ \A d \in Commands : d # c => (IsPending(d)' <=> IsPending(d))
<1>1. \A n \in Serials : pending'[n] = IF n = serial[c] THEN NoCommand ELSE pending[n]
  BY DEF Removed, TypeOK
<1>2. \A d \in Commands : serial[d] \in Serials /\ d # NoCommand
  BY CommandAssumption DEF TypeOK
<1>3. \A d \in Commands : IsPending(d) => serial[d] # 0
  BY <1>2 DEF IsPending, PendingOK
<1>4. QED
  BY <1>1, <1>2, <1>3 DEF IsPending, NoSerialReuse

\* A command that a step leaves alone.
LEMMA RowLeft ==
  ASSUME NEW d \in Commands, CallRow(d), EntryRow(d),
         rows'[d] = rows[d], pc'[d] = pc[d], timer'[d] = timer[d],
         acked'[d] = acked[d] \/ pc[d] \notin {"logging", "marking"},
         IsPending(d)' <=> IsPending(d), Ends(d) => Ends(d)'
  PROVE  CallRow(d)' /\ EntryRow(d)'
<1>1. Open(d)' <=> Open(d)
  BY DEF Open
<1>2. CallRow(d)'
  BY <1>1 DEF CallRow
<1>3. EntryRow(d)'
  BY <1>1 DEF EntryRow
<1>4. QED
  BY <1>2, <1>3

\* A step of a call or of a timer finds no handler at work.
LEMMA NoHandler ==
  ASSUME InstantStore, TypeOK, OneAtATime, NEW c \in Commands, CallStep(c) \/ TimerStep(c)
  PROVE  /\ \A s \in Sessions : handler[s].at = "idle"
         /\ \A d \in Commands : ~Ends(d) /\ ~Ends(d)'
         /\ \A s \in Sessions : HandlerRow(s)'
<1>1. \A s \in Sessions : ~Handling(s)
  <2>1. CASE LoopFree
    BY <2>1, NothingRuns
  <2>2. CASE ~LoopFree
    <3>1. Calling(c) \/ Firing(c)
      BY <2>2 DEF CallStep, TimerStep, Refuse, Execute, Running, RefusalInserted, CommandInserted,
         Record, Register, Failed, Logged, Marked, Noted, Return, WaitExpires, TimerFires,
         TimeoutApplied, TimeoutFinishes, Calling, Firing, Executing
    <3>2. QED
      BY <3>1 DEF OneAtATime
  <2>3. QED
    BY <2>1, <2>2
<1>2. handler' = handler
  BY CallFrame, TimerFrame
<1>3. \A s \in Sessions : handler[s].at = "idle" /\ handler'[s].at = "idle"
  BY <1>1, <1>2 DEF Handling
<1>4. \A d \in Commands : ~Ends(d) /\ ~Ends(d)'
  BY <1>3 DEF Ends
<1>5. \A s \in Sessions : HandlerRow(s)'
  BY <1>3 DEF HandlerRow
<1>6. QED
  BY <1>3, <1>4, <1>5

\* A step of a call keeps rows and entries together.
LEMMA RunRows ==
  ASSUME InstantStore, CallInv, TransitInv, OneAck, OneAtATime, Calm,
         NEW c \in Commands, CallStep(c), \A d \in Commands : CallRow(d) /\ EntryRow(d)
  PROVE  \A d \in Commands : CallRow(d)' /\ EntryRow(d)'
<1> TypeOK /\ PendingOK /\ WrittenOK /\ DownOK
  BY DEF CallInv, TransitInv
<1>n. NoSerialReuse
  BY DEF Calm
<1>e. \A d \in Commands : ~Ends(d) /\ ~Ends(d)'
  BY NoHandler
<1>c. CallRow(c) /\ EntryRow(c)
  OBVIOUS
<1>g. \A l : Goto(c, l) => \A d \in Commands : pc'[d] = IF d = c THEN l ELSE pc[d]
  BY DEF Goto, TypeOK
<1>s. ASSUME NEW s, NEW o, SetStatus(c, s, o)
      PROVE  /\ rows'[c].status = s /\ rows'[c].outcome = o
             /\ \A d \in Commands : d # c => rows'[d] = rows[d]
  BY <1>s DEF SetStatus, TypeOK
<1>l. ASSUME rows' = rows, pending' = pending, serial' = serial, timer' = timer, acked' = acked
      PROVE  \A d \in Commands : IsPending(d)' <=> IsPending(d)
  BY <1>l DEF IsPending
\* The commands whose call this is not.
<1>d. ASSUME NEW l, Goto(c, l),
             \A d \in Commands : d # c => /\ rows'[d] = rows[d] /\ timer'[d] = timer[d]
                                          /\ acked'[d] = acked[d]
                                          /\ IsPending(d)' <=> IsPending(d),
             CallRow(c)', EntryRow(c)'
      PROVE  \A d \in Commands : CallRow(d)' /\ EntryRow(d)'
  <2>1. ASSUME NEW d \in Commands, d # c PROVE CallRow(d)' /\ EntryRow(d)'
    BY <1>d, <1>e, <1>g, <2>1, RowLeft
  <2>2. QED
    BY <1>d, <2>1
<1>1. CASE Refuse(c)
  <2>1. /\ pc[c] = "idle" /\ Goto(c, "refusing") /\ rows' = rows /\ timer' = timer /\ acked' = acked
        /\ pending' = pending /\ serial' = serial
    BY <1>1 DEF Refuse, entries, store
  <2>2. /\ rows'[c] = NoRow /\ pc'[c] = "refusing" /\ timer'[c] = "off" /\ ~IsPending(c)
    BY <2>1, <1>c, <1>g DEF CallRow, EntryRow, NotWritten
  <2>3. CallRow(c)' /\ EntryRow(c)'
    BY <2>1, <2>2, <1>l DEF CallRow, EntryRow, NoRow, Open, OPEN
  <2>4. QED
    BY <2>1, <2>3, <1>d, <1>l
<1>2. CASE Execute(c)
  <2>1. /\ pc[c] = "idle" /\ Goto(c, "inserting") /\ rows' = rows /\ timer' = timer /\ acked' = acked
        /\ pending' = pending /\ serial' = [serial EXCEPT ![c] = bizSerial']
    BY <1>2 DEF Execute, entries, store
  <2>2. rows'[c] = NoRow /\ pc'[c] = "inserting" /\ timer'[c] = "off"
    BY <2>1, <1>c, <1>g DEF CallRow, EntryRow, NotWritten
  <2>3. ~IsPending(c)' /\ \A d \in Commands : d # c => (IsPending(d)' <=> IsPending(d))
    <3>1. \A n \in Serials : pending[n] # c
      BY <2>1, CommandAssumption DEF PendingOK
    <3>2. bizSerial' \in Serials
      BY <1>2, DrawnType
    <3>3. serial'[c] = bizSerial' /\ \A d \in Commands : d # c => serial'[d] = serial[d]
      BY <2>1 DEF TypeOK
    <3>4. QED
      BY <2>1, <3>1, <3>2, <3>3 DEF IsPending
  <2>4. CallRow(c)' /\ EntryRow(c)'
    BY <2>2, <2>3 DEF CallRow, EntryRow, NoRow, Open, OPEN
  <2>5. QED
    BY <2>1, <2>3, <2>4, <1>d
<1>3. CASE RefusalInserted(c)
  <2>1. /\ pc[c] = "refusing" /\ Goto(c, "failed") /\ SetStatus(c, "send_failed", "failure")
        /\ timer' = timer /\ acked' = acked /\ pending' = pending /\ serial' = serial
    BY <1>3 DEF RefusalInserted, Record, entries
  <2>2. \A d \in Commands : IsPending(d)' <=> IsPending(d)
    BY <2>1 DEF IsPending
  <2>3. rows'[c].status = "send_failed" /\ pc'[c] = "failed" /\ timer'[c] = "off" /\ ~IsPending(c)'
    BY <2>1, <2>2, <1>c, <1>g, <1>s DEF EntryRow, NotWritten
  <2>4. CallRow(c)' /\ EntryRow(c)'
    BY <2>3 DEF CallRow, EntryRow, Open, OPEN
  <2>5. QED
    <3>1. \A d \in Commands : d # c => rows'[d] = rows[d]
      BY <2>1, <1>s
    <3>2. QED
      BY <2>1, <2>2, <2>4, <3>1, <1>d
<1>4. CASE CommandInserted(c)
  <2>1. /\ pc[c] = "inserting" /\ Goto(c, "inserted") /\ SetStatus(c, "pending", "none")
        /\ timer' = timer /\ acked' = acked /\ pending' = pending /\ serial' = serial
    BY <1>4 DEF CommandInserted, Record, entries
  <2>2. \A d \in Commands : IsPending(d)' <=> IsPending(d)
    BY <2>1 DEF IsPending
  <2>3. /\ rows'[c].status = "pending" /\ rows'[c].outcome = "none" /\ pc'[c] = "inserted"
        /\ timer'[c] = "off" /\ ~IsPending(c)'
    BY <2>1, <2>2, <1>c, <1>g, <1>s DEF EntryRow, NotWritten
  <2>4. CallRow(c)' /\ EntryRow(c)'
    BY <2>3 DEF CallRow, EntryRow, Open
  <2>5. QED
    <3>1. \A d \in Commands : d # c => rows'[d] = rows[d]
      BY <2>1, <1>s
    <3>2. QED
      BY <2>1, <2>2, <2>4, <3>1, <1>d
<1>5. CASE Register(c)
  <2>1. pc[c] = "inserted" /\ rows' = rows /\ acked' = acked /\ serial' = serial
    BY <1>5 DEF Register, store
  <2>2. /\ rows[c].status = "pending" /\ rows[c].outcome = "none" /\ timer[c] = "off"
        /\ ~IsPending(c)
    BY <2>1, <1>c DEF CallRow, EntryRow, NotWritten, Open, OPEN
  <2>3. CASE link[target[c]] = "up"
    <3>1. /\ pending' = [pending EXCEPT ![serial[c]] = c] /\ timer' = [timer EXCEPT ![c] = "armed"]
          /\ Goto(c, "logging")
      BY <1>5, <2>3 DEF Register, Armed
    <3>2. IsPending(c)' /\ \A d \in Commands : d # c => (IsPending(d)' <=> IsPending(d))
      <4>1. serial[c] # 0
        BY <2>1 DEF PendingOK
      <4>2. \A d \in Commands : serial[d] \in Serials /\ (d # c => serial[d] # serial[c])
        BY <4>1, <1>n DEF NoSerialReuse, TypeOK
      <4>3. QED
        BY <2>1, <3>1, <4>2 DEF IsPending, TypeOK
    <3>3. ~acked[c]
      <4>1. ~Written(c)
        BY <2>1 DEF WrittenOK, Written, NotWritten
      <4>2. QED
        BY <4>1 DEF OneAck, DownOK
    <3>4. pc'[c] = "logging" /\ timer'[c] = "armed" /\ rows'[c] = rows[c] /\ ~acked'[c]
      BY <2>1, <3>1, <3>3, <1>g DEF TypeOK
    <3>5. CallRow(c)' /\ EntryRow(c)'
      BY <2>2, <3>2, <3>4 DEF CallRow, EntryRow, Open, OPEN, NotWritten
    <3>6. \A d \in Commands : d # c => timer'[d] = timer[d]
      BY <3>1 DEF TypeOK
    <3>7. QED
      BY <2>1, <3>1, <3>2, <3>5, <3>6, <1>d
  <2>4. CASE link[target[c]] # "up"
    <3>1. pending' = Removed(serial[c]) /\ timer' = timer /\ Goto(c, "failing")
      BY <1>5, <2>4 DEF Register
    <3>2. ~IsPending(c)' /\ \A d \in Commands : d # c => (IsPending(d)' <=> IsPending(d))
      BY <2>1, <3>1, <1>n, RemovedOne
    <3>3. pc'[c] = "failing" /\ timer'[c] = "off" /\ rows'[c] = rows[c]
      BY <2>1, <2>2, <3>1, <1>g
    <3>4. CallRow(c)' /\ EntryRow(c)'
      BY <2>2, <3>2, <3>3 DEF CallRow, EntryRow, Open, OPEN
    <3>5. QED
      BY <2>1, <3>1, <3>2, <3>4, <1>d
  <2>5. QED
    BY <2>3, <2>4
<1>6. CASE Failed(c)
  <2>1. /\ pc[c] = "failing" /\ Goto(c, "failed") /\ SetStatus(c, "send_failed", "failure")
        /\ timer' = timer /\ acked' = acked /\ pending' = pending /\ serial' = serial
    BY <1>6 DEF Failed, entries
  <2>2. \A d \in Commands : IsPending(d)' <=> IsPending(d)
    BY <2>1 DEF IsPending
  <2>3. rows'[c].status = "send_failed" /\ pc'[c] = "failed" /\ timer'[c] = "off" /\ ~IsPending(c)'
    BY <2>1, <2>2, <1>c, <1>g, <1>s DEF EntryRow, NotWritten
  <2>4. CallRow(c)' /\ EntryRow(c)'
    BY <2>3 DEF CallRow, EntryRow, Open, OPEN
  <2>5. QED
    <3>1. \A d \in Commands : d # c => rows'[d] = rows[d]
      BY <2>1, <1>s
    <3>2. QED
      BY <2>1, <2>2, <2>4, <3>1, <1>d
<1>7. CASE Marked(c)
  <2>1. /\ pc[c] = "marking" /\ Goto(c, "marked") /\ SetStatus(c, "sent", rows[c].outcome)
        /\ timer' = timer /\ acked' = acked /\ pending' = pending /\ serial' = serial
    BY <1>7 DEF Marked, entries
  <2>2. \A d \in Commands : IsPending(d)' <=> IsPending(d)
    BY <2>1 DEF IsPending
  <2>3. /\ IsPending(c)' /\ rows[c].outcome = "none" /\ timer[c] # "updated"
    BY <2>1, <2>2, <1>c DEF CallRow, EntryRow, Open, OPEN
  <2>4. rows'[c].status = "sent" /\ rows'[c].outcome = "none" /\ pc'[c] = "marked"
    BY <2>1, <2>3, <1>g, <1>s
  <2>5. CallRow(c)' /\ EntryRow(c)'
    BY <2>1, <2>3, <2>4 DEF CallRow, EntryRow, Open, OPEN, NotWritten
  <2>6. QED
    <3>1. \A d \in Commands : d # c => rows'[d] = rows[d]
      BY <2>1, <1>s
    <3>2. QED
      BY <2>1, <2>2, <2>5, <3>1, <1>d
<1>8. CASE Logged(c) \/ Noted(c) \/ Return(c) \/ WaitExpires(c)
  <2>1. /\ rows' = rows /\ timer' = timer /\ acked' = acked /\ pending' = pending /\ serial' = serial
    BY <1>8 DEF Logged, Noted, Return, WaitExpires, entries, store
  <2>2. \A d \in Commands : IsPending(d)' <=> IsPending(d)
    BY <2>1 DEF IsPending
  <2>3. PICK l : /\ Goto(c, l)
                 /\ \/ pc[c] = "logging" /\ l = "marking"
                    \/ pc[c] = "marked" /\ l \in {"waiting", "returned"}
                    \/ pc[c] = "waiting" /\ l = "answered"
    <3>1. pc[c] # "noting" /\ (pc[c] = "logging" => AfterLog(c) = "marking")
      BY <1>c DEF CallRow, AfterLog
    <3>2. QED
      BY <1>8, <3>1 DEF Logged, Noted, Return, WaitExpires
  <2>4. pc'[c] = l /\ IsPending(c) /\ rows'[c] = rows[c] /\ timer'[c] = timer[c] /\ acked'[c] = acked[c]
    BY <2>1, <2>3, <1>c, <1>g DEF CallRow
  <2>5. Open(c)' <=> Open(c)
    BY <2>1 DEF Open
  <2>6. CallRow(c)' /\ EntryRow(c)'
    BY <2>2, <2>3, <2>4, <2>5, <1>c, <1>e DEF CallRow, EntryRow, NotWritten
  <2>7. QED
    BY <2>1, <2>2, <2>3, <2>6, <1>d
<1>9. QED
  BY <1>1, <1>2, <1>3, <1>4, <1>5, <1>6, <1>7, <1>8 DEF CallStep, Running

\* A step of a timer keeps rows and entries together.
LEMMA ExpiryRows ==
  ASSUME InstantStore, CallInv, OneAtATime, Calm,
         NEW c \in Commands, TimerStep(c), \A d \in Commands : CallRow(d) /\ EntryRow(d)
  PROVE  \A d \in Commands : CallRow(d)' /\ EntryRow(d)'
<1> TypeOK /\ PendingOK
  BY DEF CallInv
<1>n. NoSerialReuse /\ c # NoCommand
  BY CommandAssumption DEF Calm
<1>e. \A d \in Commands : ~Ends(d) /\ ~Ends(d)'
  BY NoHandler
<1>c. CallRow(c) /\ EntryRow(c)
  OBVIOUS
<1>r. pc[c] \in Resting
  <2>1. ~Calling(c)
    <3>1. CASE TimerFires(c)
      BY <3>1, NothingRuns DEF TimerFires
    <3>2. CASE ~TimerFires(c)
      BY <3>2 DEF OneAtATime, TimerStep, TimeoutApplied, TimeoutFinishes, Firing
    <3>3. QED
      BY <3>1, <3>2
  <2>2. QED
    BY <2>1 DEF Calling, TypeOK, Labels
<1>p. timer[c] # "off" /\ IsPending(c) /\ pc[c] \notin NotWritten
  BY <1>c DEF TimerStep, TimerFires, TimeoutApplied, TimeoutFinishes, EntryRow
<1>f. acked' = acked /\ serial' = serial
  BY DEF TimerStep, TimerFires, TimeoutApplied, TimeoutFinishes, calls
<1>d. ASSUME \A d \in Commands : d # c => /\ rows'[d] = rows[d] /\ timer'[d] = timer[d]
                                          /\ pc'[d] = pc[d] /\ (IsPending(d)' <=> IsPending(d)),
             CallRow(c)', EntryRow(c)'
      PROVE  \A d \in Commands : CallRow(d)' /\ EntryRow(d)'
  <2>1. ASSUME NEW d \in Commands, d # c PROVE CallRow(d)' /\ EntryRow(d)'
    BY <1>d, <1>e, <1>f, <2>1, RowLeft
  <2>2. QED
    BY <1>d, <2>1
<1>1. CASE TimerFires(c)
  <2>1. /\ rows' = rows /\ pc' = pc /\ pending' = pending /\ timer[c] = "armed"
        /\ timer' = [timer EXCEPT ![c] = "updating"]
    <3>1. pending[serial[c]] # NoCommand
      BY <1>n, <1>p DEF IsPending
    <3>2. QED
      BY <1>1, <3>1 DEF TimerFires, calls, store
  <2>2. \A d \in Commands : IsPending(d)' <=> IsPending(d)
    BY <2>1, <1>f DEF IsPending
  <2>3. timer'[c] = "updating" /\ \A d \in Commands : d # c => timer'[d] = timer[d]
    BY <2>1 DEF TypeOK
  <2>4. Open(c)' <=> Open(c)
    BY <2>1 DEF Open
  <2>5. CallRow(c)' /\ EntryRow(c)'
    BY <2>1, <2>2, <2>3, <2>4, <1>c, <1>e, <1>f, <1>p DEF CallRow, EntryRow
  <2>6. QED
    BY <2>1, <2>2, <2>3, <2>5, <1>d
<1>2. CASE TimeoutApplied(c)
  <2>1. /\ pc' = pc /\ pending' = pending /\ SetStatus(c, "timeout", "timeout")
        /\ timer' = [timer EXCEPT ![c] = "updated"]
    BY <1>2 DEF TimeoutApplied, calls
  <2>2. \A d \in Commands : IsPending(d)' <=> IsPending(d)
    BY <2>1, <1>f DEF IsPending
  <2>3. /\ timer'[c] = "updated" /\ rows'[c].status = "timeout"
        /\ \A d \in Commands : d # c => timer'[d] = timer[d] /\ rows'[d] = rows[d]
    <3>1. timer'[c] = "updated" /\ \A d \in Commands : d # c => timer'[d] = timer[d]
      BY <2>1 DEF TypeOK
    <3>2. rows'[c].status = "timeout" /\ \A d \in Commands : d # c => rows'[d] = rows[d]
      BY <2>1, StatusStep
    <3>3. QED
      BY <3>1, <3>2
  <2>4. CallRow(c)' /\ EntryRow(c)'
    BY <2>1, <2>2, <2>3, <1>p, <1>r DEF CallRow, EntryRow, Resting, NotWritten, Open, OPEN
  <2>5. QED
    BY <2>1, <2>2, <2>3, <2>4, <1>d
<1>3. CASE TimeoutFinishes(c)
  <2>1. /\ rows' = rows /\ pending' = Removed(serial[c]) /\ pc' = Resolved(c)
        /\ timer[c] = "updated" /\ timer' = [timer EXCEPT ![c] = "off"]
    BY <1>3 DEF TimeoutFinishes, store
  <2>2. ~IsPending(c)' /\ \A d \in Commands : d # c => (IsPending(d)' <=> IsPending(d))
    BY <2>1, <1>f, <1>n, RemovedOne
  <2>3. /\ timer'[c] = "off" /\ rows'[c].status = "timeout"
        /\ \A d \in Commands : d # c => timer'[d] = timer[d]
    BY <2>1, <1>c DEF TypeOK, EntryRow
  <2>4. /\ pc'[c] \in Resting \ {"waiting", "idle"}
        /\ \A d \in Commands : d # c => pc'[d] = pc[d]
    BY <2>1, <1>p, <1>r DEF Resolved, Resting, TypeOK, NotWritten
  <2>5. CallRow(c)' /\ EntryRow(c)'
    BY <2>2, <2>3, <2>4 DEF CallRow, EntryRow, Resting, Open, OPEN
  <2>6. QED
    BY <2>1, <2>2, <2>3, <2>4, <2>5, <1>d
<1>4. QED
  BY <1>1, <1>2, <1>3 DEF TimerStep

\* A step of a handler finds no call, no timer and no other handler at work.
LEMMA HandlerAlone ==
  ASSUME InstantStore, TypeOK, OneAtATime, NEW s \in Sessions, FrameStep(s)
  PROVE  /\ \A c \in Commands : pc[c] \in Resting /\ timer[c] \in {"off", "armed"}
         /\ \A t \in Sessions : t # s => handler[t].at = "idle" /\ handler'[t] = handler[t]
<1>1. \A t \in Sessions : t # s => handler'[t] = handler[t]
  BY DEF FrameStep, ReceiveAck, AckApplied, RejectionFinishes, ReceiveReply, Correlate,
     LateFound, FallBack, ReplyApplied, FollowUpApplied, ReplyFinishes, TypeOK
<1>2. /\ \A c \in Commands : ~Calling(c) /\ ~Firing(c)
      /\ \A t \in Sessions : t # s => ~Handling(t)
  <2>1. CASE LoopFree
    BY <2>1, NothingRuns
  <2>2. CASE ~LoopFree
    <3>1. Handling(s)
      BY <2>2 DEF FrameStep, ReceiveAck, AckApplied, RejectionFinishes, ReceiveReply, Correlate,
         LateFound, FallBack, ReplyApplied, FollowUpApplied, ReplyFinishes, NextIs, Handling
    <3>2. QED
      BY <3>1 DEF OneAtATime
  <2>3. QED
    BY <2>1, <2>2
<1>3. QED
  BY <1>1, <1>2 DEF Calling, Firing, Handling, TypeOK, Labels

\* What the handler of a reply has found, and whether in the map.
LEMMA EntryMoves ==
  ASSUME TypeOK, HandlersOK, NEW s \in Sessions, FrameStep(s), ~ReceiveAck(s),
         ~AckApplied(s), handler'[s] # handler[s], handler'[s] # AtRest
  PROVE  LET h == handler[s]
             k == handler'[s]
         IN  \/ ReceiveReply(s) /\ k.at = "replying" /\ ~k.entry
             \/ /\ Correlate(s) /\ k.at = "correlated" /\ k.entry
                /\ k.cmd = pending[h.frame.serial] /\ k.cmd # NoCommand
             \/ /\ Correlate(s) /\ k.at = "finding" /\ k.entry = h.entry
                /\ pending[h.frame.serial] = NoCommand /\ k.frame = h.frame
             \/ /\ LateFound(s) /\ k.at = "found" /\ k.entry = h.entry
                /\ k.cmd = NoCommand \/ k.cmd \in Matching(h.frame.serial)
             \/ /\ FallBack(s) /\ k.at = "correlated" /\ h.cmd # NoCommand
                /\ k.cmd = h.cmd /\ k.entry = h.entry
             \/ /\ FallBack(s) /\ k.at = "correlated" /\ k.entry
                /\ k.cmd \in Commands /\ IsPending(k.cmd)
             \/ ReplyApplied(s) /\ k.at \in {"completed", "finishing"} /\ k.cmd = h.cmd /\ k.entry = h.entry
             \/ FollowUpApplied(s) /\ k.at = "finishing" /\ k.cmd = h.cmd /\ k.entry = h.entry
<1> DEFINE h == handler[s]
           k == handler'[s]
<1>h. h \in Handlers
  BY DEF TypeOK
<1>e. \A x : handler' = [handler EXCEPT ![s] = x] => k = x
  BY DEF TypeOK
<1>f. ASSUME NEW a, k = [h EXCEPT !.at = a]
      PROVE  k.at = a /\ k.frame = h.frame /\ k.cmd = h.cmd /\ k.entry = h.entry
  BY <1>h, <1>f DEF Handlers
<1>1. CASE ReceiveReply(s)
  <2> DEFINE f == Head(up[s])
  <2>1. /\ [AtRest EXCEPT !.at = "replying", !.frame = f].at = "replying"
        /\ ~[AtRest EXCEPT !.at = "replying", !.frame = f].entry
    <3>1. AtRest \in Handlers /\ ~AtRest.entry
      BY AtRestType DEF AtRest
    <3>2. QED
      BY <3>1 DEF Handlers
  <2>2. k = [AtRest EXCEPT !.at = "replying", !.frame = f]
    BY <1>1, <1>e DEF ReceiveReply
  <2> HIDE DEF f
  <2>3. k.at = "replying" /\ ~k.entry
    BY <2>1, <2>2
  <2>4. QED
    BY <1>1, <2>3
<1>2. CASE Correlate(s)
  <2> DEFINE d == pending[h.frame.serial]
  <2>0. \/ /\ d # NoCommand
           /\ handler' = [handler EXCEPT ![s] = [h EXCEPT !.at = "correlated", !.cmd = d, !.entry = TRUE]]
        \/ d = NoCommand /\ handler' = [handler EXCEPT ![s] = [h EXCEPT !.at = "finding"]]
    BY <1>2 DEF Correlate
  <2>1. \/ d # NoCommand /\ k = [h EXCEPT !.at = "correlated", !.cmd = d, !.entry = TRUE]
        \/ d = NoCommand /\ k = [h EXCEPT !.at = "finding"]
    BY <2>0, <1>e
  <2>2. \/ d # NoCommand /\ k.at = "correlated" /\ k.cmd = d /\ k.entry
        \/ d = NoCommand /\ k.at = "finding" /\ k.frame = h.frame /\ k.entry = h.entry
    <3> HIDE DEF h, k, d
    <3>1. CASE d # NoCommand
      BY <2>1, <3>1, <1>h DEF Handlers
    <3>2. CASE d = NoCommand
      BY <2>1, <3>2, <1>h DEF Handlers
    <3>3. QED
      BY <3>1, <3>2
  <2>3. QED
    BY <1>2, <2>2
<1>3. CASE LateFound(s)
  <2> DEFINE n == h.frame.serial
  <2>1. h.at = "finding" /\ h.cmd = NoCommand
    BY <1>3 DEF LateFound, HandlersOK, HandlerOK
  <2>2. \/ k = [h EXCEPT !.at = "found"]
        \/ \E c \in Matching(n) : k = [h EXCEPT !.at = "found", !.cmd = c]
    <3>1. \/ handler' = [handler EXCEPT ![s] = [h EXCEPT !.at = "found"]]
          \/ \E c \in Matching(n) :
               handler' = [handler EXCEPT ![s] = [h EXCEPT !.at = "found", !.cmd = c]]
      BY <1>3 DEF LateFound, FindCommandByBusinessSerial
    <3>2. QED
      BY <3>1, <1>e
  <2>3. /\ k.at = "found" /\ k.entry = h.entry
        /\ k.cmd = NoCommand \/ k.cmd \in Matching(n)
    <3> HIDE DEF h, k, n
    <3>1. CASE k = [h EXCEPT !.at = "found"]
      BY <2>1, <3>1, <1>h DEF Handlers
    <3>2. ASSUME NEW c \in Matching(n), k = [h EXCEPT !.at = "found", !.cmd = c]
          PROVE  k.cmd = c /\ k.at = "found" /\ k.entry = h.entry
      BY <3>2, <1>h DEF Handlers
    <3>3. QED
      BY <2>2, <3>1, <3>2
  <2>4. QED
    BY <1>3, <2>3
<1>4. CASE FallBack(s)
  <2>1. \/ h.cmd # NoCommand /\ k = [h EXCEPT !.at = "correlated"]
        \/ \E c \in OldestPending(h.frame.type) :
             k = [h EXCEPT !.at = "correlated", !.cmd = c, !.entry = TRUE]
    <3>1. \/ /\ h.cmd # NoCommand
             /\ handler' = [handler EXCEPT ![s] = [h EXCEPT !.at = "correlated"]]
          \/ \E c \in OldestPending(h.frame.type) :
               handler' = [handler EXCEPT ![s] =
                             [h EXCEPT !.at = "correlated", !.cmd = c, !.entry = TRUE]]
          \/ handler' = [handler EXCEPT ![s] = AtRest]
      BY <1>4 DEF FallBack
    <3>2. QED
      BY <3>1, <1>e
  <2>2. \A c \in OldestPending(h.frame.type) : c \in Commands /\ IsPending(c)
    BY DEF OldestPending
  <2>3. \/ h.cmd # NoCommand /\ k.at = "correlated" /\ k.cmd = h.cmd /\ k.entry = h.entry
        \/ k.at = "correlated" /\ k.cmd \in OldestPending(h.frame.type) /\ k.entry
    <3> HIDE DEF h, k
    <3>1. CASE h.cmd # NoCommand /\ k = [h EXCEPT !.at = "correlated"]
      BY <3>1, <1>h DEF Handlers
    <3>2. ASSUME NEW c \in OldestPending(h.frame.type),
                 k = [h EXCEPT !.at = "correlated", !.cmd = c, !.entry = TRUE]
          PROVE  k.at = "correlated" /\ k.cmd = c /\ k.entry
      BY <3>2, <1>h DEF Handlers
    <3>3. QED
      BY <2>1, <3>1, <3>2
  <2>4. QED
    BY <1>4, <2>2, <2>3
<1>5. CASE ReplyApplied(s)
  <2>1. PICK a \in {"completed", "finishing"} : k = [h EXCEPT !.at = a]
    BY <1>5, <1>e DEF ReplyApplied
  <2>2. QED
    BY <1>5, <2>1, <1>f
<1>6. CASE FollowUpApplied(s)
  <2>1. k = [h EXCEPT !.at = "finishing"]
    BY <1>6, <1>e DEF FollowUpApplied
  <2>2. QED
    BY <1>6, <2>1, <1>f
<1>7. CASE RejectionFinishes(s) \/ ReplyFinishes(s)
  <2>1. k = AtRest
    BY <1>7, <1>e DEF RejectionFinishes, ReplyFinishes
  <2>2. QED
    BY <2>1
<1>8. QED
  BY <1>1, <1>2, <1>3, <1>4, <1>5, <1>6, <1>7 DEF FrameStep

\* A step of a handler keeps rows, entries and handlers together.
LEMMA HandlingRows ==
  ASSUME InstantStore, CallInv, OneAtATime, Calm, NEW s \in Sessions, FrameStep(s),
         \A d \in Commands : CallRow(d) /\ EntryRow(d), \A t \in Sessions : HandlerRow(t)
  PROVE  /\ \A d \in Commands : CallRow(d)' /\ EntryRow(d)'
         /\ \A t \in Sessions : HandlerRow(t)'
<1> TypeOK /\ PendingOK /\ HandlersOK
  BY DEF CallInv
<1> DEFINE h == handler[s]
           k == handler'[s]
<1>n. NoSerialReuse
  BY DEF Calm
<1>h. h \in Handlers /\ (h.at \in WithCommand => h.cmd \in Commands)
  BY DEF TypeOK, Handlers, CommandOrNone
<1>p. \A n \in Serials : pending[n] # NoCommand => pending[n] \in Commands /\ IsPending(pending[n])
  BY DEF PendingOK, IsPending, TypeOK, CommandOrNone
<1>q. /\ \A c \in Commands : pc[c] \in Resting /\ timer[c] \in {"off", "armed"}
      /\ \A t \in Sessions : t # s => handler[t].at = "idle" /\ handler'[t] = handler[t]
  BY HandlerAlone
<1>s. serial' = serial
  BY FrameFrame
<1>m. \A d \in Commands : Ends(d) => h.cmd = d /\ h.at \in {"rejected", "completed", "finishing"}
  BY <1>q DEF Ends
<1>o. \A d \in Commands : IsPending(d) /\ ~Ends(d) => Open(d)
  BY <1>q DEF EntryRow
<1>t. HandlerRow(s)' => \A t \in Sessions : HandlerRow(t)'
  <2>1. ASSUME NEW t \in Sessions, t # s PROVE HandlerRow(t)'
    <3>1. handler'[t].at = "idle"
      BY <1>q, <2>1
    <3>2. QED
      BY <3>1 DEF HandlerRow
  <2>2. QED
    BY <2>1
<1>r. k.at = "idle" => HandlerRow(s)'
  BY DEF HandlerRow
<1>a. AtRest.at = "idle"
  BY DEF AtRest
<1>e. \A x : handler' = [handler EXCEPT ![s] = x] => k = x
  BY DEF TypeOK
\* The commands that the handler is not about.
<1>d. ASSUME NEW c \in Commands, h.cmd = c \/ h.at = "idle",
             \A d \in Commands : d # c => /\ rows'[d] = rows[d] /\ timer'[d] = timer[d]
                                          /\ pc'[d] = pc[d] /\ (IsPending(d)' <=> IsPending(d)),
             acked' = acked, CallRow(c)', EntryRow(c)'
      PROVE  \A d \in Commands : CallRow(d)' /\ EntryRow(d)'
  <2>1. ASSUME NEW d \in Commands, d # c PROVE CallRow(d)' /\ EntryRow(d)'
    <3>1. ~Ends(d)
      BY <1>d, <1>m, <2>1
    <3>2. QED
      BY <1>d, <2>1, <3>1, RowLeft
  <2>2. QED
    BY <1>d, <2>1
<1>1. CASE \/ ReceiveAck(s) \/ ReceiveReply(s) \/ Correlate(s) \/ LateFound(s)
           \/ FallBack(s) \/ FollowUpApplied(s)
  <2>1. rows' = rows /\ pc' = pc /\ pending' = pending /\ timer' = timer
    BY <1>1 DEF ReceiveAck, ReceiveReply, Correlate, LateFound, FallBack, FollowUpApplied, calls,
       entries, store
  <2>2. \A d \in Commands : (IsPending(d)' <=> IsPending(d)) /\ (Open(d)' <=> Open(d))
    BY <2>1, <1>s DEF IsPending, Open
  <2>3. \A d \in Commands : Ends(d) => Ends(d)'
    <3>1. CASE FollowUpApplied(s)
      <4>1. k.cmd = h.cmd /\ k.at = "finishing"
        <5>1. k = [h EXCEPT !.at = "finishing"]
          BY <3>1, <1>e DEF FollowUpApplied
        <5> HIDE DEF h, k
        <5>2. QED
          BY <5>1, <1>h DEF Handlers
      <4>2. QED
        BY <4>1, <1>m DEF Ends
    <3>2. CASE ~FollowUpApplied(s)
      BY <1>1, <1>m, <3>2 DEF ReceiveAck, ReceiveReply, NextIs, Correlate, LateFound, FallBack
    <3>3. QED
      BY <3>1, <3>2
  <2>4. \A d \in Commands : CallRow(d)' /\ EntryRow(d)'
    <3>1. \A d \in Commands : pc[d] \notin {"logging", "marking"}
      BY <1>q DEF Resting
    <3>2. QED
      BY <2>1, <2>2, <2>3, <3>1, RowLeft
  <2>5. HandlerRow(s)'
    <3>1. CASE k = AtRest
      BY <1>a, <1>r, <3>1
    <3>2. CASE k = h
      <4>1. CASE h.cmd \in Commands
        BY <2>1, <2>2, <3>2, <4>1 DEF HandlerRow
      <4>2. CASE h.cmd \notin Commands
        <5>1. h.cmd = NoCommand /\ h.at \notin WithCommand
          BY <1>h, <4>2 DEF Handlers, CommandOrNone
        <5>2. QED
          BY <2>1, <3>2, <5>1 DEF HandlerRow, WithCommand
      <4>3. QED
        BY <4>1, <4>2
    <3>3. CASE ReceiveAck(s) /\ k # h /\ k # AtRest
      <4>1. /\ k.at = "acking" /\ k.frame = Head(up[s]) /\ up[s] # << >> /\ h.at = "idle"
            /\ k.cmd = AckEntry(s, k.frame) /\ k.cmd # NoCommand
        BY <1>1, <3>3, HandlerMoves DEF ReceiveAck, NextIs, Correlate, LateFound, FallBack,
           ReceiveReply, FollowUpApplied, ReplyApplied, AckApplied
      <4>2. k.frame \in Frame
        BY <4>1, TailType DEF TypeOK
      <4>3. k.cmd \in Commands /\ IsPending(k.cmd)
        BY <4>1, <4>2 DEF AckEntry, Frame, CommandOrNone
      <4>4. Open(k.cmd)
        BY <4>1, <4>3, <1>m, <1>o
      <4>5. QED
        BY <2>2, <4>1, <4>3, <4>4 DEF HandlerRow
    <3>4. CASE ~ReceiveAck(s) /\ k # h /\ k # AtRest
      <4>1. handler[s].at # "acking" /\ ~AckApplied(s) /\ ~ReplyApplied(s)
        BY <1>1, <3>4 DEF ReceiveReply, NextIs, Correlate, LateFound, FallBack, FollowUpApplied,
           AckApplied, ReplyApplied
      <4>2. CASE ReceiveReply(s) /\ k.at = "replying" /\ ~k.entry
        BY <4>2 DEF HandlerRow
      <4>3. CASE /\ Correlate(s) /\ k.at = "correlated" /\ k.entry
                 /\ k.cmd = pending[h.frame.serial] /\ k.cmd # NoCommand
        <5>1. h.frame.serial \in Serials /\ h.at = "replying"
          BY <4>3, <1>h DEF Correlate, Handlers, Frame
        <5>2. k.cmd \in Commands /\ IsPending(k.cmd)
          BY <1>p, <4>3, <5>1
        <5>3. Open(k.cmd)
          BY <5>1, <5>2, <1>m, <1>o
        <5>4. QED
          BY <2>1, <2>2, <4>3, <5>2, <5>3 DEF HandlerRow, Open
      <4>4. CASE /\ Correlate(s) /\ k.at = "finding" /\ k.entry = h.entry
                 /\ pending[h.frame.serial] = NoCommand /\ k.frame = h.frame
        BY <2>1, <4>4 DEF HandlerRow, Correlate
      <4>5. CASE /\ LateFound(s) /\ k.at = "found" /\ k.entry = h.entry
                 /\ k.cmd = NoCommand \/ k.cmd \in Matching(h.frame.serial)
        <5>1. h.at = "finding" /\ ~h.entry /\ pending[h.frame.serial] = NoCommand
          BY <4>5 DEF LateFound, HandlerRow
        <5>2. ASSUME k.cmd # NoCommand
              PROVE  /\ k.cmd \in Commands /\ ~IsPending(k.cmd)
                     /\ rows[k.cmd].status \in OPEN \cup {"timeout"}
          BY <4>5, <5>1, <5>2 DEF Matching, IsPending
        <5>3. QED
          BY <2>1, <2>2, <4>5, <5>1, <5>2 DEF HandlerRow
      <4>6. CASE /\ FallBack(s) /\ k.at = "correlated" /\ h.cmd # NoCommand
                 /\ k.cmd = h.cmd /\ k.entry = h.entry
        <5>1. h.at = "found" /\ h.cmd \in Commands
          BY <4>6, <1>h DEF FallBack, Handlers, CommandOrNone
        <5>2. QED
          BY <2>1, <2>2, <4>6, <5>1 DEF HandlerRow
      <4>7. CASE /\ FallBack(s) /\ k.at = "correlated" /\ k.entry
                 /\ k.cmd \in Commands /\ IsPending(k.cmd)
        <5>1. Open(k.cmd)
          BY <4>7, <1>m, <1>o DEF FallBack
        <5>2. QED
          BY <2>1, <2>2, <4>7, <5>1 DEF HandlerRow, Open
      <4>8. CASE FollowUpApplied(s) /\ k.at = "finishing" /\ k.cmd = h.cmd /\ k.entry = h.entry
        <5>1. h.at = "completed" /\ h.cmd \in Commands
          BY <4>8, <1>h DEF FollowUpApplied, WithCommand
        <5>2. QED
          BY <2>1, <2>2, <4>8, <5>1 DEF HandlerRow
      <4>9. QED
        BY <3>4, <4>1, <4>2, <4>3, <4>4, <4>5, <4>6, <4>7, <4>8, EntryMoves
    <3>5. QED
      BY <3>1, <3>2, <3>3, <3>4
  <2>6. QED
    BY <2>4, <2>5, <1>t
<1>2. ASSUME AckApplied(s), NEW c \in Commands, h.cmd = c
      PROVE  (\A d \in Commands : CallRow(d)' /\ EntryRow(d)') /\ \A t \in Sessions : HandlerRow(t)'
  <2>1. /\ h.at = "acking" /\ h.cmd = c /\ pc' = pc /\ pending' = pending /\ timer' = timer
        /\ acked' = acked
    BY <1>2, <1>h DEF AckApplied, WithCommand, calls, entries
  <2>2. \A d \in Commands : (IsPending(d)' <=> IsPending(d))
    BY <2>1, <1>s DEF IsPending
  <2>3. IsPending(c) /\ Open(c) /\ rows[c].outcome = "none" /\ pc[c] \notin NotWritten
    BY <2>1 DEF HandlerRow, CallRow, EntryRow
  <2>4. \A d \in Commands : d # c => rows'[d] = rows[d]
    BY <1>2, <2>1 DEF AckApplied, TypeOK
  <2>5. \/ rows'[c].status = "acknowledged" /\ rows'[c].outcome = "none" /\ k = AtRest
        \/ rows'[c].status = "rejected" /\ k.at = "rejected" /\ k.cmd = c
    <3>1. rows'[c] = AckRow(c, h.frame.ok) /\ rows[c] \in Row
      BY <1>2, <2>1 DEF AckApplied, TypeOK
    <3>2. k = IF h.frame.ok THEN AtRest ELSE [h EXCEPT !.at = "rejected"]
      <4>1. CASE h.frame.ok
        <5>1. handler' = [handler EXCEPT ![s] = AtRest]
          BY <1>2, <4>1 DEF AckApplied
        <5>2. QED
          BY <4>1, <5>1, <1>e
      <4>2. CASE ~h.frame.ok
        <5>1. handler' = [handler EXCEPT ![s] = [h EXCEPT !.at = "rejected"]]
          BY <1>2, <4>2 DEF AckApplied
        <5>2. QED
          BY <4>2, <5>1, <1>e
      <4>3. QED
        BY <4>1, <4>2
    <3>3. CASE h.frame.ok
      BY <2>3, <3>1, <3>2, <3>3 DEF AckRow, Row
    <3>4. CASE ~h.frame.ok
      <4>1. rows'[c].status = "rejected"
        BY <3>1, <3>4 DEF AckRow
      <4>2. k = [h EXCEPT !.at = "rejected"]
        BY <3>2, <3>4
      <4>3. k.at = "rejected" /\ k.cmd = h.cmd
        <5> HIDE DEF h, k
        <5>1. QED
          BY <4>2, <1>h DEF Handlers
      <4>4. QED
        BY <2>1, <4>1, <4>3
    <3>5. QED
      BY <3>3, <3>4
  <2>6. CallRow(c)' /\ EntryRow(c)' /\ HandlerRow(s)'
    <3>1. CASE rows'[c].status = "acknowledged" /\ rows'[c].outcome = "none" /\ k = AtRest
      <4>1. CallRow(c)' /\ EntryRow(c)'
        BY <2>1, <2>2, <2>3, <3>1, <1>q DEF CallRow, EntryRow, Open, OPEN, NotWritten, Resting
      <4>2. QED
        BY <4>1, <3>1, <1>a, <1>r
    <3>2. CASE rows'[c].status = "rejected" /\ k.at = "rejected" /\ k.cmd = c
      <4>1. Ends(c)'
        BY <3>2 DEF Ends
      <4>2. CallRow(c)' /\ EntryRow(c)'
        BY <2>1, <2>2, <2>3, <3>2, <4>1, <1>q DEF CallRow, EntryRow, Open, OPEN, NotWritten, Resting
      <4>3. HandlerRow(s)'
        BY <2>1, <2>2, <2>3, <3>2 DEF HandlerRow
      <4>4. QED
        BY <4>2, <4>3
    <3>3. QED
      BY <2>5, <3>1, <3>2
  <2>7. QED
    BY <2>1, <2>2, <2>4, <2>6, <1>d, <1>t
<1>3. ASSUME ReplyApplied(s), NEW c \in Commands, h.cmd = c
      PROVE  (\A d \in Commands : CallRow(d)' /\ EntryRow(d)') /\ \A t \in Sessions : HandlerRow(t)'
  <2>1. /\ h.at = "correlated" /\ h.cmd = c /\ c # NoCommand
        /\ pc' = pc /\ pending' = pending /\ timer' = timer /\ acked' = acked
    BY <1>3, <1>h, CommandAssumption DEF ReplyApplied, WithCommand, calls, entries
  <2>2. \A d \in Commands : (IsPending(d)' <=> IsPending(d))
    BY <2>1, <1>s DEF IsPending
  <2>3. /\ h.entry <=> IsPending(c)
        /\ rows[c].status \in OPEN \cup {"timeout"} /\ rows[c].status # "none"
    BY <2>1 DEF HandlerRow, OPEN
  <2>4. rows'[c].status = "completed" /\ \A d \in Commands : d # c => rows'[d] = rows[d]
    BY <1>3, <2>1, StatusStep DEF ReplyApplied
  <2>5. k.at \in {"completed", "finishing"} /\ k.cmd = c /\ k.entry = h.entry
    <3>1. PICK a \in {"completed", "finishing"} : k = [h EXCEPT !.at = a]
      BY <1>3, <1>e DEF ReplyApplied
    <3> HIDE DEF h, k
    <3>2. QED
      BY <2>1, <3>1, <1>h DEF Handlers
  <2>6. Ends(c)'
    BY <2>5 DEF Ends
  <2>7. CallRow(c)'
    <3>1. pc[c] # "idle"
      BY <2>3 DEF CallRow, NoRow
    <3>2. QED
      BY <2>1, <2>2, <2>4, <3>1, <1>q DEF CallRow, Open, OPEN, Resting
  <2>8. EntryRow(c)'
    BY <2>1, <2>2, <2>6, <1>q DEF EntryRow
  <2>9. HandlerRow(s)'
    BY <2>1, <2>2, <2>3, <2>4, <2>5 DEF HandlerRow
  <2>10. QED
    BY <2>1, <2>2, <2>4, <2>7, <2>8, <2>9, <1>d, <1>t
<1>4. ASSUME RejectionFinishes(s) \/ ReplyFinishes(s), NEW c \in Commands, h.cmd = c
      PROVE  (\A d \in Commands : CallRow(d)' /\ EntryRow(d)') /\ \A t \in Sessions : HandlerRow(t)'
  <2>1. /\ h.cmd = c /\ c # NoCommand /\ rows' = rows /\ acked' = acked
        /\ h.at \in {"rejected", "finishing"}
    BY <1>4, <1>h, CommandAssumption DEF RejectionFinishes, ReplyFinishes, WithCommand, store
  <2>2. k.at = "idle"
    BY <1>4, <1>a, <1>e DEF RejectionFinishes, ReplyFinishes
  <2>3. ~Open(c) /\ rows[c].status # "none" /\ rows[c].status # "pending"
    BY <2>1 DEF HandlerRow, Open, OPEN
  <2>4. pc' = Resolved(c)
    BY <1>4 DEF RejectionFinishes, ReplyFinishes, FinishEntry, FinishRow
  <2>5. /\ pc'[c] \in Resting \ {"waiting", "idle"}
        /\ \A d \in Commands : d # c => pc'[d] = pc[d]
    <3>1. pc[c] # "idle"
      BY <2>3 DEF CallRow, NoRow
    <3>2. QED
      BY <2>1, <2>4, <3>1, <1>q DEF Resolved, Resting, TypeOK
  <2>6. /\ ~IsPending(c)' /\ timer'[c] = "off"
        /\ \A d \in Commands : d # c => timer'[d] = timer[d] /\ (IsPending(d)' <=> IsPending(d))
    <3>1. CASE FinishEntry(c)
      <4>1. /\ ~IsPending(c)'
            /\ \A d \in Commands : d # c => (IsPending(d)' <=> IsPending(d))
        BY <2>1, <3>1, <1>n, <1>s, RemovedOne DEF FinishEntry
      <4>2. timer'[c] = "off" /\ \A d \in Commands : d # c => timer'[d] = timer[d]
        BY <2>1, <3>1, <1>q DEF FinishEntry, Cleared, TypeOK
      <4>3. QED
        BY <4>1, <4>2
    <3>2. CASE ReplyFinishes(s) /\ ~h.entry
      <4>1. pending' = pending /\ timer' = timer
        BY <3>2 DEF ReplyFinishes, FinishRow
      <4>2. ~IsPending(c)
        BY <2>1, <3>2 DEF HandlerRow, ReplyFinishes
      <4>3. timer[c] = "off"
        BY <2>1, <4>2 DEF EntryRow
      <4>4. \A d \in Commands : IsPending(d)' <=> IsPending(d)
        BY <4>1, <1>s DEF IsPending
      <4>5. QED
        BY <2>1, <4>1, <4>2, <4>3, <4>4
    <3>3. QED
      BY <1>4, <3>1, <3>2 DEF RejectionFinishes, ReplyFinishes
  <2>7. CallRow(c)' /\ EntryRow(c)'
    <3>1. rows'[c] = rows[c] /\ ~Open(c)'
      BY <2>1, <2>3 DEF Open
    <3>2. QED
      BY <2>3, <2>5, <2>6, <3>1 DEF CallRow, EntryRow, Resting
  <2>8. QED
    BY <2>1, <2>2, <2>5, <2>6, <2>7, <1>d, <1>r, <1>t
<1>5. QED
  BY <1>h, <1>1, <1>2, <1>3, <1>4 DEF FrameStep, AckApplied, ReplyApplied, RejectionFinishes,
     ReplyFinishes, WithCommand

-----------------------------------------------------------------------------
(***************************************************************************)
(* The inductive invariant, and two theorems                               *)
(***************************************************************************)

AtomicInv == OneAtATime /\ OneAck /\ AckedOnce /\ RowsAtomic

LEMMA RowsAtomicKept ==
  ASSUME InstantStore, CallInv, TransitInv, AtomicInv, [Next]_vars
  PROVE  RowsAtomic'
<1> SUFFICES ASSUME Calm'
    PROVE  /\ \A d \in Commands : CallRow(d)' /\ EntryRow(d)'
           /\ \A s \in Sessions : HandlerRow(s)'
  BY DEF RowsAtomic
<1> TypeOK /\ SerialOK /\ OneAtATime /\ OneAck
  BY DEF CallInv, TransitInv, AtomicInv
<1>0. Calm /\ ~StoreFails /\ ~Restart
  BY CalmBefore, RestartsNever
<1>1. /\ \A d \in Commands : CallRow(d) /\ EntryRow(d)
      /\ \A s \in Sessions : HandlerRow(s)
  BY <1>0 DEF AtomicInv, RowsAtomic
<1>2. ASSUME NEW c \in Commands, CallStep(c) \/ TimerStep(c)
      PROVE  /\ \A d \in Commands : CallRow(d)' /\ EntryRow(d)'
             /\ \A s \in Sessions : HandlerRow(s)'
  BY <1>0, <1>1, <1>2, NoHandler, RunRows, ExpiryRows
<1>3. ASSUME NEW s \in Sessions, FrameStep(s)
      PROVE  /\ \A d \in Commands : CallRow(d)' /\ EntryRow(d)'
             /\ \A t \in Sessions : HandlerRow(t)'
  BY <1>0, <1>1, <1>3, HandlingRows
<1>4. CASE \/ Device \/ Disconnect \/ (\E s \in Sessions : Connect(s))
           \/ DayPasses \/ UNCHANGED vars
  <2>1. UNCHANGED <<calls, entries, handler, rows>>
    <3>1. CASE DayPasses \/ UNCHANGED vars
      BY <3>1 DEF DayPasses, vars, store
    <3>2. QED
      BY <1>4, <3>1, DeviceFrame, ConnectionFrame DEF store
  <2>2. /\ rows' = rows /\ pc' = pc /\ serial' = serial /\ pending' = pending /\ acked' = acked
        /\ timer' = timer /\ handler' = handler
    BY <2>1 DEF calls, entries, store
  <2>3. \A d : /\ IsPending(d)' <=> IsPending(d)
               /\ Open(d)' <=> Open(d)
               /\ Ends(d)' <=> Ends(d)
    BY <2>2 DEF IsPending, Open, Ends
  <2>4. \A d \in Commands : CallRow(d)' /\ EntryRow(d)'
    BY <1>1, <2>2, <2>3 DEF CallRow, EntryRow
  <2>5. \A s \in Sessions : HandlerRow(s)'
    BY <1>1, <2>2, <2>3 DEF HandlerRow
  <2>6. QED
    BY <2>4, <2>5
<1>5. QED
  BY <1>0, <1>2, <1>3, <1>4 DEF Next

LEMMA InitAtomic == Init => AtomicInv
<1> SUFFICES ASSUME Init PROVE AtomicInv
  OBVIOUS
<1>1. /\ \A s \in Sessions : handler[s].at = "idle" /\ handler[s].cmd = NoCommand
                             /\ DOMAIN up[s] = {}
      /\ \A c \in Commands : /\ pc[c] = "idle" /\ timer[c] = "off" /\ rows[c] = NoRow
                             /\ acked[c] = FALSE /\ ~IsPending(c)
  <2>1. AtRest.at = "idle" /\ AtRest.cmd = NoCommand /\ DOMAIN << >> = {}
    BY DEF AtRest
  <2>2. \A c \in Commands : ~IsPending(c)
    BY CommandAssumption, ZeroIsSerial DEF Init, IsPending
  <2>3. QED
    BY <2>1, <2>2 DEF Init
<1>2. NoRow.status = "none" /\ NoRow.outcome = "none"
  BY DEF NoRow
<1>3. OneAtATime
  BY <1>1 DEF OneAtATime, Calling, Firing, Handling, Executing
<1>4. OneAck /\ AckedOnce
  BY <1>1, <1>2 DEF OneAck, AckedOnce, Acks
<1>5. RowsAtomic
  <2>1. \A c \in Commands : CallRow(c) /\ EntryRow(c)
    BY <1>1, <1>2 DEF CallRow, EntryRow, Open, OPEN
  <2>2. \A s \in Sessions : HandlerRow(s)
    BY <1>1 DEF HandlerRow
  <2>3. QED
    BY <2>1, <2>2 DEF RowsAtomic
<1>6. QED
  BY <1>3, <1>4, <1>5 DEF AtomicInv

LEMMA AlwaysAtomic ==
  ASSUME InstantStore
  PROVE  Spec => [](TellInv /\ AtomicInv)
<1>1. Init => TellInv /\ AtomicInv
  BY InitCorrelation, InitAtomic
<1>2. TellInv /\ AtomicInv /\ [Next]_vars => (TellInv /\ AtomicInv)'
  <2> SUFFICES ASSUME TellInv, AtomicInv, [Next]_vars PROVE TellInv' /\ AtomicInv'
    OBVIOUS
  <2>1. TellInv' /\ RowsAtomic'
    BY StepCorrelation, RowsAtomicKept DEF TellInv
  <2>2. OneAtATime'
    BY OneAtATimeKept DEF TellInv, CallInv, AtomicInv
  <2>3. OneAck' /\ AckedOnce'
    BY OneAckKept, AckedOnceKept DEF TellInv, AtomicInv
  <2>4. QED
    BY <2>1, <2>2, <2>3 DEF AtomicInv
<1>3. QED
  BY <1>1, <1>2, PTL DEF Spec

\* With the in-memory store no row stays open when nothing of the server is at
\* work for its command any more: execute has left with send_failed, or a
\* reply, a refusal or onTimeout has closed it, whatever came between.
THEOREM SettledRowsAreFinal ==
  ASSUME InstantStore
  PROVE  Spec => []SettledIsFinal
<1>1. AtomicInv => SettledIsFinal
  <2> SUFFICES ASSUME RowsAtomic, Calm, NEW c \in Commands, Settled(c) PROVE ~Open(c)
    BY DEF AtomicInv, SettledIsFinal, Calm
  <2>1. CallRow(c) /\ pc[c] \in Resting /\ ~IsPending(c)
    BY DEF RowsAtomic, Settled
  <2>2. QED
    BY <2>1 DEF CallRow, Resting
<1>2. QED
  BY <1>1, AlwaysAtomic, PTL

\* With the in-memory store a caller of ?wait=true waits only while the entry
\* of its command is in the map, so that finish or onTimeout will answer it.
THEOREM WaitersAreAnswered ==
  ASSUME InstantStore
  PROVE  Spec => []NobodyWaitsInVain
<1>1. AtomicInv => NobodyWaitsInVain
  <2> SUFFICES ASSUME RowsAtomic, Calm, NEW c \in Commands, pc[c] = "waiting" PROVE ~Settled(c)
    BY DEF AtomicInv, NobodyWaitsInVain, Calm
  <2>1. IsPending(c)
    BY DEF RowsAtomic, CallRow
  <2>2. QED
    BY <2>1 DEF Settled
<1>2. QED
  BY <1>1, AlwaysAtomic, PTL

-----------------------------------------------------------------------------
(***************************************************************************)
(* Every step is one of CommandLifecycle                                   *)
(***************************************************************************)

\* A step that moves one row, and one that moves none.
LEMMA OneRowMoves ==
  ASSUME TypeOK, NEW c \in Commands, NEW s, NEW o, lock' = lock,
         rows'[c].status = s, rows'[c].outcome = o,
         \A d \in Commands : d # c => rows'[d] = rows[d]
  PROVE  Lifecycle!Move(c, s, o)
<1>1. [d \in Commands |-> rows'[d].status] = [[d \in Commands |-> rows[d].status] EXCEPT ![c] = s]
  OBVIOUS
<1>2. [d \in Commands |-> rows'[d].outcome] = [[d \in Commands |-> rows[d].outcome] EXCEPT ![c] = o]
  OBVIOUS
<1>3. QED
  BY <1>1, <1>2 DEF Lifecycle!Move

LEMMA NoRowMoves ==
  ASSUME rows' = rows, lock' = lock
  PROVE  UNCHANGED Lifecycle!vars
BY DEF Lifecycle!vars

LEMMA RefineCall ==
  ASSUME InstantStore, CallInv, AtomicInv, Calm, NEW c \in Commands, CallStep(c)
  PROVE  [Lifecycle!Next]_(Lifecycle!vars)
<1> TypeOK /\ CallRow(c)
  BY DEF CallInv, AtomicInv, RowsAtomic
<1>l. lock' = lock
  BY DEF CallStep, Running, Refuse, Execute, RefusalInserted, CommandInserted, Record,
     Register, Failed, Logged, Marked, Noted, Return, WaitExpires
<1>s. ASSUME NEW s, NEW o, SetStatus(c, s, o) PROVE Lifecycle!Move(c, s, o)
  <2>1. /\ rows'[c].status = s /\ rows'[c].outcome = o
        /\ \A d \in Commands : d # c => rows'[d] = rows[d]
    BY <1>s DEF SetStatus, TypeOK
  <2>2. QED
    BY <2>1, <1>l, OneRowMoves
<1>1. CASE RefusalInserted(c)
  <2>1. rows[c].status = "none" /\ SetStatus(c, "send_failed", "failure")
    BY <1>1 DEF RefusalInserted, Record, CallRow, NoRow
  <2>2. Lifecycle!Refuse(c)
    BY <2>1, <1>s DEF Lifecycle!Refuse
  <2>3. QED
    BY <2>2 DEF Lifecycle!Next
<1>2. CASE CommandInserted(c)
  <2>1. rows[c].status = "none" /\ SetStatus(c, "pending", "none")
    BY <1>2 DEF CommandInserted, Record, CallRow, NoRow
  <2>2. Lifecycle!Record(c)
    BY <2>1, <1>s DEF Lifecycle!Record
  <2>3. QED
    BY <2>2 DEF Lifecycle!Next
<1>3. CASE Failed(c)
  <2>1. rows[c].status = "pending" /\ SetStatus(c, "send_failed", "failure")
    BY <1>3 DEF Failed, CallRow
  <2>2. Lifecycle!SendFail(c)
    BY <2>1, <1>s DEF Lifecycle!SendFail
  <2>3. QED
    BY <2>2 DEF Lifecycle!Next
<1>4. CASE Marked(c)
  <2>1. rows[c].status = "pending" /\ rows[c].outcome = "none"
    BY <1>4 DEF Marked, CallRow, Open, OPEN
  <2>2. SetStatus(c, "sent", "none")
    BY <2>1, <1>4 DEF Marked
  <2>3. Lifecycle!Send(c)
    BY <2>1, <2>2, <1>s DEF Lifecycle!Send
  <2>4. QED
    BY <2>3 DEF Lifecycle!Next
<1>5. CASE ~(RefusalInserted(c) \/ CommandInserted(c) \/ Failed(c) \/ Marked(c))
  <2>1. rows' = rows
    BY <1>5 DEF CallStep, Running, Refuse, Execute, Register, Logged, Noted, Return, WaitExpires,
       store
  <2>2. QED
    BY <2>1, <1>l, NoRowMoves
<1>6. QED
  BY <1>1, <1>2, <1>3, <1>4, <1>5

LEMMA RefineTimer ==
  ASSUME InstantStore, CallInv, AtomicInv, Calm, NEW c \in Commands, TimerStep(c)
  PROVE  [Lifecycle!Next]_(Lifecycle!vars)
<1> TypeOK /\ EntryRow(c)
  BY DEF CallInv, AtomicInv, RowsAtomic
<1>l. lock' = lock
  BY DEF TimerStep, TimerFires, TimeoutApplied, TimeoutFinishes
<1>1. CASE TimeoutApplied(c)
  <2>1. timer[c] = "updating" /\ SetStatus(c, "timeout", "timeout")
    BY <1>1 DEF TimeoutApplied
  <2>2. ~Ends(c)
    BY NoHandler DEF AtomicInv
  <2>3. rows[c].status \in Lifecycle!Open
    BY <2>1, <2>2 DEF EntryRow, Open, OPEN, Lifecycle!Open
  <2>4. /\ rows'[c].status = "timeout" /\ rows'[c].outcome = "timeout"
        /\ \A d \in Commands : d # c => rows'[d] = rows[d]
    BY <2>1 DEF SetStatus, TypeOK
  <2>5. Lifecycle!Move(c, "timeout", "timeout")
    BY <2>4, <1>l, OneRowMoves
  <2>6. Lifecycle!Expire(c)
    BY <2>3, <2>5 DEF Lifecycle!Expire
  <2>7. QED
    BY <2>6 DEF Lifecycle!Next
<1>2. CASE ~TimeoutApplied(c)
  <2>1. rows' = rows
    BY <1>2 DEF TimerStep, TimerFires, TimeoutFinishes, store
  <2>2. QED
    BY <2>1, <1>l, NoRowMoves
<1>3. QED
  BY <1>1, <1>2

LEMMA RefineFrame ==
  ASSUME InstantStore, TellInv, AtomicInv, Calm, Plain, NEW s \in Sessions, FrameStep(s)
  PROVE  [Lifecycle!Next]_(Lifecycle!vars)
<1> TypeOK /\ OneAtATime /\ HandlerRow(s) /\ FramesTell /\ CallInv
  BY DEF TellInv, CallInv, TransitInv, AtomicInv, RowsAtomic
<1> DEFINE h == handler[s]
<1>l. lock' = lock
  BY DEF FrameStep, ReceiveAck, AckApplied, RejectionFinishes, ReceiveReply, Correlate,
     LateFound, FallBack, ReplyApplied, FollowUpApplied, ReplyFinishes
<1>h. h.at \in WithCommand => h.cmd \in Commands
  BY DEF TypeOK, Handlers, CommandOrNone
<1>1. ASSUME AckApplied(s), NEW c \in Commands, h.cmd = c
      PROVE  [Lifecycle!Next]_(Lifecycle!vars)
  <2>1. /\ h.at = "acking" /\ rows' = [rows EXCEPT ![c] = AckRow(c, h.frame.ok)]
    BY <1>1 DEF AckApplied
  <2>2. Open(c) /\ rows[c].outcome = "none" /\ pc[c] \in Resting
    <3>1. CallRow(c) /\ pc[c] \in Resting
      BY HandlerAlone DEF AtomicInv, RowsAtomic
    <3>2. QED
      BY <1>1, <2>1, <3>1 DEF HandlerRow, CallRow
  <2>3. rows[c].status = "sent"
    <3>1. rows[c].status # "acknowledged"
      BY <1>1, <2>1 DEF AtomicInv, AckedOnce, Acks
    <3>2. rows[c].status # "pending"
      BY <2>2 DEF AtomicInv, RowsAtomic, CallRow, Resting
    <3>3. QED
      BY <2>2, <3>1, <3>2 DEF Open, OPEN
  <2>4. lock[c] # "none" /\ (~h.frame.ok => lock[c] = "refused")
    <3>1. h.frame.kind = "ack" /\ h.frame.of = c /\ c # NoCommand /\ Tells(h.frame)
      BY <1>1, <2>1, CommandAssumption DEF FramesTell
    <3>2. QED
      BY <3>1 DEF Tells
  <2>5. \A d \in Commands : d # c => rows'[d] = rows[d]
    BY <2>1 DEF TypeOK
  <2>6. rows'[c] = AckRow(c, h.frame.ok) /\ rows[c] \in Row
    BY <2>1 DEF TypeOK
  <2>7. CASE h.frame.ok
    <3>1. rows'[c].status = "acknowledged" /\ rows'[c].outcome = "none"
      BY <2>2, <2>6, <2>7 DEF AckRow, Row
    <3>2. Lifecycle!Move(c, "acknowledged", "none")
      BY <2>5, <3>1, <1>l, OneRowMoves
    <3>3. Lifecycle!Acknowledge(c)
      BY <2>3, <2>4, <3>2 DEF Lifecycle!Acknowledge
    <3>4. QED
      BY <3>3 DEF Lifecycle!Next
  <2>8. CASE ~h.frame.ok
    <3>1. rows'[c].status = "rejected" /\ rows'[c].outcome = "failure"
      BY <2>6, <2>8 DEF AckRow
    <3>2. Lifecycle!Move(c, "rejected", "failure")
      BY <2>5, <3>1, <1>l, OneRowMoves
    <3>3. Lifecycle!Reject(c)
      BY <2>3, <2>4, <2>8, <3>2 DEF Lifecycle!Reject
    <3>4. QED
      BY <3>3 DEF Lifecycle!Next
  <2>9. QED
    BY <2>7, <2>8
<1>2. ASSUME ReplyApplied(s), NEW c \in Commands, h.cmd = c
      PROVE  [Lifecycle!Next]_(Lifecycle!vars)
  <2> DEFINE f == h.frame
  <2>1. h.at = "correlated" /\ SetStatus(c, "completed", ReplyOutcome(c, f))
    BY <1>2 DEF ReplyApplied
  <2>2. /\ f.of = c /\ f.kind = "reply" /\ c # NoCommand
        /\ lock[c] = (IF f.ok THEN "succeeded" ELSE "failed")
    BY <1>2, AppliedOnce, CommandAssumption DEF TellInv
  <2>3. f.type = TypeOf[c]
    BY <2>2 DEF FramesTell, Tells
  <2>4. rows[c].status \in Lifecycle!Open \cup {"timeout"}
    BY <1>2, <2>1, <2>2 DEF HandlerRow, OPEN, Lifecycle!Open
  <2>5. /\ rows'[c].status = "completed" /\ rows'[c].outcome = ReplyOutcome(c, f)
        /\ \A d \in Commands : d # c => rows'[d] = rows[d]
    BY <2>1 DEF SetStatus, TypeOK
  <2>6. ASSUME NEW o, ReplyOutcome(c, f) = o PROVE Lifecycle!Move(c, "completed", o)
    BY <2>5, <2>6, <1>l, OneRowMoves
  <2>7. Lifecycle!Complete(c)
    <3>1. CASE f.ok
      <4>1. ReplyOutcome(c, f) = "success" /\ lock[c] = "succeeded"
        BY <2>2, <2>3, <3>1 DEF ReplyOutcome
      <4>2. QED
        BY <2>4, <2>6, <4>1 DEF Lifecycle!Complete
    <3>2. CASE ~f.ok
      <4>1. ReplyOutcome(c, f) = "failure" /\ lock[c] = "failed"
        BY <2>2, <2>3, <3>2 DEF ReplyOutcome
      <4>2. QED
        BY <2>4, <2>6, <4>1 DEF Lifecycle!Complete
    <3>3. QED
      BY <3>1, <3>2
  <2>8. QED
    BY <2>7 DEF Lifecycle!Next
<1>3. CASE ~(AckApplied(s) \/ ReplyApplied(s))
  <2>1. rows' = rows
    BY <1>3 DEF FrameStep, ReceiveAck, RejectionFinishes, ReceiveReply, Correlate, LateFound,
       FallBack, FollowUpApplied, ReplyFinishes, store
  <2>2. QED
    BY <2>1, <1>l, NoRowMoves
<1>4. QED
  BY <1>h, <1>1, <1>2, <1>3 DEF AckApplied, ReplyApplied, WithCommand

LEMMA RefineDevice ==
  ASSUME CallInv, TransitInv, Device
  PROVE  [Lifecycle!Next]_(Lifecycle!vars)
<1> TypeOK /\ DownOK /\ SendFailedNeverSent
  BY DEF CallInv, TransitInv
<1>r. rows' = rows
  BY DeviceFrame DEF store
<1>1. ASSUME NEW s \in Sessions, DeviceReceives(s)
      PROVE  [Lifecycle!Next]_(Lifecycle!vars)
  <2> DEFINE d == Head(down[s])
  <2>1. 1 \in DOMAIN down[s] /\ d = down[s][1] /\ d \in Commands
    BY <1>1, TailType DEF DeviceReceives, TypeOK
  <2>2. lock[d] = "none" /\ Written(d)
    BY <2>1 DEF DownOK
  <2>3. rows[d].status \notin {"none", "send_failed"}
    BY <2>2 DEF SendFailedNeverSent, Written
  <2>4. \E l \in {"accepted", "refused"} : lock' = [lock EXCEPT ![d] = l]
    BY <1>1 DEF DeviceReceives
  <2>5. Lifecycle!Take(d)
    BY <2>1, <2>2, <2>3, <2>4, <1>r DEF Lifecycle!Take
  <2>6. QED
    BY <2>1, <2>5 DEF Lifecycle!Next
<1>2. ASSUME NEW c \in Commands, DeviceOperates(c)
      PROVE  [Lifecycle!Next]_(Lifecycle!vars)
  <2>1. /\ lock[c] = "accepted"
        /\ \E l \in {"succeeded", "failed"} : lock' = [lock EXCEPT ![c] = l]
    BY <1>2 DEF DeviceOperates
  <2>2. Lifecycle!Operate(c)
    BY <2>1, <1>r DEF Lifecycle!Operate
  <2>3. QED
    BY <2>2 DEF Lifecycle!Next
<1>3. ASSUME (\E c \in Commands : DeviceRetransmits(c)) \/ Keypad
      PROVE  [Lifecycle!Next]_(Lifecycle!vars)
  <2>1. lock' = lock
    BY <1>3 DEF DeviceRetransmits, Keypad
  <2>2. QED
    BY <2>1, <1>r, NoRowMoves
<1>4. QED
  BY <1>1, <1>2, <1>3 DEF Device

\* A step of the service is one of the life cycle, or changes nothing there.
LEMMA RefineStep ==
  ASSUME InstantStore, TellInv, AtomicInv, Plain, used.failure = 0, ~StoreFails, [Next]_vars
  PROVE  [Lifecycle!Next]_(Lifecycle!vars)
<1> CallInv /\ TransitInv /\ TypeOK /\ Calm
  BY DEF TellInv, CallInv, Calm, Plain
<1>1. CASE Disconnect \/ \E s \in Sessions : Connect(s)
  <2>1. rows' = rows /\ lock' = lock
    BY <1>1 DEF Disconnect, Connect, store
  <2>2. QED
    BY <2>1, NoRowMoves
<1>2. CASE DayPasses \/ UNCHANGED vars
  <2>1. rows' = rows /\ lock' = lock
    BY <1>2 DEF DayPasses, vars, store
  <2>2. QED
    BY <2>1, NoRowMoves
<1>3. QED
  BY <1>1, <1>2, RefineCall, RefineTimer, RefineFrame, RefineDevice, RestartsNever DEF Next

\* Initially no row exists and the lock has done nothing.
LEMMA RefineInit == Init => Lifecycle!Init
<1> SUFFICES ASSUME Init PROVE Lifecycle!Init
  OBVIOUS
<1>1. NoRow.status = "none" /\ NoRow.outcome = "none"
  BY DEF NoRow
<1>2. QED
  BY <1>1 DEF Init, Lifecycle!Init

\* With the in-memory store every step of execute, onTimeout, the handlers of
\* the device's frames and the device is a step of the life cycle of a command
\* that CommandLifecycle states, or changes neither a row nor the lock: as long
\* as the device echoes the serials and repeats nothing, no serial comes round
\* again and no statement of the store fails.
THEOREM ServiceImplementsLifecycle ==
  ASSUME InstantStore
  PROVE  Spec /\ [](Plain /\ used.failure = 0) => ImplementsLifecycle
<1>1. TellInv /\ AtomicInv /\ Plain /\ used.failure = 0 /\ [Next]_vars /\ (used.failure = 0)'
        => [Lifecycle!Next]_(Lifecycle!vars)
  <2> SUFFICES ASSUME TellInv, AtomicInv, Plain, used.failure = 0, [Next]_vars, (used.failure = 0)'
      PROVE  [Lifecycle!Next]_(Lifecycle!vars)
    OBVIOUS
  <2>1. ~StoreFails
    BY FailureGrows DEF TellInv, CallInv
  <2>2. QED
    BY <2>1, RefineStep
<1>2. QED
  BY <1>1, RefineInit, AlwaysAtomic, PTL DEF Spec, ImplementsLifecycle, Lifecycle!Spec

=============================================================================
