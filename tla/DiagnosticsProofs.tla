-------------------------- MODULE DiagnosticsProofs --------------------------
(***************************************************************************)
(* Proofs about Diagnostics, for any requests, connections, time syncs and *)
(* failures, as long as no connection has used up its serials.             *)
(***************************************************************************)
EXTENDS Diagnostics, SequenceTheorems, TLAPS

-----------------------------------------------------------------------------
(***************************************************************************)
(* Queues and frames in transit                                            *)
(***************************************************************************)

LEMMA AppendAt ==
  ASSUME NEW S, NEW q \in Seq(S), NEW x \in S
  PROVE  /\ Append(q, x) \in Seq(S)
         /\ \A i \in 1..Len(Append(q, x)) :
              \/ i \in 1..Len(q) /\ Append(q, x)[i] = q[i]
              \/ Append(q, x)[i] = x
<1>1. /\ Append(q, x) \in Seq(S) /\ Len(q) \in Nat
      /\ Len(Append(q, x)) = Len(q) + 1
      /\ \A i \in 1..Len(q) : Append(q, x)[i] = q[i]
      /\ Append(q, x)[Len(q) + 1] = x
  BY AppendProperties, LenProperties
<1>2. QED
  BY <1>1

LEMMA TailAt ==
  ASSUME NEW S, NEW q \in Seq(S), q # << >>
  PROVE  /\ Tail(q) \in Seq(S) /\ Head(q) \in S
         /\ 1 \in 1..Len(q) /\ Head(q) = q[1]
         /\ \A i \in 1..Len(Tail(q)) :
              i + 1 \in 1..Len(q) /\ Tail(q)[i] = q[i + 1]
<1>1. /\ Tail(q) \in Seq(S) /\ Head(q) \in S /\ Head(q) = q[1]
      /\ Len(q) \in Nat /\ Len(q) # 0 /\ Len(Tail(q)) = Len(q) - 1
      /\ \A i \in 1..Len(Tail(q)) : Tail(q)[i] = q[i + 1]
  BY HeadTailProperties, LenProperties, EmptySeq
<1>2. QED
  BY <1>1

\* A frame is something.
LEMMA FrameIsSome == None \notin Frame /\ None \notin Response
<1>1. DOMAIN None = {}
  BY DEF None
<1>2. \A f \in Frame : "from" \in DOMAIN f
  BY DEF Frame
<1>3. \A f \in Response : "from" \in DOMAIN f
  BY DEF Response
<1>4. QED
  BY <1>1, <1>2, <1>3

-----------------------------------------------------------------------------
(***************************************************************************)
(* Types                                                                   *)
(***************************************************************************)

Waiter == [key: [session: Sessions, msg: {"0x0001", "0x0104", "0x0201"}, serial: Nat],
           call: Requests]

LEMMA SerialProperties ==
  \A n \in Serials : n \in Nat /\ (n + 1) % (MaxSerial + 1) \in Serials
                     /\ (n < MaxSerial => (n + 1) % (MaxSerial + 1) = n + 1)
<1> SUFFICES ASSUME NEW n \in Serials
             PROVE  n \in Nat /\ (n + 1) % (MaxSerial + 1) \in Serials
                    /\ (n < MaxSerial => (n + 1) % (MaxSerial + 1) = n + 1)
  OBVIOUS
<1>1. n \in Nat /\ n <= MaxSerial /\ MaxSerial \in Nat \ {0}
  BY DiagnosticsAssumption DEF Serials
<1>2. CASE n < MaxSerial
  <2>1. (n + 1) % (MaxSerial + 1) = n + 1
    BY <1>1, <1>2
  <2>2. QED
    BY <1>1, <1>2, <2>1 DEF Serials
<1>3. CASE n = MaxSerial
  <2>1. (n + 1) % (MaxSerial + 1) = 0
    BY <1>1, <1>3
  <2>2. QED
    BY <1>1, <1>3, <2>1 DEF Serials
<1>4. QED
  BY <1>1, <1>2, <1>3

\* What TypeOK says but for the serials of the waiters.
Shape ==
  /\ call \in [Requests -> {"idle", "queued", "waiting"} \cup Done]
  /\ waiters \subseteq Waiter
  /\ answer \in [Requests -> Callers]
  /\ live \in Sessions /\ closed \subseteq Sessions
  /\ queue \in [Sessions -> Seq(Task)]
  /\ sending \in [Sessions -> Frame \cup {None}]
  /\ receiving \in [Sessions -> Response \cup {None}]
  /\ serial \in [Sessions -> Serials]
  /\ down \in [Sessions -> Seq(Frame)] /\ up \in [Sessions -> Seq(Response)]
  /\ syncs \in Nat /\ failures \in Nat

LEMMA ShapeInit == Init => Shape
<1>1. << >> \in Seq(Task) /\ << >> \in Seq(Frame) /\ << >> \in Seq(Response)
  BY EmptySeq
<1>2. QED
  <2>1. 0 \in Serials
    BY DiagnosticsAssumption DEF Serials
  <2>2. QED
    BY <1>1, <2>1, DiagnosticsAssumption DEF Init, Shape, Sessions, Callers

LEMMA EnqueueShape ==
  ASSUME Shape, NEW s \in Sessions, NEW t \in Task, Enqueue(s, t)
  PROVE  /\ queue' \in [Sessions -> Seq(Task)]
         /\ \A r \in Sessions : r # s => queue'[r] = queue[r]
         /\ \A i \in 1..Len(queue'[s]) :
              \/ i \in 1..Len(queue[s]) /\ queue'[s][i] = queue[s][i]
              \/ queue'[s][i] = t
<1>1. queue \in [Sessions -> Seq(Task)] /\ queue[s] \in Seq(Task)
  BY DEF Shape
<1>2. queue'[s] = Append(queue[s], t) /\ Append(queue[s], t) \in Seq(Task)
  BY <1>1, AppendAt DEF Enqueue
<1>3. QED
  BY <1>1, <1>2, AppendAt DEF Enqueue

LEMMA NextTaskShape ==
  ASSUME Shape, NEW s \in Sessions, NEW kind, NextTask(s, kind)
  PROVE  /\ queue' \in [Sessions -> Seq(Task)]
         /\ \A r \in Sessions : r # s => queue'[r] = queue[r]
         /\ \A i \in 1..Len(queue'[s]) :
              i + 1 \in 1..Len(queue[s]) /\ queue'[s][i] = queue[s][i + 1]
         /\ 1 \in 1..Len(queue[s]) /\ Head(queue[s]) = queue[s][1]
         /\ Head(queue[s]) \in Task /\ Head(queue[s]).kind = kind
         /\ kind = "send" => Head(queue[s]).from \in Callers
         /\ kind = "rx" => Head(queue[s]).rx \in Response
<1>1. queue \in [Sessions -> Seq(Task)] /\ queue[s] \in Seq(Task) /\ queue[s] # << >>
  BY DEF Shape, NextTask
<1>2. queue'[s] = Tail(queue[s]) /\ Tail(queue[s]) \in Seq(Task) /\ Head(queue[s]) \in Task
  BY <1>1, TailAt DEF NextTask
<1>3. /\ Head(queue[s]).kind = kind
      /\ kind = "send" => Head(queue[s]).from \in Callers
      /\ kind = "rx" => Head(queue[s]).rx \in Response
  BY <1>2 DEF NextTask, Task
<1>4. QED
  BY <1>1, <1>2, <1>3, TailAt DEF NextTask

LEMMA ResponseMessage ==
  /\ \A kind \in Kinds : ResponseTo(kind) \in {"0x0001", "0x0104", "0x0201"}
  /\ \A r \in Callers : KindOfCaller(r) \in Kinds
BY DiagnosticsAssumption DEF ResponseTo, KindOfCaller, Kinds, Callers

LEMMA ShapeStep == Shape /\ [Next]_vars => Shape'
<1> SUFFICES ASSUME Shape, [Next]_vars PROVE Shape'
  OBVIOUS
<1> USE DEF calls, session, network, used
<1>1. ASSUME NEW r \in Requests, Request(r) PROVE Shape'
  <2>1. queue' \in [Sessions -> Seq(Task)]
    <3>1. [kind |-> "send", from |-> r] \in Task /\ live \in Sessions
      BY DEF Task, Callers, Shape
    <3>2. QED
      BY <1>1, <3>1, EnqueueShape DEF Request, Shape
  <2>2. QED
    BY <1>1, <2>1 DEF Request, Shape, Done
<1>2. ASSUME NEW r \in Requests, Timeout(r) PROVE Shape'
  BY <1>2 DEF Timeout, Forgotten, Shape, Done
<1>3. CASE TimeSync
  <2>1. [kind |-> "send", from |-> NoRequest] \in Task /\ live \in Sessions
    BY DEF Task, Callers, Shape
  <2>2. queue' \in [Sessions -> Seq(Task)]
    BY <1>3, <2>1, EnqueueShape DEF TimeSync
  <2>3. QED
    BY <1>3, <2>2 DEF TimeSync, Shape
<1>4. ASSUME NEW s \in Sessions, SendFails(s) PROVE Shape'
  <2>1. queue' \in [Sessions -> Seq(Task)]
    BY <1>4, NextTaskShape DEF SendFails
  <2>2. QED
    BY <1>4, <2>1 DEF SendFails, Rejected, Shape, Done
<1>5. ASSUME NEW s \in Sessions, Send(s) PROVE Shape'
  <2> DEFINE f == [from |-> Head(queue[s]).from, serial |-> serial[s]]
  <2>1. queue' \in [Sessions -> Seq(Task)] /\ f \in Frame
    <3>1. queue' \in [Sessions -> Seq(Task)] /\ Head(queue[s]).from \in Callers
      BY <1>5, NextTaskShape DEF Send
    <3>2. serial[s] \in Nat
      BY SerialProperties DEF Shape
    <3>3. QED
      BY <3>1, <3>2 DEF Frame
  <2>2. sending' = [sending EXCEPT ![s] = f] /\ down' = [down EXCEPT ![s] = Append(@, f)]
    BY <1>5 DEF Send
  <2>3. Append(down[s], f) \in Seq(Frame)
    BY <2>1, AppendAt DEF Shape
  <2>4. UNCHANGED <<calls, receiving, live, closed, up, used>>
        /\ serial' = [serial EXCEPT ![s] = (@ + 1) % (MaxSerial + 1)]
    BY <1>5 DEF Send
  <2>5. serial' \in [Sessions -> Serials]
    BY <2>4, SerialProperties DEF Shape
  <2> HIDE DEF f
  <2>6. QED
    BY <2>1, <2>2, <2>3, <2>4, <2>5 DEF Shape
<1>6. ASSUME NEW s \in Sessions, Sent(s) PROVE Shape'
  <2>1. sending[s] \in Frame
    BY <1>6 DEF Sent, Shape
  <2>2. sending[s].from \in Callers /\ sending[s].serial \in Nat
    BY <2>1 DEF Frame
  <2>3. CASE sending[s].from = NoRequest
    BY <1>6, <2>3 DEF Sent, Shape
  <2>4. CASE sending[s].from # NoRequest
    <3>1. sending[s].from \in Requests /\ KindOf[sending[s].from] \in Kinds
      BY <2>2, <2>4, DiagnosticsAssumption DEF Callers
    <3>2. [key |-> Key(s, ResponseTo(KindOf[sending[s].from]), sending[s].serial),
           call |-> sending[s].from] \in Waiter
      BY <2>2, <3>1, ResponseMessage DEF Key, Waiter
    <3>3. QED
      BY <1>6, <2>4, <3>1, <3>2 DEF Sent, Shape
  <2>5. QED
    BY <2>3, <2>4
<1>7. ASSUME NEW s \in Sessions, HandleItem(s) PROVE Shape'
  BY <1>7, NextTaskShape DEF HandleItem, Shape
<1>8. ASSUME NEW s \in Sessions, ResolveWaiter(s) PROVE Shape'
  <2>1. receiving[s] \in Response /\ receiving[s].from \in Callers
    BY <1>8 DEF ResolveWaiter, Shape, Response
  <2>2. QED
    BY <1>8, <2>1 DEF ResolveWaiter, Resolved, Shape, Done
<1>9. ASSUME NEW s \in Sessions, OnData(s) PROVE Shape'
  <2>1. Head(up[s]) \in Response /\ Tail(up[s]) \in Seq(Response)
    BY <1>9, TailAt DEF OnData, Shape
  <2>2. [kind |-> "rx", rx |-> Head(up[s])] \in Task
    BY <2>1 DEF Task
  <2>3. queue' \in [Sessions -> Seq(Task)]
    BY <1>9, <2>2, EnqueueShape DEF OnData
  <2>4. QED
    BY <1>9, <2>1, <2>3 DEF OnData, Shape
<1>10. ASSUME NEW s \in Sessions, StoreFails(s) PROVE Shape'
  BY <1>10 DEF StoreFails, Shape
<1>11. ASSUME NEW s \in Sessions, DeviceAnswers(s) PROVE Shape'
  <2>1. Head(down[s]) \in Frame /\ Tail(down[s]) \in Seq(Frame)
    BY <1>11, TailAt DEF DeviceAnswers, Shape
  <2>2. Head(down[s]).from \in Callers /\ Head(down[s]).serial \in Nat
    BY <2>1 DEF Frame
  <2>3. PICK msg \in {"0x0001", ResponseTo(KindOfCaller(Head(down[s]).from))} :
           up' = [up EXCEPT ![s] = Append(@, [from |-> Head(down[s]).from,
                                              serial |-> Head(down[s]).serial,
                                              msg |-> msg])]
    BY <1>11 DEF DeviceAnswers
  <2>4. [from |-> Head(down[s]).from, serial |-> Head(down[s]).serial, msg |-> msg]
          \in Response
    BY <2>2, ResponseMessage DEF Response
  <2>5. up' \in [Sessions -> Seq(Response)]
    BY <2>3, <2>4, AppendAt DEF Shape
  <2>6. UNCHANGED <<calls, session, live, closed, used>>
        /\ down' = [down EXCEPT ![s] = Tail(@)]
    BY <1>11 DEF DeviceAnswers
  <2>7. QED
    BY <2>1, <2>5, <2>6 DEF Shape
<1>12. CASE Close
  <2>1. << >> \in Seq(Frame) /\ << >> \in Seq(Response)
    BY EmptySeq
  <2>2. QED
    BY <1>12, <2>1 DEF Close, Shape
<1>13. CASE Connect
  BY <1>13, DiagnosticsAssumption DEF Connect, Shape, Sessions
<1>14. CASE UNCHANGED vars
  BY <1>14 DEF vars, Shape
<1>15. QED
  BY <1>1, <1>2, <1>3, <1>4, <1>5, <1>6, <1>7, <1>8, <1>9, <1>10, <1>11, <1>12, <1>13,
     <1>14 DEF Next, QueueStep

-----------------------------------------------------------------------------
(***************************************************************************)
(* Where a frame of a connection, and the response to it, may be           *)
(***************************************************************************)

\* A frame with serial n, sent by call r, or its response, is in transit on
\* session s or waits there for its turn.
InFlight(s, n, r) ==
  \/ \E i \in 1..Len(down[s]) : down[s][i].serial = n /\ down[s][i].from = r
  \/ \E i \in 1..Len(up[s]) : up[s][i].serial = n /\ up[s][i].from = r
  \/ \E i \in 1..Len(queue[s]) :
       queue[s][i].kind = "rx" /\ queue[s][i].rx.serial = n /\ queue[s][i].rx.from = r
  \/ receiving[s] # None /\ receiving[s].serial = n /\ receiving[s].from = r

BeingSent(s, n, r) ==
  sending[s] # None /\ sending[s].serial = n /\ sending[s].from = r

AwaitedBy(s, n, r) ==
  \E w \in waiters : w.key.session = s /\ w.key.serial = n /\ w.call = r

Known(s, n, r) == InFlight(s, n, r) \/ BeingSent(s, n, r) \/ AwaitedBy(s, n, r)

\* What loses frames only, or moves them to a place further on.
LEMMA FlightFewer ==
  ASSUME NEW s, NEW n, NEW r,
         \A i \in 1..Len(down'[s]) : \E j \in 1..Len(down[s]) : down'[s][i] = down[s][j],
         \A i \in 1..Len(up'[s]) : \E j \in 1..Len(up[s]) : up'[s][i] = up[s][j],
         \A i \in 1..Len(queue'[s]) : queue'[s][i].kind = "rx" =>
           \E j \in 1..Len(queue[s]) : queue'[s][i] = queue[s][j],
         receiving'[s] \in {receiving[s], None},
         InFlight(s, n, r)'
  PROVE  InFlight(s, n, r)
BY DEF InFlight

\* A session that the step is not about.
LEMMA FlightKept ==
  ASSUME NEW s, NEW n, NEW r, down'[s] = down[s], up'[s] = up[s], queue'[s] = queue[s],
         receiving'[s] = receiving[s], InFlight(s, n, r)'
  PROVE  InFlight(s, n, r)
BY DEF InFlight

LEMMA FlightTasks ==
  ASSUME Shape, NEW s \in Sessions, QueueStep(s) \/ StoreFails(s),
         NEW t \in Sessions, NEW n, NEW r, InFlight(t, n, r)'
  PROVE  InFlight(t, n, r) \/ (t = s /\ Send(s) /\ BeingSent(s, n, r)')
<1> USE DEF calls, session, network, used
<1>1. CASE t # s
  <2>1. /\ down'[t] = down[t] /\ up'[t] = up[t] /\ receiving'[t] = receiving[t]
        /\ queue'[t] = queue[t]
    BY <1>1 DEF Shape, QueueStep, StoreFails, SendFails, Send, Sent, HandleItem,
       ResolveWaiter, NextTask
  <2>2. QED
    BY <2>1, FlightKept
<1>2. CASE t = s /\ SendFails(s)
  <2>1. \A i \in 1..Len(queue'[s]) : i + 1 \in 1..Len(queue[s])
                                     /\ queue'[s][i] = queue[s][i + 1]
    BY <1>2, NextTaskShape DEF SendFails
  <2>2. UNCHANGED <<down, up, receiving>>
    BY <1>2 DEF SendFails
  <2>3. QED
    BY <1>2, <2>1, <2>2, FlightFewer
<1>3. CASE t = s /\ Send(s)
  <2> DEFINE f == [from |-> Head(queue[s]).from, serial |-> serial[s]]
  <2>1. /\ \A i \in 1..Len(queue'[s]) : i + 1 \in 1..Len(queue[s])
                                        /\ queue'[s][i] = queue[s][i + 1]
        /\ Head(queue[s]).from \in Callers
    BY <1>3, NextTaskShape DEF Send
  <2>2. f \in Frame
    BY <2>1, SerialProperties DEF Frame, Shape
  <2>3. UNCHANGED <<up, receiving>> /\ sending' = [sending EXCEPT ![s] = f]
        /\ down' = [down EXCEPT ![s] = Append(@, f)]
    BY <1>3 DEF Send
  <2>4. sending'[s] = f /\ down'[s] = Append(down[s], f) /\ f # None
    BY <2>2, <2>3, FrameIsSome DEF Shape
  <2>5. \A i \in 1..Len(down'[s]) :
          \/ i \in 1..Len(down[s]) /\ down'[s][i] = down[s][i]
          \/ down'[s][i] = f
    BY <2>2, <2>4, AppendAt DEF Shape
  <2> HIDE DEF f
  <2>6. QED
    BY <1>3, <2>1, <2>3, <2>4, <2>5 DEF InFlight, BeingSent
<1>4. CASE t = s /\ Sent(s)
  <2>1. UNCHANGED <<down, up, receiving, queue>>
    BY <1>4 DEF Sent
  <2>2. QED
    BY <1>4, <2>1, FlightKept
<1>5. CASE t = s /\ HandleItem(s)
  <2>1. /\ \A i \in 1..Len(queue'[s]) : i + 1 \in 1..Len(queue[s])
                                        /\ queue'[s][i] = queue[s][i + 1]
        /\ 1 \in 1..Len(queue[s]) /\ Head(queue[s]) = queue[s][1]
        /\ Head(queue[s]).kind = "rx"
    BY <1>5, NextTaskShape DEF HandleItem
  <2>2. UNCHANGED <<down, up>> /\ receiving'[s] = queue[s][1].rx
    BY <1>5, <2>1 DEF HandleItem, Shape
  <2>3. QED
    BY <1>5, <2>1, <2>2 DEF InFlight
<1>6. CASE t = s /\ (ResolveWaiter(s) \/ StoreFails(s))
  <2>1. UNCHANGED <<down, up, queue>> /\ receiving'[s] = None
    BY <1>6 DEF ResolveWaiter, StoreFails, Shape
  <2>2. QED
    BY <1>6, <2>1 DEF InFlight
<1>7. QED
  BY <1>1, <1>2, <1>3, <1>4, <1>5, <1>6 DEF QueueStep

LEMMA FlightStep ==
  ASSUME Shape, [Next]_vars, NEW t \in Sessions, NEW n, NEW r, InFlight(t, n, r)'
  PROVE  InFlight(t, n, r) \/ (Send(t) /\ BeingSent(t, n, r)')
<1> USE DEF calls, session, network, used
<1>1. ASSUME NEW s \in Sessions, QueueStep(s) \/ StoreFails(s)
      PROVE  InFlight(t, n, r) \/ (Send(t) /\ BeingSent(t, n, r)')
  BY <1>1, FlightTasks
<1>2. ASSUME NEW s \in Sessions, NEW q \in Callers,
             \/ Enqueue(s, [kind |-> "send", from |-> q])
             \/ UNCHANGED queue,
             UNCHANGED <<down, up, receiving>>
      PROVE  InFlight(t, n, r)
  <2>1. [kind |-> "send", from |-> q] \in Task
    BY DEF Task
  <2>2. \A i \in 1..Len(queue'[t]) : queue'[t][i].kind = "rx" =>
          i \in 1..Len(queue[t]) /\ queue'[t][i] = queue[t][i]
    BY <1>2, <2>1, EnqueueShape
  <2>3. QED
    BY <1>2, <2>2, FlightFewer
<1>3. ASSUME NEW q \in Requests, Request(q) \/ Timeout(q) PROVE InFlight(t, n, r)
  BY <1>2, <1>3 DEF Request, Timeout, Callers, Shape
<1>4. CASE TimeSync
  BY <1>2, <1>4 DEF TimeSync, Callers, Shape
<1>5. ASSUME NEW s \in Sessions, OnData(s) PROVE InFlight(t, n, r)
  <2>1. /\ Head(up[s]) \in Response /\ Head(up[s]) = up[s][1] /\ 1 \in 1..Len(up[s])
        /\ \A i \in 1..Len(Tail(up[s])) : i + 1 \in 1..Len(up[s])
                                          /\ Tail(up[s])[i] = up[s][i + 1]
    BY <1>5, TailAt DEF OnData, Shape
  <2>2. [kind |-> "rx", rx |-> Head(up[s])] \in Task
    BY <2>1 DEF Task
  <2>3. /\ \A i \in 1..Len(queue'[s]) :
             \/ i \in 1..Len(queue[s]) /\ queue'[s][i] = queue[s][i]
             \/ queue'[s][i] = [kind |-> "rx", rx |-> Head(up[s])]
        /\ \A q \in Sessions : q # s => queue'[q] = queue[q]
    BY <1>5, <2>2, EnqueueShape DEF OnData
  <2>4. /\ UNCHANGED <<down, receiving>> /\ up'[s] = Tail(up[s])
        /\ \A q \in Sessions : q # s => up'[q] = up[q]
    BY <1>5 DEF OnData, Shape
  <2>5. CASE t # s
    BY <2>3, <2>4, <2>5, FlightKept
  <2>6. CASE t = s
    <3>1. \A i \in 1..Len(up'[s]) : i + 1 \in 1..Len(up[s]) /\ up'[s][i] = up[s][i + 1]
      BY <2>1, <2>4
    <3>2. \A i \in 1..Len(queue'[s]) :
            \/ i \in 1..Len(queue[s]) /\ queue'[s][i] = queue[s][i]
            \/ queue'[s][i].rx = up[s][1]
      BY <2>1, <2>3
    <3>3. down'[s] = down[s] /\ receiving'[s] = receiving[s]
      BY <2>4
    <3>4. QED
      BY <2>1, <2>6, <3>1, <3>2, <3>3 DEF InFlight
  <2>7. QED
    BY <2>5, <2>6
<1>6. ASSUME NEW s \in Sessions, DeviceAnswers(s) PROVE InFlight(t, n, r)
  <2>1. /\ Head(down[s]) \in Frame /\ Head(down[s]) = down[s][1] /\ 1 \in 1..Len(down[s])
        /\ \A i \in 1..Len(Tail(down[s])) : i + 1 \in 1..Len(down[s])
                                            /\ Tail(down[s])[i] = down[s][i + 1]
    BY <1>6, TailAt DEF DeviceAnswers, Shape
  <2>2. PICK msg \in {"0x0001", ResponseTo(KindOfCaller(Head(down[s]).from))} :
           up' = [up EXCEPT ![s] = Append(@, [from |-> Head(down[s]).from,
                                              serial |-> Head(down[s]).serial,
                                              msg |-> msg])]
    BY <1>6 DEF DeviceAnswers
  <2> DEFINE rsp == [from |-> Head(down[s]).from, serial |-> Head(down[s]).serial,
                     msg |-> msg]
  <2>3. rsp \in Response
    BY <2>1, ResponseMessage DEF Response, Frame
  <2>4. /\ rsp.from = down[s][1].from /\ rsp.serial = down[s][1].serial
        /\ up'[s] = Append(up[s], rsp)
        /\ \A q \in Sessions : q # s => up'[q] = up[q]
    BY <2>1, <2>2 DEF Shape
  <2> HIDE DEF rsp
  <2>5. \A i \in 1..Len(up'[s]) :
          \/ i \in 1..Len(up[s]) /\ up'[s][i] = up[s][i]
          \/ up'[s][i] = rsp
    BY <2>3, <2>4, AppendAt DEF Shape
  <2>6. /\ UNCHANGED <<queue, receiving>> /\ down' = [down EXCEPT ![s] = Tail(@)]
    BY <1>6 DEF DeviceAnswers
  <2>7. down'[s] = Tail(down[s]) /\ \A q \in Sessions : q # s => down'[q] = down[q]
    BY <2>6 DEF Shape
  <2>8. CASE t # s
    BY <2>4, <2>6, <2>7, <2>8, FlightKept
  <2>9. CASE t = s
    <3>1. \A i \in 1..Len(down'[s]) :
            i + 1 \in 1..Len(down[s]) /\ down'[s][i] = down[s][i + 1]
      BY <2>1, <2>7
    <3>2. \A i \in 1..Len(up'[s]) :
            \/ i \in 1..Len(up[s]) /\ up'[s][i] = up[s][i]
            \/ up'[s][i].from = down[s][1].from /\ up'[s][i].serial = down[s][1].serial
      BY <2>4, <2>5
    <3>3. queue'[s] = queue[s] /\ receiving'[s] = receiving[s]
      BY <2>6
    <3>4. QED
      BY <2>1, <2>9, <3>1, <3>2, <3>3 DEF InFlight
  <2>10. QED
    BY <2>8, <2>9
<1>7. CASE Close
  <2>1. /\ UNCHANGED <<queue, receiving>>
        /\ (down'[t] = down[t] \/ Len(down'[t]) = 0)
        /\ (up'[t] = up[t] \/ Len(up'[t]) = 0)
    BY <1>7 DEF Close, Shape
  <2>2. QED
    BY <2>1 DEF InFlight
<1>8. CASE Connect \/ UNCHANGED vars
  BY <1>8, FlightKept DEF Connect, vars
<1>9. QED
  BY <1>1, <1>3, <1>4, <1>5, <1>6, <1>7, <1>8 DEF Next

-----------------------------------------------------------------------------
(***************************************************************************)
(* A serial of a connection has one origin.                                *)
(***************************************************************************)

\* No connection has used up its serials.
SerialsLast == \A s \in Sessions : serial[s] < MaxSerial

LEMMA SendingStep ==
  ASSUME Shape, [Next]_vars, NEW t \in Sessions
  PROVE  \/ sending'[t] \in {sending[t], None} /\ serial'[t] = serial[t]
         \/ /\ Send(t) /\ sending[t] = None /\ receiving'[t] = receiving[t]
            /\ sending'[t].serial = serial[t] /\ serial[t] \in Nat
            /\ serial[t] < MaxSerial => serial'[t] = serial[t] + 1
<1> USE DEF calls, session, network, used
<1>1. ASSUME NEW s \in Sessions, Send(s)
      PROVE  /\ s # t => sending'[t] = sending[t] /\ serial'[t] = serial[t]
             /\ s = t => /\ sending[t] = None /\ receiving'[t] = receiving[t]
                         /\ sending'[t].serial = serial[t] /\ serial[t] \in Nat
                         /\ serial[t] < MaxSerial => serial'[t] = serial[t] + 1
  <2> DEFINE f == [from |-> Head(queue[s]).from, serial |-> serial[s]]
  <2>1. /\ sending' = [sending EXCEPT ![s] = f] /\ receiving' = receiving
        /\ serial' = [serial EXCEPT ![s] = (@ + 1) % (MaxSerial + 1)]
        /\ sending[s] = None
    BY <1>1 DEF Send, NextTask, Free
  <2>2. f.serial = serial[s]
    OBVIOUS
  <2> HIDE DEF f
  <2>3. /\ sending'[s] = f /\ serial'[s] = (serial[s] + 1) % (MaxSerial + 1)
        /\ s # t => sending'[t] = sending[t] /\ serial'[t] = serial[t]
        /\ serial[s] \in Serials
    BY <2>1 DEF Shape
  <2>4. QED
    BY <2>1, <2>2, <2>3, SerialProperties
<1>2. ASSUME NEW s \in Sessions, (QueueStep(s) /\ ~Send(s)) \/ OnData(s) \/ StoreFails(s)
                                 \/ DeviceAnswers(s)
      PROVE  sending'[t] \in {sending[t], None} /\ serial'[t] = serial[t]
  BY <1>2 DEF QueueStep, SendFails, Sent, HandleItem, ResolveWaiter, OnData, StoreFails,
     DeviceAnswers, Shape
<1>3. ASSUME \/ \E q \in Requests : Request(q) \/ Timeout(q)
             \/ TimeSync \/ Close \/ Connect \/ UNCHANGED vars
      PROVE  sending'[t] = sending[t] /\ serial'[t] = serial[t]
  BY <1>3 DEF Request, Timeout, TimeSync, Close, Connect, vars
<1>4. QED
  BY <1>1, <1>2, <1>3 DEF Next, QueueStep

LEMMA WaitersStep ==
  ASSUME Shape, [Next]_vars, NEW t \in Sessions, NEW n, NEW r, AwaitedBy(t, n, r)'
  PROVE  AwaitedBy(t, n, r) \/ BeingSent(t, n, r)
<1> USE DEF calls, session, network, used
<1>1. ASSUME NEW s \in Sessions, Sent(s), sending[s].from # NoRequest
      PROVE  AwaitedBy(t, n, r) \/ BeingSent(t, n, r)
  <2>1. /\ sending[s] # None
        /\ waiters' = waiters \cup
             {[key |-> Key(s, ResponseTo(KindOf[sending[s].from]), sending[s].serial),
               call |-> sending[s].from]}
    BY <1>1 DEF Sent
  <2>2. QED
    BY <2>1 DEF AwaitedBy, BeingSent, Key
<1>2. ASSUME waiters' \subseteq waiters PROVE AwaitedBy(t, n, r)
  BY <1>2 DEF AwaitedBy
<1>3. ASSUME NEW s \in Sessions, Sent(s), sending[s].from = NoRequest
      PROVE  waiters' \subseteq waiters
  BY <1>3 DEF Sent
<1>4. ASSUME NEW s \in Sessions, SendFails(s) \/ Send(s) \/ HandleItem(s) \/ OnData(s)
                                 \/ StoreFails(s) \/ DeviceAnswers(s) \/ ResolveWaiter(s)
      PROVE  waiters' \subseteq waiters
  BY <1>4 DEF SendFails, Send, HandleItem, ResolveWaiter, Resolved, OnData, StoreFails,
     DeviceAnswers
<1>5. ASSUME \/ \E q \in Requests : Request(q) \/ Timeout(q)
             \/ TimeSync \/ Close \/ Connect \/ UNCHANGED vars
      PROVE  waiters' \subseteq waiters
  BY <1>5 DEF Request, Timeout, Forgotten, TimeSync, Close, Connect, vars
<1>6. QED
  BY <1>1, <1>2, <1>3, <1>4, <1>5 DEF Next, QueueStep

\* A frame, its response and its waiter have a serial that was given out, and
\* those of a session with the same serial come from the same call.
OneOrigin ==
  \A s \in Sessions : \A n, r :
    Known(s, n, r) => /\ n \in Nat /\ n < serial[s]
                      /\ \A q : Known(s, n, q) => q = r

LEMMA OriginInit == Init => OneOrigin
<1> SUFFICES ASSUME Init, NEW s \in Sessions, NEW n, NEW r, Known(s, n, r) PROVE FALSE
  BY DEF OneOrigin
<1>1. Len(<< >>) = 0
  OBVIOUS
<1>2. ~InFlight(s, n, r)
  BY <1>1 DEF Init, InFlight
<1>3. ~BeingSent(s, n, r)
  BY DEF Init, BeingSent
<1>4. ~AwaitedBy(s, n, r)
  BY DEF Init, AwaitedBy
<1>5. QED
  BY <1>2, <1>3, <1>4 DEF Known

LEMMA OriginStep == Shape /\ SerialsLast /\ OneOrigin /\ [Next]_vars => OneOrigin'
<1> SUFFICES ASSUME Shape, SerialsLast, OneOrigin, [Next]_vars,
                    NEW s \in Sessions, NEW n, NEW r, Known(s, n, r)'
             PROVE  /\ n \in Nat /\ n < serial'[s]
                    /\ \A q : Known(s, n, q)' => q = r
  BY DEF OneOrigin
<1>1. \A p : AwaitedBy(s, n, p)' => AwaitedBy(s, n, p) \/ BeingSent(s, n, p)
  BY WaitersStep
<1>2. \A p : InFlight(s, n, p)' => InFlight(s, n, p) \/ (Send(s) /\ BeingSent(s, n, p)')
  BY FlightStep
<1>3. CASE sending'[s] \in {sending[s], None} /\ serial'[s] = serial[s]
  <2>1. \A p : BeingSent(s, n, p)' => BeingSent(s, n, p)
    BY <1>3 DEF BeingSent
  <2>2. \A p : Known(s, n, p)' => Known(s, n, p)
    BY <1>1, <1>2, <2>1 DEF Known
  <2>3. QED
    BY <1>3, <2>2 DEF OneOrigin
<1>4. CASE /\ sending[s] = None /\ sending'[s].serial = serial[s] /\ serial[s] \in Nat
           /\ serial[s] < MaxSerial => serial'[s] = serial[s] + 1
  <2>1. serial'[s] = serial[s] + 1
    BY <1>4 DEF SerialsLast
  <2>2. \A p : BeingSent(s, n, p)' => n = serial[s] /\ sending'[s].from = p
    BY <1>4 DEF BeingSent
  <2>3. \A p : Known(s, n, p)' => Known(s, n, p) \/ (n = serial[s] /\ sending'[s].from = p)
    BY <1>1, <1>2, <2>2 DEF Known
  <2>4. \A p : Known(s, n, p) => n \in Nat /\ n < serial[s]
    BY DEF OneOrigin
  <2>5. CASE n = serial[s]
    <3>1. \A p : ~Known(s, n, p)
      BY <1>4, <2>4, <2>5
    <3>2. QED
      BY <1>4, <2>1, <2>3, <2>5, <3>1
  <2>6. CASE n # serial[s]
    <3>1. \A p : Known(s, n, p)' => Known(s, n, p)
      BY <2>3, <2>6
    <3>2. QED
      BY <1>4, <2>1, <2>4, <3>1 DEF OneOrigin
  <2>7. QED
    BY <2>5, <2>6
<1>5. QED
  BY <1>3, <1>4, SendingStep

-----------------------------------------------------------------------------
(***************************************************************************)
(* The order of registration and response                                  *)
(***************************************************************************)

Heard == {"waiting"} \cup Done

\* One task of a session at a time.
Turn == \A s \in Sessions : sending[s] = None \/ receiving[s] = None

\* Before the response of a call can be processed the call waits for it, or the
\* task that sent its frame is still running.
Registered ==
  \A s \in Sessions, r \in Requests : \A n :
    InFlight(s, n, r) => \/ call[r] \in Heard
                         \/ sending[s] # None /\ sending[s].from = r

LEMMA TurnStep == Shape /\ Turn /\ [Next]_vars => Turn'
<1> SUFFICES ASSUME Shape, Turn, [Next]_vars, NEW t \in Sessions
             PROVE  sending'[t] = None \/ receiving'[t] = None
  BY DEF Turn
<1> USE DEF calls, session, network, used
<1>1. CASE Send(t)
  BY <1>1 DEF Send, NextTask, Free
<1>2. CASE sending'[t] \in {sending[t], None}
  <2>1. receiving'[t] \in {receiving[t], None} \/ HandleItem(t)
    <3>1. ASSUME NEW s \in Sessions, QueueStep(s) \/ OnData(s) \/ StoreFails(s)
                                     \/ DeviceAnswers(s), ~(HandleItem(s) /\ s = t)
          PROVE  receiving'[t] \in {receiving[t], None}
      BY <3>1 DEF QueueStep, SendFails, Send, Sent, HandleItem, ResolveWaiter, OnData,
         StoreFails, DeviceAnswers, Shape
    <3>2. ASSUME \/ \E q \in Requests : Request(q) \/ Timeout(q)
                 \/ TimeSync \/ Close \/ Connect \/ UNCHANGED vars
          PROVE  receiving'[t] = receiving[t]
      BY <3>2 DEF Request, Timeout, TimeSync, Close, Connect, vars
    <3>3. QED
      BY <3>1, <3>2 DEF Next
  <2>2. HandleItem(t) => sending'[t] = None
    BY DEF HandleItem, NextTask, Free
  <2>3. QED
    BY <1>2, <2>1, <2>2 DEF Turn
<1>3. QED
  BY <1>1, <1>2, SendingStep

LEMMA CallStep ==
  ASSUME Shape, [Next]_vars, NEW r \in Requests
  PROVE  /\ call[r] \in Heard => call'[r] \in Heard
         /\ \A s \in Sessions : sending[s] # None /\ sending[s].from = r =>
              sending'[s] = sending[s] \/ call'[r] \in Heard
<1> USE DEF calls, session, network, used, Heard, Done
<1>1. ASSUME NEW s \in Sessions, Sent(s)
      PROVE  /\ call[r] \in Heard => call'[r] \in Heard
             /\ \A t \in Sessions : t # s => sending'[t] = sending[t]
             /\ sending[s] # None /\ sending[s].from = r => call'[r] \in Heard
  <2>1. r # NoRequest
    BY DiagnosticsAssumption
  <2>2. sending' = [sending EXCEPT ![s] = None]
    BY <1>1 DEF Sent
  <2>3. CASE sending[s].from = NoRequest
    BY <1>1, <2>1, <2>2, <2>3 DEF Sent, Shape
  <2>4. CASE sending[s].from # NoRequest
    <3>1. call' = [call EXCEPT ![sending[s].from] = "waiting"]
      BY <1>1, <2>4 DEF Sent
    <3>2. QED
      BY <2>2, <3>1 DEF Shape
  <2>5. QED
    BY <2>3, <2>4
<1>2. ASSUME NEW s \in Sessions, Send(s)
      PROVE  /\ call' = call
             /\ \A t \in Sessions : t # s => sending'[t] = sending[t]
             /\ sending[s] = None
  BY <1>2 DEF Send, NextTask, Free, Shape
<1>3. ASSUME NEW s \in Sessions, SendFails(s)
      PROVE  call'[r] \in {call[r], "failed"} /\ sending' = sending
  BY <1>3 DEF SendFails, Rejected, Shape
<1>4. ASSUME NEW s \in Sessions, ResolveWaiter(s)
      PROVE  call'[r] \in {call[r], "answered"} /\ sending' = sending
  BY <1>4 DEF ResolveWaiter, Shape
<1>5. ASSUME NEW q \in Requests, Request(q)
      PROVE  /\ call[r] \in Heard => call'[r] \in Heard
             /\ sending' = sending
  BY <1>5 DEF Request, Shape
<1>6. ASSUME NEW q \in Requests, Timeout(q)
      PROVE  call'[r] \in {call[r], "no_response"} /\ sending' = sending
  BY <1>6 DEF Timeout, Shape
<1>7. ASSUME NEW s \in Sessions, HandleItem(s) \/ OnData(s) \/ StoreFails(s)
                                 \/ DeviceAnswers(s)
      PROVE  call' = call /\ sending' = sending
  BY <1>7 DEF HandleItem, OnData, StoreFails, DeviceAnswers
<1>8. CASE TimeSync \/ Close \/ Connect \/ UNCHANGED vars
  BY <1>8 DEF TimeSync, Close, Connect, vars
<1>9. QED
  BY <1>1, <1>2, <1>3, <1>4, <1>5, <1>6, <1>7, <1>8 DEF Next, QueueStep

LEMMA RegisteredStep == Shape /\ Registered /\ [Next]_vars => Registered'
<1> SUFFICES ASSUME Shape, Registered, [Next]_vars, NEW s \in Sessions, NEW r \in Requests,
                    NEW n, InFlight(s, n, r)'
             PROVE  \/ call'[r] \in Heard
                    \/ sending'[s] # None /\ sending'[s].from = r
  BY DEF Registered, Heard
<1>1. CASE BeingSent(s, n, r)'
  BY <1>1 DEF BeingSent
<1>2. CASE InFlight(s, n, r)
  <2>1. call[r] \in Heard \/ (sending[s] # None /\ sending[s].from = r)
    BY <1>2 DEF Registered
  <2>2. QED
    BY <2>1, CallStep
<1>3. QED
  BY <1>1, <1>2, FlightStep

\* The response to a call is never processed before the call waits for it: the
\* task that sends the frame registers the waiter before the queue goes on.
THEOREM ResponsesAreAwaited == Spec => []NoResponseTooEarly
<1> DEFINE Inv == Shape /\ Turn /\ Registered
<1>1. Init => Inv
  <2>1. Init => Turn /\ Registered
    <3>1. Len(<< >>) = 0
      OBVIOUS
    <3>2. QED
      BY <3>1 DEF Init, Turn, Registered, InFlight
  <2>2. QED
    BY <2>1, ShapeInit
<1>2. Inv /\ [Next]_vars => Inv'
  BY ShapeStep, TurnStep, RegisteredStep
<1>3. Inv => NoResponseTooEarly
  <2> SUFFICES ASSUME Inv, NEW s \in Sessions, receiving[s] # None,
                      receiving[s].from \in Requests
               PROVE  call[receiving[s].from] \in Heard
    BY DEF NoResponseTooEarly, Heard
  <2>1. InFlight(s, receiving[s].serial, receiving[s].from)
    BY DEF InFlight
  <2>2. sending[s] = None
    BY DEF Turn
  <2>3. QED
    BY <2>1, <2>2 DEF Registered
<1> HIDE DEF Inv
<1>4. QED
  BY <1>1, <1>2, <1>3, PTL DEF Spec

-----------------------------------------------------------------------------
(***************************************************************************)
(* Answers                                                                 *)
(***************************************************************************)

LEMMA AnswerStep ==
  Shape /\ OneOrigin /\ AnswersAreOwn /\ [Next]_vars => AnswersAreOwn'
<1> SUFFICES ASSUME Shape, OneOrigin, AnswersAreOwn, [Next]_vars PROVE AnswersAreOwn'
  OBVIOUS
<1> USE DEF calls, session, network, used
<1>1. ASSUME NEW s \in Sessions, ResolveWaiter(s) PROVE AnswersAreOwn'
  <2> DEFINE rx == receiving[s]
             found == {w \in waiters : w.key = Key(s, rx.msg, rx.serial)}
  <2>1. /\ rx # None
        /\ answer' = [r \in Requests |-> IF \E w \in found : w.call = r
                                         THEN rx.from ELSE answer[r]]
    BY <1>1 DEF ResolveWaiter
  <2>2. ASSUME NEW w \in found PROVE w.call = rx.from
    <3>1. w.key.session = s /\ w.key.serial = rx.serial
      BY <2>2 DEF Key
    <3>2. AwaitedBy(s, rx.serial, w.call)
      BY <2>2, <3>1 DEF AwaitedBy
    <3>3. InFlight(s, rx.serial, rx.from)
      BY <2>1 DEF InFlight
    <3>4. QED
      BY <3>2, <3>3 DEF OneOrigin, Known
  <2> HIDE DEF rx, found
  <2>3. QED
    BY <2>1, <2>2 DEF AnswersAreOwn
<1>2. ASSUME NEW s \in Sessions, SendFails(s) \/ Send(s) \/ Sent(s) \/ HandleItem(s)
                                 \/ OnData(s) \/ StoreFails(s) \/ DeviceAnswers(s)
      PROVE  answer' = answer
  BY <1>2 DEF SendFails, Send, Sent, HandleItem, OnData, StoreFails, DeviceAnswers
<1>3. ASSUME \/ \E q \in Requests : Request(q) \/ Timeout(q)
             \/ TimeSync \/ Close \/ Connect \/ UNCHANGED vars
      PROVE  answer' = answer
  BY <1>3 DEF Request, Timeout, TimeSync, Close, Connect, vars
<1>4. QED
  BY <1>1, <1>2, <1>3 DEF Next, QueueStep, AnswersAreOwn

\* Until a connection has used up its serials, a call is given the response to
\* its own frame: a serial of a connection has one origin.
THEOREM AnswersBelong == Spec /\ []SerialsLast => []AnswersAreOwn
<1> DEFINE Inv == Shape /\ OneOrigin /\ AnswersAreOwn
<1>1. Init => Inv
  BY ShapeInit, OriginInit DEF Init, AnswersAreOwn
<1>2. Inv /\ SerialsLast /\ [Next]_vars => Inv'
  BY ShapeStep, OriginStep, AnswerStep
<1>3. Inv => AnswersAreOwn
  OBVIOUS
<1> HIDE DEF Inv
<1>4. QED
  BY <1>1, <1>2, <1>3, PTL DEF Spec

\* So far every part of the state has its type, and a waiter the serial of a
\* frame that its connection has sent.
THEOREM TypeCorrect == Spec /\ []SerialsLast => []TypeOK
<1> DEFINE Inv == Shape /\ OneOrigin
<1>1. Init => Inv
  BY ShapeInit, OriginInit
<1>2. Inv /\ SerialsLast /\ [Next]_vars => Inv'
  BY ShapeStep, OriginStep
<1>3. Inv => TypeOK
  <2> SUFFICES ASSUME Inv PROVE TypeOK
    OBVIOUS
  <2>1. ASSUME NEW w \in waiters
        PROVE  w.call \in Requests /\ w.key.session \in Sessions
               /\ w.key.serial < serial[w.key.session]
    <3>1. w.call \in Requests /\ w.key.session \in Sessions
      BY <2>1 DEF Shape, Waiter
    <3>2. AwaitedBy(w.key.session, w.key.serial, w.call)
      BY <2>1 DEF AwaitedBy
    <3>3. QED
      BY <3>1, <3>2 DEF OneOrigin, Known
  <2>2. QED
    BY <2>1 DEF Shape, TypeOK
<1> HIDE DEF Inv
<1>4. QED
  BY <1>1, <1>2, <1>3, PTL DEF Spec
=============================================================================
