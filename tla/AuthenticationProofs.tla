------------------------ MODULE AuthenticationProofs ------------------------
(***************************************************************************)
(* Theorems about Authentication: only known codes get in, and the row     *)
(* agrees with the device, for any configuration, connections and faults.  *)
(***************************************************************************)
EXTENDS Authentication, TLAPS

-----------------------------------------------------------------------------
(***************************************************************************)
(* One message of a handshake at a time                                    *)
(***************************************************************************)

Message  == {Auth(c) : c \in Codes \cup {Factory}} \cup {Register}
Response == [kind: {"success", "failure", "refused"}, code: {NoCode}]
            \cup [kind: {"issued"}, code: Codes]
Stored   == Codes \cup {Factory, NoCode}
Handling == [at: {"auth", "answer"}, code: Codes \cup {Factory}, stored: Stored,
             accept: BOOLEAN]
            \cup [at: {"register"}, code: {NoCode}, stored: Stored, accept: BOOLEAN]
            \cup [at: {"issue"}, code: Codes, stored: Stored, accept: BOOLEAN]

\* Where the message of connection s is.
Sent(s, m)     == up[s] = <<m>> /\ down[s] = << >> /\ queue[s] = << >> /\ step[s] = NoMsg
Received(s, m) == up[s] = << >> /\ down[s] = << >> /\ queue[s] = <<m>> /\ step[s] = NoMsg
Handled(s)     == up[s] = << >> /\ down[s] = << >> /\ queue[s] = << >> /\ step[s] \in Handling
Answered(s, r) == up[s] = << >> /\ down[s] = <<r>> /\ queue[s] = << >> /\ step[s] = NoMsg

\* A device and its session take turns.
OneMessage(s) ==
  \/ Quiet(s)
  \/ \E m \in Message : Sent(s, m) \/ Received(s, m)
  \/ Handled(s)
  \/ \E r \in Response : Answered(s, r)

Turns ==
  /\ TypeOK
  /\ up = [s \in Slots |-> up[s]] /\ down = [s \in Slots |-> down[s]]
  /\ queue = [s \in Slots |-> queue[s]] /\ step = [s \in Slots |-> step[s]]
  /\ \A s \in Slots : OneMessage(s)
  /\ \A s \in Slots : state[s] # "open" => up[s] = << >> /\ down[s] = << >>
  /\ phase = "authenticated" => Quiet(slot)

LEMMA One == \A x : /\ << x >> # << >> /\ Head(<<x>>) = x /\ Tail(<<x>>) = << >>
                    /\ Append(<< >>, x) = <<x>>
  OBVIOUS

LEMMA InitTurns == Init => Turns
BY AuthenticationAssumption DEF Init, Turns, TypeOK, OneMessage, Quiet, AllCodes

\* What the step of a connection does to another.
LEMMA OneKept ==
  ASSUME NEW s, OneMessage(s),
         up'[s] = up[s], down'[s] = down[s], queue'[s] = queue[s], step'[s] = step[s]
  PROVE  OneMessage(s)'
BY DEF OneMessage, Quiet, Sent, Received, Handled, Answered

\* Where a message is, seen from one of its places.
LEMMA Places ==
  ASSUME NEW s, OneMessage(s)
  PROVE  /\ up[s] # << >> => /\ Head(up[s]) \in Message /\ Sent(s, Head(up[s]))
                             /\ Tail(up[s]) = << >>
         /\ queue[s] # << >> => /\ Head(queue[s]) \in Message /\ Received(s, Head(queue[s]))
                                /\ Tail(queue[s]) = << >>
         /\ down[s] # << >> => /\ Head(down[s]) \in Response /\ Answered(s, Head(down[s]))
                               /\ Tail(down[s]) = << >>
         /\ step[s] # NoMsg => Handled(s)
BY One DEF OneMessage, Quiet, Sent, Received, Handled, Answered

\* The device's steps.
LEMMA DeviceTurns == Turns /\ (Device \/ Drop \/ Restart \/ Reconfigure) => Turns'
<1> SUFFICES ASSUME Turns, Device \/ Drop \/ Restart \/ Reconfigure PROVE Turns'
  OBVIOUS
<1> USE AuthenticationAssumption DEF device, network, session, used
<1>1. ASSUME NEW s \in Slots, Connect(s) PROVE Turns'
  <2>1. PICK forced \in ForceRegister :
           /\ phase' = IF forced THEN "register" ELSE "auth1"
           /\ up' = [up EXCEPT ![s] = <<IF forced THEN Register ELSE Auth(Initial)>>]
    BY <1>1 DEF Connect
  <2>2. (IF forced THEN Register ELSE Auth(Initial)) \in Message
    BY DEF Message, Initial, Turns, TypeOK
  <2>3. OneMessage(s)'
    BY <1>1, <2>1, <2>2 DEF Connect, Turns, TypeOK, Quiet, OneMessage, Sent
  <2>4. \A t \in Slots : t # s => OneMessage(t)'
    BY <1>1, <2>1, OneKept DEF Connect, Turns
  <2>5. TypeOK'
    BY <1>1, <2>1 DEF Connect, Turns, TypeOK, Quiet
  <2>6. QED
    BY <1>1, <2>1, <2>3, <2>4, <2>5 DEF Connect, Turns, TypeOK
<1>2. CASE OnAccepted
  <2>1. slot \in Slots /\ Answered(slot, Head(down[slot])) /\ Tail(down[slot]) = << >>
    BY <1>2, Places DEF OnAccepted, Hear, Turns, TypeOK
  <2>2. Quiet(slot)'
    BY <1>2, <2>1 DEF OnAccepted, Turns, Answered, Quiet
  <2>3. \A t \in Slots : t # slot => OneMessage(t)'
    BY <1>2, <2>1, OneKept DEF OnAccepted, Turns
  <2>4. TypeOK'
    BY <1>2, <2>1, <2>2 DEF OnAccepted, Turns, TypeOK, Quiet
  <2>5. QED
    BY <1>2, <2>1, <2>2, <2>3, <2>4 DEF OnAccepted, Turns, OneMessage, Quiet
<1>3. ASSUME NEW m \in Message, slot \in Slots, down[slot] # << >>,
             down' = [down EXCEPT ![slot] = Tail(@)], up' = [up EXCEPT ![slot] = Append(@, m)],
             UNCHANGED <<slot, state, queue, step>>
      PROVE  (\A t \in Slots : OneMessage(t)') /\ ~Quiet(slot)
  <2>1. Answered(slot, Head(down[slot])) /\ Tail(down[slot]) = << >>
    BY <1>3, Places DEF Turns
  <2>2. Sent(slot, m)'
    BY <1>3, <2>1, One DEF Turns, Answered, Sent
  <2>3. \A t \in Slots : t # slot => OneMessage(t)'
    BY <1>3, OneKept DEF Turns
  <2>4. QED
    BY <1>3, <2>2, <2>3 DEF OneMessage, Quiet
<1>4. CASE OnRefused
  <2>1. slot \in Slots /\ Register \in Message
    BY DEF Turns, TypeOK, Message
  <2>2. (\A t \in Slots : OneMessage(t)') /\ ~Quiet(slot)
    BY <1>3, <1>4, <2>1 DEF OnRefused, Hear
  <2>3. TypeOK'
    BY <1>4, <2>2 DEF OnRefused, Turns, TypeOK, Quiet, Hear
  <2>4. QED
    BY <1>4, <2>1, <2>2, <2>3 DEF OnRefused, Turns, Hear, TypeOK
<1>5. CASE OnRegistrationResponse
  <2>1. slot \in Slots /\ Head(down[slot]) \in Response
    BY <1>5, Places DEF Turns, TypeOK, OnRegistrationResponse, Hear
  <2>2. authCode' \in Codes
    BY <1>5, <2>1 DEF OnRegistrationResponse, Hear, Response
  <2>3. Auth(authCode') \in Message
    BY <2>2 DEF Message
  <2>4. (\A t \in Slots : OneMessage(t)') /\ ~Quiet(slot)
    BY <1>3, <1>5, <2>1, <2>3 DEF OnRegistrationResponse, Hear
  <2>5. TypeOK'
    BY <1>5, <2>2, <2>4 DEF OnRegistrationResponse, Turns, TypeOK, Quiet, Hear
  <2>6. QED
    BY <1>5, <2>1, <2>4, <2>5 DEF OnRegistrationResponse, Turns, TypeOK, Hear
<1>6. ASSUME Closed, phase # "off", UNCHANGED <<authCode, slot, session, row, config, admitted>>,
             faults' \in 0..MaxFaults, failures' \in 0..MaxStoreFailures
      PROVE  Turns'
  <2>1. slot \in Slots
    BY DEF Turns, TypeOK
  <2>2. OneMessage(slot)'
    BY <1>6, <2>1 DEF Turns, Closed, OneMessage, Quiet, Sent, Received, Handled, Answered
  <2>3. \A t \in Slots : t # slot => OneMessage(t)'
    BY <1>6, OneKept DEF Turns, Closed
  <2>4. TypeOK'
    BY <1>6 DEF Turns, TypeOK, Closed, Quiet
  <2>5. QED
    BY <1>6, <2>2, <2>3, <2>4 DEF Turns, Closed, TypeOK
<1>7. CASE GiveUp \/ Timeout
  BY <1>6, <1>7 DEF GiveUp, Timeout, Hear, Turns, TypeOK
<1>8. CASE Drop
  <2>1. faults' \in 0..MaxFaults
    BY <1>8 DEF Drop, Fault, Turns, TypeOK
  <2>2. QED
    BY <1>6, <1>8, <2>1 DEF Drop, Turns, TypeOK
<1>9. CASE Restart
  <2>1. TypeOK'
    BY <1>9 DEF Restart, Fault, Turns, TypeOK, Quiet
  <2>2. \A t \in Slots : OneMessage(t)'
    BY <1>9, OneKept DEF Restart, Turns
  <2>3. QED
    BY <1>9, <2>1, <2>2 DEF Restart, Turns, Quiet
<1>10. CASE Reconfigure
  <2>1. TypeOK'
    BY <1>10 DEF Reconfigure, Turns, TypeOK, Quiet
  <2>2. \A t \in Slots : OneMessage(t)'
    BY <1>10, OneKept DEF Reconfigure, Turns
  <2>3. QED
    BY <1>10, <2>1, <2>2 DEF Reconfigure, Turns, Quiet
<1>11. QED
  BY <1>1, <1>2, <1>4, <1>5, <1>7, <1>8, <1>9, <1>10 DEF Device

\* A step that leaves the state of every socket alone and moves the message of
\* a connection that has one.
LEMMA MessageMoves ==
  ASSUME Turns, TypeOK', NEW s \in Slots, ~Quiet(s), OneMessage(s)', UNCHANGED <<device, state>>,
         NEW q, NEW u, NEW d, NEW h,
         up' = [up EXCEPT ![s] = u], down' = [down EXCEPT ![s] = d],
         queue' = [queue EXCEPT ![s] = q], step' = [step EXCEPT ![s] = h],
         state[s] # "open" => u = << >> /\ d = << >>
  PROVE  Turns'
<1>1. \A t \in Slots : t # s => /\ OneMessage(t)' /\ up'[t] = up[t] /\ down'[t] = down[t]
                                /\ queue'[t] = queue[t] /\ step'[t] = step[t]
  BY OneKept DEF Turns
<1>2. phase' = "authenticated" => slot # s
  BY DEF Turns, device
<1>3. slot' \in Slots /\ slot' = slot /\ phase' = phase
  BY DEF TypeOK, device
<1>4. phase' = "authenticated" => Quiet(slot)'
  BY <1>1, <1>2, <1>3 DEF Turns, Quiet
<1>5. QED
  BY <1>1, <1>4 DEF Turns

LEMMA WriteElsewhere ==
  ASSUME Turns, NEW s, NEW m, Write(s, m), NEW t \in Slots, t # s
  PROVE  down'[t] = down[t]
BY DEF Write, Turns

\* A handler goes on or ends, with or without a response.
LEMMA HandlerMoves ==
  ASSUME Turns, TypeOK', NEW s \in Slots, step[s] # NoMsg, NEW h,
         UNCHANGED <<device, state, up, queue>>, step' = [step EXCEPT ![s] = h],
         \/ h \in Handling /\ down' = down
         \/ h = NoMsg /\ down' = down
         \/ h = NoMsg /\ \E r \in Response : Write(s, r)
  PROVE  Turns'
<1>1. Handled(s) /\ ~Quiet(s)
  BY Places DEF Turns, Quiet
<1>2. PICK d : /\ down' = [down EXCEPT ![s] = d]
               /\ state[s] # "open" => d = << >>
               /\ d = << >> \/ (h = NoMsg /\ \E r \in Response : d = <<r>>)
  <2>1. ASSUME down' = down PROVE down' = [down EXCEPT ![s] = << >>]
    BY <1>1, <2>1 DEF Handled, Turns
  <2>2. ASSUME NEW r \in Response, Write(s, r), h = NoMsg, state[s] = "open"
        PROVE  down' = [down EXCEPT ![s] = <<r>>]
    BY <1>1, <2>2, One DEF Write, Handled
  <2>3. QED
    BY <2>1, <2>2 DEF Write
<1>3. up' = [up EXCEPT ![s] = << >>] /\ queue' = [queue EXCEPT ![s] = << >>]
  BY <1>1 DEF Handled, Turns
<1>4. up'[s] = << >> /\ queue'[s] = << >> /\ down'[s] = d /\ step'[s] = h
  BY <1>2, <1>3 DEF Turns
<1>5. OneMessage(s)'
  BY <1>2, <1>4 DEF OneMessage, Quiet, Handled, Answered
<1>6. QED
  BY <1>1, <1>2, <1>3, <1>5, MessageMoves

LEMMA HandlingTypes ==
  ASSUME NEW h \in Handling
  PROVE  /\ h.at \in {"auth", "answer", "register", "issue"} /\ h.stored \in Stored
         /\ h.accept \in BOOLEAN /\ h.code \in Stored
         /\ h.at \in {"auth", "answer"} => h.code \in Codes \cup {Factory}
         /\ h.at = "issue" => h.code \in Codes
BY DEF Handling, Stored

\* The platform's steps.
LEMMA PlatformTurns ==
  ASSUME Turns, NEW s \in Slots, Platform(s) \/ StoreFails(s)
  PROVE  Turns'
<1> USE AuthenticationAssumption DEF device, network, session, used
<1>1. CASE OnData(s)
  <2>1. PICK m \in Message : m = Head(up[s]) /\ Sent(s, m) /\ Tail(up[s]) = << >>
    BY <1>1, Places DEF OnData, Turns
  <2>2. Received(s, m)' /\ ~Quiet(s)
    <3>1. up'[s] = << >> /\ queue'[s] = <<m>> /\ down'[s] = << >> /\ step'[s] = NoMsg
      BY <1>1, <2>1, One DEF OnData, Turns, Sent
    <3>2. QED
      BY <1>1, <3>1 DEF OnData, Received, Quiet
  <2>3. TypeOK'
    BY <1>1, <2>1, <2>2 DEF OnData, Turns, TypeOK, Quiet
  <2>4. /\ up' = [up EXCEPT ![s] = Tail(up[s])] /\ down' = [down EXCEPT ![s] = down[s]]
        /\ queue' = [queue EXCEPT ![s] = <<m>>]
        /\ step' = [step EXCEPT ![s] = step[s]] /\ state[s] = "open"
    BY <1>1, <2>1, One DEF OnData, Turns, Sent
  <2>5. OneMessage(s)'
    BY <2>1, <2>2 DEF OneMessage
  <2>6. QED
    <3>1. UNCHANGED <<device, state>>
      BY <1>1 DEF OnData
    <3>2. QED
      BY <2>2, <2>3, <2>4, <2>5, <3>1, MessageMoves
<1>2. CASE HandleItem(s)
  <2> DEFINE m == Head(queue[s])
             h == [at |-> m.kind, code |-> m.code, stored |-> row.code, accept |-> FALSE]
  <2>1. Received(s, m) /\ m \in Message /\ Tail(queue[s]) = << >>
    BY <1>2, Places DEF HandleItem, Turns
  <2>2. h \in Handling
    BY <2>1 DEF Turns, TypeOK, Handling, Message, Auth, Register, AllCodes, Stored
  <2>3. step' = [step EXCEPT ![s] = h] /\ queue' = [queue EXCEPT ![s] = << >>]
    BY <1>2, <2>1 DEF HandleItem
  <2> HIDE DEF h
  <2>4. Handled(s)' /\ ~Quiet(s)
    BY <1>2, <2>1, <2>2, <2>3, One DEF HandleItem, Turns, Received, Handled, Quiet
  <2>5. TypeOK'
    BY <1>2, <2>4 DEF HandleItem, Turns, TypeOK, Quiet
  <2>6. /\ up' = [up EXCEPT ![s] = << >>] /\ down' = [down EXCEPT ![s] = << >>]
    BY <1>2, <2>1 DEF HandleItem, Turns, Received
  <2>7. OneMessage(s)'
    BY <2>4 DEF OneMessage
  <2>8. UNCHANGED <<device, state>>
    BY <1>2 DEF HandleItem
  <2>9. QED
    BY <2>3, <2>4, <2>5, <2>6, <2>7, <2>8, MessageMoves
<1>3. ASSUME step[s] # NoMsg PROVE step[s] \in Handling /\ ~Quiet(s)
  BY <1>3, Places DEF Turns, Quiet, Handled
<1>4. CASE OnAuthenticate(s)
  <2> DEFINE h == [step[s] EXCEPT !.at = "answer", !.accept = Accepts(step[s].code, step[s].stored)]
  <2>1. Accepts(step[s].code, step[s].stored) \in BOOLEAN
    BY DEF Accepts
  <2>2. h \in Handling
    BY <1>3, <1>4, <2>1 DEF OnAuthenticate, Handling
  <2>3. step' = [step EXCEPT ![s] = h]
    BY <1>4 DEF OnAuthenticate
  <2>4. row' \in [code : AllCodes, authenticated : BOOLEAN]
    BY <1>3, <1>4, <2>1, HandlingTypes DEF OnAuthenticate, Patch, Turns, TypeOK, AllCodes, Stored
  <2> HIDE DEF h
  <2>5. admitted' \subseteq {Factory}
    <3>1. step[s].code \in Codes \cup {Factory}
      BY <1>3, <1>4, HandlingTypes DEF OnAuthenticate
    <3>2. QED
      BY <1>4, <3>1 DEF OnAuthenticate, Turns, TypeOK
  <2>6. TypeOK'
    BY <1>3, <1>4, <2>3, <2>4, <2>5 DEF OnAuthenticate, Turns, TypeOK, Quiet
  <2>7. QED
    BY <1>4, <2>2, <2>3, <2>6, HandlerMoves DEF OnAuthenticate
<1>5. ASSUME step[s].at = "answer", step[s] # NoMsg,
             authenticated' = Outcome(s), presented' = [presented EXCEPT ![s] = step[s].code]
      PROVE  authenticated' \in [Slots -> BOOLEAN] /\ presented' \in [Slots -> AllCodes]
  <2>1. step[s].accept \in BOOLEAN /\ step[s].code \in AllCodes
    BY <1>3, <1>5, HandlingTypes DEF Stored, AllCodes
  <2>2. QED
    BY <1>5, <2>1 DEF Outcome, Turns, TypeOK
<1>6. CASE Answer(s)
  <2>1. [kind |-> IF step[s].accept THEN "success" ELSE "failure", code |-> NoCode] \in Response
    BY DEF Response
  <2>2. TypeOK'
    BY <1>3, <1>5, <1>6, WriteElsewhere DEF Answer, Turns, TypeOK, Quiet
  <2>3. QED
    BY <1>6, <2>1, <2>2, HandlerMoves DEF Answer
<1>7. CASE OnRegister(s)
  <2>1. PICK c \in Codes : /\ row' = [row EXCEPT !.code = c]
                           /\ step' = [step EXCEPT ![s].at = "issue", ![s].code = c]
    BY <1>7 DEF OnRegister, IssuedRow
  <2> DEFINE h == [step[s] EXCEPT !.at = "issue", !.code = c]
  <2>2. h \in Handling
    BY <1>3, <1>7 DEF OnRegister, Handling
  <2>3. step' = [step EXCEPT ![s] = h]
    BY <2>1
  <2>4. row' \in [code : AllCodes, authenticated : BOOLEAN]
    BY <2>1 DEF Turns, TypeOK, AllCodes
  <2> HIDE DEF h
  <2>5. TypeOK'
    BY <1>3, <1>7, <2>3, <2>4 DEF OnRegister, Turns, TypeOK, Quiet
  <2>6. QED
    BY <1>7, <2>2, <2>3, <2>5, HandlerMoves DEF OnRegister
<1>8. CASE Issue(s)
  <2>1. [kind |-> "issued", code |-> step[s].code] \in Response
    BY <1>3, <1>8, HandlingTypes DEF Issue, Response
  <2>2. TypeOK'
    BY <1>3, <1>8, WriteElsewhere DEF Issue, Turns, TypeOK, Quiet
  <2>3. QED
    BY <1>8, <2>1, <2>2, HandlerMoves DEF Issue
<1>9. CASE RefuseRegistration(s)
  <2>1. [kind |-> "refused", code |-> NoCode] \in Response
    BY DEF Response
  <2>2. TypeOK'
    BY <1>3, <1>9, WriteElsewhere DEF RefuseRegistration, Turns, TypeOK, Quiet
  <2>3. QED
    BY <1>9, <2>1, <2>2, HandlerMoves DEF RefuseRegistration
<1>10. CASE StoreFails(s)
  <2>1. authenticated' \in [Slots -> BOOLEAN] /\ presented' \in [Slots -> AllCodes]
    BY <1>5, <1>10 DEF StoreFails, Turns, TypeOK
  <2>2. failures' \in 0..MaxStoreFailures
    BY <1>10 DEF StoreFails, Turns, TypeOK
  <2>3. TypeOK'
    BY <1>3, <1>10, <2>1, <2>2 DEF StoreFails, Turns, TypeOK, Quiet
  <2>4. QED
    BY <1>10, <2>3, HandlerMoves DEF StoreFails
<1>11. CASE OnDisconnect(s)
  <2>1. Quiet(s)
    BY <1>11 DEF OnDisconnect, Turns, Quiet
  <2>2. row' \in [code : AllCodes, authenticated : BOOLEAN]
    BY <1>11 DEF OnDisconnect, Offline, Turns, TypeOK
  <2>3. presented' \in [Slots -> AllCodes] /\ authenticated' \in [Slots -> BOOLEAN]
    BY <1>11 DEF OnDisconnect, Turns, TypeOK, AllCodes
  <2>4. TypeOK'
    BY <1>11, <2>1, <2>2, <2>3 DEF OnDisconnect, Turns, TypeOK, Quiet
  <2>5. \A t \in Slots : OneMessage(t)'
    BY <1>11, OneKept DEF OnDisconnect, Turns
  <2>6. QED
    BY <1>11, <2>4, <2>5 DEF OnDisconnect, Turns, Quiet, TypeOK
<1>12. QED
  BY <1>1, <1>2, <1>4, <1>6, <1>7, <1>8, <1>9, <1>10, <1>11 DEF Platform

LEMMA TurnsStep == Turns /\ [Next]_vars => Turns'
<1>1. ASSUME Turns, UNCHANGED vars PROVE Turns'
  BY <1>1, OneKept DEF Turns, TypeOK, Quiet, vars, device, network, session, used
<1>2. QED
  BY <1>1, DeviceTurns, PlatformTurns DEF Next

\* The variables keep their types; a connection is open as long as the device
\* does not think it lost, and one that is free has nothing left to process.
THEOREM TypeCorrect == Spec => []TypeOK
<1>1. Turns => TypeOK
  BY DEF Turns
<1>2. QED
  BY <1>1, InitTurns, TurnsStep, PTL DEF Spec

-----------------------------------------------------------------------------
(***************************************************************************)
(* Who gets in                                                             *)
(***************************************************************************)

Known == Codes \cup admitted

\* The code of the row is known, or there is none, also in the copies that the
\* handlers have; and a handler accepts known codes.
CodesKnown ==
  /\ row.code \in Known \cup {NoCode}
  /\ \A s \in Slots : step[s] # NoMsg =>
       /\ step[s].stored \in Known \cup {NoCode}
       /\ step[s].at = "answer" /\ step[s].accept => step[s].code \in Known

\* What a step of a session does to the row and to what is being handled.
LEMMA SessionStep ==
  ASSUME Turns, NEW s \in Slots, step[s] # NoMsg, step[s].at = "auth" => step[s].code # NoCode,
         OnAuthenticate(s) \/ Answer(s) \/ OnRegister(s) \/ Issue(s)
         \/ RefuseRegistration(s) \/ StoreFails(s)
  PROVE  /\ \A t \in Slots : t # s => step'[t] = step[t]
         /\ \/ step'[s] = NoMsg /\ row' = row
            \/ /\ OnAuthenticate(s) /\ step[s].at = "auth" /\ step'[s].at = "answer"
               /\ step'[s].code = step[s].code /\ step'[s].stored = step[s].stored
               /\ step'[s].accept = Accepts(step[s].code, step[s].stored)
               /\ row'.code = IF step'[s].accept THEN step[s].code ELSE row.code
            \/ /\ OnRegister(s) /\ step[s].at = "register" /\ step'[s].at = "issue"
               /\ step'[s].code \in Codes /\ step'[s].stored = step[s].stored
               /\ row'.code = step'[s].code
<1>1. step[s] \in Handling
  BY Places DEF Turns, Handled
<1>2. \A t \in Slots : t # s => step'[t] = step[t]
  BY DEF OnAuthenticate, Answer, OnRegister, Issue, RefuseRegistration, StoreFails, Turns
<1>3. CASE OnAuthenticate(s)
  <2> DEFINE a == Accepts(step[s].code, step[s].stored)
  <2>1. /\ row' = Patch(a, step[s].code) /\ step[s].at = "auth"
        /\ step' = [step EXCEPT ![s] = [step[s] EXCEPT !.at = "answer", !.accept = a]]
    BY <1>3 DEF OnAuthenticate
  <2>2. step'[s] = [step[s] EXCEPT !.at = "answer", !.accept = a]
    BY <2>1 DEF Turns
  <2>3. /\ step'[s].at = "answer" /\ step'[s].accept = a
        /\ step'[s].code = step[s].code /\ step'[s].stored = step[s].stored
    BY <1>1, <2>2 DEF Handling
  <2>4. QED
    BY <1>2, <1>3, <2>1, <2>3 DEF Patch
<1>4. CASE OnRegister(s)
  <2>1. PICK c \in Codes : /\ row' = [row EXCEPT !.code = c] /\ step[s].at = "register"
                           /\ step' = [step EXCEPT ![s] = [step[s] EXCEPT !.at = "issue", !.code = c]]
    BY <1>4 DEF OnRegister, IssuedRow
  <2>2. step'[s] = [step[s] EXCEPT !.at = "issue", !.code = c]
    BY <2>1 DEF Turns
  <2>3. step'[s].at = "issue" /\ step'[s].code = c /\ step'[s].stored = step[s].stored
    BY <1>1, <2>2 DEF Handling
  <2>4. row'.code = c
    BY <2>1 DEF Turns, TypeOK
  <2>5. QED
    BY <1>2, <1>4, <2>1, <2>3, <2>4
<1>5. CASE Answer(s) \/ Issue(s) \/ RefuseRegistration(s) \/ StoreFails(s)
  <2>1. step' = [step EXCEPT ![s] = NoMsg] /\ row' = row
    BY <1>5 DEF Answer, Issue, RefuseRegistration, StoreFails
  <2>2. QED
    BY <1>2, <2>1 DEF Turns
<1>6. QED
  BY <1>3, <1>4, <1>5

LEMMA HandledCodes ==
  ASSUME Turns, NEW s \in Slots, step[s] # NoMsg
  PROVE  /\ step[s] \in Handling
         /\ step[s].at \in {"auth", "answer"} => step[s].code \in Codes \cup {Factory}
         /\ step[s].at = "auth" => step[s].code # NoCode
BY Places, HandlingTypes, AuthenticationAssumption DEF Turns, Handled

\* The other steps: what is handled, and the code of the row, stay.
LEMMA OtherStep ==
  ASSUME Turns, [Next]_vars
  PROVE  \/ \E s \in Slots : /\ step[s] # NoMsg
                             /\ \/ OnAuthenticate(s) \/ Answer(s) \/ OnRegister(s) \/ Issue(s)
                                \/ RefuseRegistration(s) \/ StoreFails(s)
         \/ \E s \in Slots : HandleItem(s)
         \/ step' = step /\ row'.code = row.code
<1> USE DEF device, network, session, used
<1>1. CASE Device \/ Drop \/ Restart \/ Reconfigure \/ UNCHANGED vars
  BY <1>1 DEF Device, Connect, OnAccepted, OnRefused, OnRegistrationResponse, GiveUp, Timeout,
     Drop, Restart, Reconfigure, vars
<1>2. ASSUME NEW s \in Slots, OnData(s) \/ OnDisconnect(s)
      PROVE  step' = step /\ row'.code = row.code
  BY <1>2 DEF OnData, OnDisconnect, Offline, Turns, TypeOK
<1>3. ASSUME NEW s \in Slots, \/ OnAuthenticate(s) \/ Answer(s) \/ OnRegister(s) \/ Issue(s)
                              \/ RefuseRegistration(s) \/ StoreFails(s)
      PROVE  step[s] # NoMsg
  BY <1>3 DEF OnAuthenticate, Answer, OnRegister, Issue, RefuseRegistration, StoreFails
<1>4. QED
  BY <1>1, <1>2, <1>3 DEF Next, Platform

\* A new configuration differs in what it lets in; and what a former one has let
\* in stays known.
LEMMA ConfigStays ==
  ASSUME [Next]_vars
  PROVE  /\ config'.overlap = config.overlap
         /\ config'.REGISTRATION_MODE = config.REGISTRATION_MODE
         /\ admitted \subseteq admitted'
BY DEF Next, Device, Platform, Connect, OnAccepted, OnRefused, OnRegistrationResponse,
   GiveUp, Timeout, Drop, Restart, Reconfigure, OnData, HandleItem, OnAuthenticate, Answer,
   OnRegister, Issue, RefuseRegistration, StoreFails, OnDisconnect, vars, used

LEMMA KnownStep == Turns /\ CodesKnown /\ [Next]_vars => CodesKnown'
<1> SUFFICES ASSUME Turns, CodesKnown, [Next]_vars PROVE CodesKnown'
  OBVIOUS
<1>1. Known \subseteq Known'
  BY ConfigStays DEF Known
<1>2. CASE step' = step /\ row'.code = row.code
  BY <1>1, <1>2 DEF CodesKnown
<1>3. ASSUME NEW s \in Slots, HandleItem(s) PROVE CodesKnown'
  <2>1. step'[s].stored = row.code /\ step'[s].accept = FALSE /\ row' = row
    BY <1>3 DEF HandleItem, Turns
  <2>2. \A t \in Slots : t # s => step'[t] = step[t]
    BY <1>3 DEF HandleItem, Turns
  <2>3. QED
    BY <1>1, <2>1, <2>2 DEF CodesKnown
<1>4. ASSUME NEW s \in Slots, step[s] # NoMsg,
             \/ OnAuthenticate(s) \/ Answer(s) \/ OnRegister(s) \/ Issue(s)
             \/ RefuseRegistration(s) \/ StoreFails(s)
      PROVE  CodesKnown'
  <2>1. step[s].at = "auth" => step[s].code # NoCode
    BY <1>4, HandledCodes
  <2>2. OnAuthenticate(s) /\ Accepts(step[s].code, step[s].stored)
          => step[s].code \in Known'
    BY <1>1, <1>4, <2>1 DEF OnAuthenticate, Accepts, CodesKnown, Known
  <2>3. \A t \in Slots : t # s => step'[t] = step[t]
    BY <1>4, <2>1, SessionStep
  <2>4. CASE step'[s] = NoMsg /\ row' = row
    BY <1>1, <2>3, <2>4 DEF CodesKnown
  <2>5. CASE OnAuthenticate(s) /\ step'[s].at = "answer" /\ step[s].at = "auth"
             /\ step'[s].code = step[s].code /\ step'[s].stored = step[s].stored
             /\ step'[s].accept = Accepts(step[s].code, step[s].stored)
             /\ row'.code = IF step'[s].accept THEN step[s].code ELSE row.code
    BY <1>1, <1>4, <2>2, <2>3, <2>5 DEF CodesKnown
  <2>6. CASE step'[s].at = "issue" /\ step'[s].stored = step[s].stored
             /\ step'[s].code \in Codes /\ row'.code = step'[s].code
    BY <1>1, <1>4, <2>3, <2>6 DEF CodesKnown, Known
  <2>7. QED
    BY <1>4, <2>1, <2>4, <2>5, <2>6, SessionStep
<1>5. QED
  BY <1>2, <1>3, <1>4, OtherStep

LEMMA AdmittedStep == Turns /\ CodesKnown /\ OnlyKnownCodes /\ [Next]_vars => OnlyKnownCodes'
<1> SUFFICES ASSUME Turns, CodesKnown, OnlyKnownCodes, [Next]_vars,
                    Known \subseteq Known', NEW s \in Slots, authenticated'[s]
             PROVE  presented'[s] \in Known'
  BY ConfigStays DEF OnlyKnownCodes, Known
<1>1. CASE authenticated'[s] = authenticated[s] /\ presented'[s] = presented[s]
  BY <1>1 DEF OnlyKnownCodes, Known
<1>2. CASE /\ step[s] # NoMsg /\ step[s].at = "answer"
           /\ authenticated' = Outcome(s) /\ presented' = [presented EXCEPT ![s] = step[s].code]
  BY <1>2 DEF CodesKnown, Outcome, Turns, TypeOK
<1>3. CASE OnDisconnect(s)
  BY <1>3 DEF OnDisconnect, Turns, TypeOK
<1>4. CASE Device \/ Drop \/ Restart \/ Reconfigure \/ UNCHANGED vars
  BY <1>1, <1>4 DEF Device, Connect, OnAccepted, OnRefused, OnRegistrationResponse, GiveUp,
     Timeout, Drop, Restart, Reconfigure, vars, session
<1>5. ASSUME NEW t \in Slots, Platform(t) \/ StoreFails(t),
             \/ t # s
             \/ OnData(t) \/ HandleItem(t) \/ OnAuthenticate(t) \/ OnRegister(t) \/ Issue(t)
                \/ RefuseRegistration(t)
             \/ StoreFails(t) /\ step[t].at \in {"auth", "register"}
      PROVE  authenticated'[s] = authenticated[s] /\ presented'[s] = presented[s]
  BY <1>5 DEF Platform, OnData, HandleItem, OnAuthenticate, Answer, OnRegister, Issue,
     RefuseRegistration, StoreFails, OnDisconnect, Outcome, session, Turns, TypeOK
<1>6. CASE Answer(s) \/ (StoreFails(s) /\ step[s].at \notin {"auth", "register"})
  BY <1>2, <1>6 DEF Answer, StoreFails
<1>7. QED
  BY <1>1, <1>3, <1>4, <1>5, <1>6 DEF Next, Platform

\* A session is authenticated by a code that the platform issued or that a
\* configuration let in, the present one or the one it was captured under: for
\* any connections, drops, failing statements, changes of AUTH_MODE and of the
\* list, and codes that other handlers write meanwhile (onAuthenticate compares
\* with the row as handleItem found it).
THEOREM OnlyKnownGetIn == Spec => []OnlyKnownCodes
<1> DEFINE Inv == Turns /\ CodesKnown /\ OnlyKnownCodes
<1>1. Init => Inv
  BY InitTurns DEF Init, CodesKnown, OnlyKnownCodes
<1>2. Inv /\ [Next]_vars => Inv'
  BY TurnsStep, KnownStep, AdmittedStep
<1>3. QED
  BY <1>1, <1>2, PTL DEF Spec

-----------------------------------------------------------------------------
(***************************************************************************)
(* The row and the device                                                  *)
(***************************************************************************)

AllFree == \A s \in Slots : state[s] = "free"

\* When no connection is left the row does not say authenticated.
Offlined == AllFree => ~row.authenticated

LEMMA OfflinedStep == Turns /\ Offlined /\ [Next]_vars => Offlined'
<1> SUFFICES ASSUME Turns, Offlined, [Next]_vars, AllFree' PROVE ~row'.authenticated
  BY DEF Offlined
<1> USE DEF device, network, session, used
<1>1. ASSUME NEW s \in Slots, OnDisconnect(s) PROVE ~row'.authenticated
  <2>1. \A t \in Slots : state[t] # "open"
    BY <1>1 DEF OnDisconnect, AllFree, Turns, TypeOK
  <2>2. QED
    BY <1>1, <2>1 DEF OnDisconnect, Offline, Turns, TypeOK
<1>2. CASE Drop \/ GiveUp \/ Timeout \/ (\E s \in Slots : Connect(s))
  <2>1. ASSUME Closed, phase # "off" PROVE state'[slot] = "closed" /\ slot \in Slots
    BY <2>1 DEF Closed, Turns, TypeOK
  <2>2. ASSUME NEW s \in Slots, Connect(s) PROVE state'[s] = "open"
    BY <2>2 DEF Connect, Turns, TypeOK
  <2>3. QED
    BY <1>2, <2>1, <2>2 DEF Drop, GiveUp, Timeout, Hear, AllFree
<1>3. CASE UNCHANGED <<state, row>>
  BY <1>3 DEF Offlined, AllFree
<1>4. ASSUME NEW s \in Slots, OnAuthenticate(s) \/ OnRegister(s) PROVE FALSE
  <2>1. step[s] # NoMsg /\ state' = state
    BY <1>4 DEF OnAuthenticate, OnRegister
  <2>2. state[s] # "free"
    BY <2>1 DEF Turns, TypeOK, Quiet
  <2>3. QED
    BY <2>1, <2>2 DEF AllFree
<1>5. QED
  BY <1>1, <1>2, <1>3, <1>4 DEF Next, Device, Platform, OnAccepted, OnRefused,
     OnRegistrationResponse, Restart, Reconfigure, OnData, HandleItem, Answer, Issue,
     RefuseRegistration, StoreFails, vars

-----------------------------------------------------------------------------
(* Every connection is finished before the next.                           *)

\* The device's message, the handler's and the response are those that the
\* phase of the handshake asks for, and the row has the code they rest on.
Asks(m) == m = IF phase = "register" THEN Register ELSE Auth(Initial)

Handles(h) ==
  IF phase = "register"
  THEN h.at \in {"register", "issue"} /\ (h.at = "issue" => row.code = h.code)
  ELSE /\ h.at \in {"auth", "answer"} /\ h.code = Initial
       /\ h.at = "auth" => h.stored = row.code
       /\ h.at = "answer" => (h.accept <=> row.code = Initial)

Answers(r) ==
  IF phase = "register"
  THEN r.kind \in {"issued", "refused"} /\ (r.kind = "issued" => row.code = r.code)
  ELSE r.kind \in {"success", "failure"} /\ (r.kind = "success" <=> row.code = Initial)

Handshake ==
  ~config.overlap /\ phase # "off" =>
    /\ \A t \in Slots : t # slot => state[t] = "free"
    /\ \A m \in Message : up[slot] = <<m>> \/ queue[slot] = <<m>> => Asks(m)
    /\ step[slot] # NoMsg => Handles(step[slot])
    /\ \A r \in Response : down[slot] = <<r>> => Answers(r)
    /\ phase \in {"auth2", "authenticated"} => row.code = Initial

LEMMA SameMessage == \A m, n : <<m>> = <<n>> => m = n
  <1>1. \A m : <<m>>[1] = m
    OBVIOUS
  <1>2. QED
    BY <1>1

\* The row that onAuthenticate or onRegister writes, and the rest of a turn.
LEMMA HandshakeStep == Turns /\ Handshake /\ [Next]_vars => Handshake'
<1> SUFFICES ASSUME Turns, Handshake, [Next]_vars, ~config.overlap, phase' # "off"
             PROVE  Handshake'
  BY ConfigStays DEF Handshake
<1>1. ASSUME NEW s \in Slots, Connect(s) PROVE Handshake'
  <2>1. PICK forced \in ForceRegister :
           /\ phase' = IF forced THEN "register" ELSE "auth1"
           /\ up' = [up EXCEPT ![s] = <<IF forced THEN Register ELSE Auth(Initial)>>]
    BY <1>1 DEF Connect
  <2>2. /\ slot' = s /\ authCode' = authCode /\ Quiet(s)
        /\ \A t \in Slots : t # s => state'[t] = "free"
    BY <1>1 DEF Connect, Turns, TypeOK
  <2>3. /\ up'[s] = <<IF forced THEN Register ELSE Auth(Initial)>> /\ queue'[s] = << >>
        /\ down'[s] = << >> /\ step'[s] = NoMsg
    BY <1>1, <2>1, <2>2 DEF Connect, Turns, Quiet, session
  <2>4. \A m : up'[s] = <<m>> => m = IF forced THEN Register ELSE Auth(Initial)
    BY <2>3, SameMessage
  <2>5. Initial' = Initial
    BY <2>2 DEF Initial
  <2>6. QED
    BY <2>1, <2>2, <2>3, <2>4, <2>5 DEF Handshake, Asks, Auth, Register
<1>2. slot \in Slots /\ (phase # "off" => state[slot] = "open")
      /\ (phase # "off" => \A t \in Slots : t # slot => state[t] = "free" /\ Quiet(t))
  BY DEF Handshake, Turns, TypeOK
<1>3. CASE OnAccepted
  <2>1. PICK r \in Response : r = Head(down[slot]) /\ Answered(slot, r) /\ Tail(down[slot]) = << >>
    BY <1>2, <1>3, Places DEF OnAccepted, Hear, Turns
  <2>2. row.code = Initial
    BY <1>3, <2>1 DEF OnAccepted, Handshake, Answers, Answered
  <2>3. /\ up'[slot] = << >> /\ queue'[slot] = << >> /\ down'[slot] = << >>
        /\ step'[slot] = NoMsg
    BY <1>2, <1>3, <2>1 DEF OnAccepted, Turns, Answered, session
  <2>4. phase' = "authenticated" /\ UNCHANGED <<slot, authCode, state, row>>
    BY <1>3 DEF OnAccepted
  <2>5. QED
    BY <1>2, <1>3, <2>2, <2>3, <2>4 DEF Handshake, Initial, OnAccepted
<1>4. CASE OnRefused
  <2>1. PICK r \in Response : r = Head(down[slot]) /\ Answered(slot, r) /\ Tail(down[slot]) = << >>
    BY <1>2, <1>4, Places DEF OnRefused, Hear, Turns
  <2>2. /\ up'[slot] = <<Register>> /\ queue'[slot] = << >> /\ down'[slot] = << >>
        /\ step'[slot] = NoMsg
    BY <1>2, <1>4, <2>1, One DEF OnRefused, Turns, Answered, session
  <2>3. phase = "auth1" /\ phase' = "register" /\ UNCHANGED <<slot, authCode, state, row>>
    BY <1>4 DEF OnRefused, Hear
  <2>4. \A m : up'[slot] = <<m>> => m = Register
    BY <2>2, SameMessage
  <2>5. QED
    BY <1>2, <2>2, <2>3, <2>4 DEF Handshake, Asks, Register
<1>5. CASE OnRegistrationResponse
  <2>1. PICK r \in Response : r = Head(down[slot]) /\ Answered(slot, r) /\ Tail(down[slot]) = << >>
    BY <1>2, <1>5, Places DEF OnRegistrationResponse, Hear, Turns
  <2>2. phase = "register" /\ phase' = "auth2" /\ UNCHANGED <<slot, state, row>>
        /\ authCode' = r.code /\ r.kind = "issued"
    BY <1>5, <2>1 DEF OnRegistrationResponse, Hear
  <2>3. authCode' # NoCode
    BY <2>2, AuthenticationAssumption DEF Response
  <2>4. Initial' = authCode'
    BY <2>3 DEF Initial
  <2>5. /\ up'[slot] = <<Auth(authCode')>> /\ queue'[slot] = << >> /\ down'[slot] = << >>
        /\ step'[slot] = NoMsg
    BY <1>2, <1>5, <2>1, One DEF OnRegistrationResponse, Turns, Answered, session
  <2>6. \A m : up'[slot] = <<m>> => m = Auth(authCode')
    BY <2>5, SameMessage
  <2>7. row.code = r.code
    BY <2>1, <2>2 DEF Handshake, Answers, Answered
  <2>8. QED
    BY <1>2, <2>2, <2>4, <2>5, <2>6, <2>7 DEF Handshake, Asks, Auth
<1>6. CASE GiveUp \/ Timeout \/ Drop \/ Restart \/ Reconfigure
  <2>1. ~Reconfigure
    BY <1>2 DEF Reconfigure, device
  <2>2. QED
    BY <1>6, <2>1 DEF GiveUp, Timeout, Drop, Restart, Closed
<1>7. CASE UNCHANGED vars
  BY <1>7 DEF vars, device, network, session, used, Handshake, Asks, Handles, Answers, Initial
<1>8. ASSUME NEW s \in Slots, Platform(s) \/ StoreFails(s)
      PROVE  /\ s = slot /\ ~OnDisconnect(s) /\ phase # "off"
             /\ UNCHANGED <<phase, slot, authCode, state>>
  <2>1. phase' = phase /\ slot' = slot /\ authCode' = authCode
    BY <1>8 DEF Platform, OnData, HandleItem, OnAuthenticate, Answer, OnRegister, Issue,
       RefuseRegistration, StoreFails, OnDisconnect, device
  <2>2. s = slot
    BY <1>2, <1>8, <2>1 DEF Platform, OnData, HandleItem, OnAuthenticate, Answer, OnRegister,
       Issue, RefuseRegistration, StoreFails, OnDisconnect, Quiet
  <2>3. ~OnDisconnect(s)
    BY <1>2, <2>1, <2>2 DEF OnDisconnect
  <2>4. state' = state
    BY <1>8, <2>3 DEF Platform, OnData, HandleItem, OnAuthenticate, Answer, OnRegister, Issue,
       RefuseRegistration, StoreFails, network
  <2>5. QED
    BY <2>1, <2>2, <2>3, <2>4
<1>9. ASSUME phase # "off", UNCHANGED <<phase, slot, authCode, state>>
      PROVE  Initial' = Initial /\ \A t \in Slots : t # slot' => state'[t] = "free"
  BY <1>2, <1>9 DEF Initial
<1>10. ASSUME OnData(slot) PROVE Handshake'
  <2>1. PICK m \in Message : m = Head(up[slot]) /\ Sent(slot, m) /\ Tail(up[slot]) = << >>
    BY <1>2, <1>10, Places DEF OnData, Turns
  <2>2. /\ up'[slot] = << >> /\ queue'[slot] = <<m>> /\ down'[slot] = << >>
        /\ step'[slot] = NoMsg /\ row' = row
    BY <1>2, <1>10, <2>1, One DEF OnData, Turns, Sent
  <2>3. \A n : queue'[slot] = <<n>> => n = m
    BY <2>2, SameMessage
  <2>4. UNCHANGED <<phase, slot, authCode, state>> /\ phase # "off"
    BY <1>2, <1>8, <1>10 DEF Platform
  <2>5. Asks(m) /\ Initial' = Initial
    BY <1>9, <2>1, <2>4 DEF Handshake, Sent
  <2>6. phase # "authenticated"
    BY <2>1, One DEF Turns, Quiet, Sent
  <2>7. QED
    BY <1>9, <2>2, <2>3, <2>4, <2>5, <2>6 DEF Handshake, Asks
<1>11. ASSUME HandleItem(slot) PROVE Handshake'
  <2>1. PICK m \in Message : /\ m = Head(queue[slot]) /\ Received(slot, m)
                             /\ Tail(queue[slot]) = << >>
    BY <1>2, <1>11, Places DEF HandleItem, Turns
  <2>2. /\ up'[slot] = << >> /\ queue'[slot] = << >> /\ down'[slot] = << >> /\ row' = row
        /\ step'[slot] = [at |-> m.kind, code |-> m.code, stored |-> row.code, accept |-> FALSE]
    BY <1>2, <1>11, <2>1 DEF HandleItem, Turns, Received, network
  <2>3. UNCHANGED <<phase, slot, authCode, state>> /\ phase # "off"
    BY <1>2, <1>8, <1>11 DEF Platform
  <2>4. Asks(m) /\ Initial' = Initial
    BY <1>9, <2>1, <2>3 DEF Handshake, Received
  <2>5. /\ step'[slot].at = m.kind /\ step'[slot].code = m.code
    BY <2>2
  <2>6. phase # "authenticated"
    BY <2>1, One DEF Turns, Quiet, Received
  <2>7. QED
    BY <1>9, <2>2, <2>3, <2>4, <2>5, <2>6 DEF Handshake, Asks, Handles, Auth, Register
<1>12. ASSUME step[slot] # NoMsg
       PROVE  /\ up[slot] = << >> /\ queue[slot] = << >> /\ down[slot] = << >>
              /\ step[slot] \in Handling /\ phase # "authenticated"
  BY <1>2, <1>12, Places DEF Turns, Handled, Quiet
<1>13. ASSUME step[slot] # NoMsg, phase # "off", NEW r \in Response,
              \/ Write(slot, r)
              \/ down' = down,
              step' = [step EXCEPT ![slot] = NoMsg], UNCHANGED <<device, state, up, queue, row>>,
              Answers(r) \/ down' = down
       PROVE  Handshake'
  <2>1. /\ up'[slot] = << >> /\ queue'[slot] = << >> /\ step'[slot] = NoMsg
        /\ down'[slot] \in {<< >>, <<r>>} /\ (down' = down => down'[slot] = << >>)
    BY <1>2, <1>12, <1>13, One DEF Write, Turns
  <2>2. \A q : down'[slot] = <<q>> => q = r /\ Answers(r)
    BY <1>13, <2>1, SameMessage
  <2>3. UNCHANGED <<phase, slot, authCode>> /\ Initial' = Initial
    BY <1>9, <1>13 DEF device
  <2>4. QED
    BY <1>9, <1>12, <1>13, <2>1, <2>2, <2>3 DEF Handshake, Answers
<1>14. CASE Answer(slot)
  <2> DEFINE r == [kind |-> IF step[slot].accept THEN "success" ELSE "failure", code |-> NoCode]
  <2>1. r \in Response
    BY DEF Response
  <2>2. phase # "off"
    BY <1>2, <1>8, <1>14 DEF Platform
  <2>3. Answers(r)
    BY <1>12, <1>14, <2>2 DEF Answer, Handshake, Handles, Answers
  <2>4. Write(slot, r) /\ UNCHANGED <<device, state, up, queue, row>>
        /\ step' = [step EXCEPT ![slot] = NoMsg] /\ step[slot] # NoMsg
    BY <1>14 DEF Answer
  <2> HIDE DEF r
  <2>5. QED
    BY <1>13, <2>1, <2>2, <2>3, <2>4
<1>15. CASE Issue(slot)
  <2> DEFINE r == [kind |-> "issued", code |-> step[slot].code]
  <2>1. r \in Response
    BY <1>12, <1>15, HandlingTypes DEF Response, Issue
  <2>2. phase # "off"
    BY <1>2, <1>8, <1>15 DEF Platform
  <2>3. Answers(r)
    BY <1>12, <1>15, <2>2 DEF Issue, Handshake, Handles, Answers
  <2>4. Write(slot, r) /\ UNCHANGED <<device, state, up, queue, row>>
        /\ step' = [step EXCEPT ![slot] = NoMsg] /\ step[slot] # NoMsg
    BY <1>15 DEF Issue
  <2> HIDE DEF r
  <2>5. QED
    BY <1>13, <2>1, <2>2, <2>3, <2>4
<1>16. CASE RefuseRegistration(slot)
  <2> DEFINE r == [kind |-> "refused", code |-> NoCode]
  <2>1. r \in Response
    BY DEF Response
  <2>2. phase # "off"
    BY <1>2, <1>8, <1>16 DEF Platform
  <2>3. Answers(r)
    BY <1>12, <1>16, <2>2 DEF RefuseRegistration, Handshake, Handles, Answers
  <2>4. Write(slot, r) /\ UNCHANGED <<device, state, up, queue, row>>
        /\ step' = [step EXCEPT ![slot] = NoMsg] /\ step[slot] # NoMsg
    BY <1>16 DEF RefuseRegistration
  <2> HIDE DEF r
  <2>5. QED
    BY <1>13, <2>1, <2>2, <2>3, <2>4
<1>17. CASE StoreFails(slot)
  <2>0. [kind |-> "refused", code |-> NoCode] \in Response
    BY DEF Response
  <2>1. PICK r \in Response : TRUE
    BY <2>0
  <2>2. phase # "off"
    BY <1>2, <1>8, <1>17 DEF Platform
  <2>3. down' = down /\ UNCHANGED <<device, state, up, queue, row>>
        /\ step' = [step EXCEPT ![slot] = NoMsg] /\ step[slot] # NoMsg
    BY <1>17 DEF StoreFails, network
  <2>4. QED
    BY <1>13, <2>1, <2>2, <2>3
<1>18. CASE OnAuthenticate(slot) \/ OnRegister(slot)
  <2>1. step[slot] # NoMsg /\ UNCHANGED <<up, queue, down>>
    BY <1>18 DEF OnAuthenticate, OnRegister, network
  <2>2. /\ up'[slot] = << >> /\ queue'[slot] = << >> /\ down'[slot] = << >>
        /\ phase # "authenticated"
    BY <1>12, <2>1
  <2>3. phase # "off" /\ UNCHANGED <<phase, slot, authCode, state>> /\ Initial' = Initial
    BY <1>2, <1>8, <1>9, <1>18 DEF Platform
  <2>4. Handles(step[slot])
    BY <2>1, <2>3 DEF Handshake
  <2>5. step[slot].at = "auth" => step[slot].code # NoCode
    BY <1>2, <2>1, HandledCodes
  <2>6. step'[slot] # NoMsg => Handles(step[slot])'
    <3>1. CASE /\ step'[slot].at = "answer" /\ step[slot].at = "auth"
               /\ step'[slot].code = step[slot].code
               /\ step'[slot].accept = Accepts(step[slot].code, step[slot].stored)
               /\ row'.code = IF step'[slot].accept THEN step[slot].code ELSE row.code
      BY <2>3, <2>4, <3>1 DEF Handles, Accepts
    <3>2. CASE /\ step'[slot].at = "issue" /\ step[slot].at = "register"
               /\ row'.code = step'[slot].code
      BY <2>3, <2>4, <3>2 DEF Handles
    <3>3. QED
      BY <1>2, <1>18, <2>1, <2>5, <3>1, <3>2, SessionStep
  <2>7. phase = "auth2" => row'.code = Initial
    <3>1. phase = "auth2" => /\ step[slot].at \in {"auth", "answer"}
                             /\ step[slot].code = Initial /\ row.code = Initial
      BY <2>3, <2>4 DEF Handles, Handshake
    <3>2. QED
      BY <1>2, <1>18, <2>1, <2>5, <3>1, SessionStep
  <2>8. QED
    BY <1>9, <2>2, <2>3, <2>6, <2>7 DEF Handshake
<1>19. QED
  BY <1>1, <1>3, <1>4, <1>5, <1>6, <1>7, <1>8, <1>10, <1>11, <1>14, <1>15, <1>16, <1>17, <1>18
  DEF Next, Device, Platform

-----------------------------------------------------------------------------
(* Nothing but an acceptance writes the code.                              *)

\* A device that nobody registers always presents the factory's code, and the
\* row has it from the first acceptance on.
FactoryMessage(m) == m \in Message => m \in {Register, Auth(Factory)}

FactoryHandled(h) ==
  /\ h.at # "issue"
  /\ h.at \in {"auth", "answer"} => h.code = Factory
  /\ h.at = "answer" /\ h.accept => row.code = Factory

FactoryAnswer(r) ==
  r \in Response => r.kind # "issued" /\ (r.kind = "success" => row.code = Factory)

FactoryOnly ==
  config.REGISTRATION_MODE = "reject" =>
    /\ authCode = NoCode
    /\ phase = "authenticated" => row.code = Factory
    /\ \A s \in Slots :
         /\ \A m : up[s] = <<m>> \/ queue[s] = <<m>> => FactoryMessage(m)
         /\ step[s] # NoMsg => FactoryHandled(step[s])
         /\ \A r : down[s] = <<r>> => FactoryAnswer(r)

LEMMA FactoryStep == Turns /\ FactoryOnly /\ [Next]_vars => FactoryOnly'
<1> SUFFICES ASSUME Turns, FactoryOnly, [Next]_vars, config.REGISTRATION_MODE = "reject"
             PROVE  FactoryOnly'
  BY ConfigStays DEF FactoryOnly
<1>1. ASSUME NEW s \in Slots, step[s] # NoMsg
      PROVE  step[s] \in Handling /\ FactoryHandled(step[s])
  BY <1>1, HandledCodes DEF FactoryOnly
\* The code of the row does not leave the factory's.
<1>2. row.code = Factory => row'.code = Factory
  <2>1. ASSUME NEW s \in Slots, step[s] # NoMsg,
               \/ OnAuthenticate(s) \/ Answer(s) \/ OnRegister(s) \/ Issue(s)
               \/ RefuseRegistration(s) \/ StoreFails(s)
        PROVE  row.code = Factory => row'.code = Factory
    <3>1. ~OnRegister(s)
      BY DEF OnRegister
    <3>2. step[s].at = "auth" => step[s].code = Factory /\ step[s].code # NoCode
      BY <1>1, <2>1, HandledCodes DEF FactoryHandled
    <3>3. QED
      BY <2>1, <3>1, <3>2, SessionStep
  <2>2. ASSUME NEW s \in Slots, HandleItem(s) PROVE row' = row
    BY <2>2 DEF HandleItem
  <2>3. QED
    BY <2>1, <2>2, OtherStep
\* What stays where it was is as it was.
<1>3. ASSUME NEW s \in Slots
      PROVE  /\ up'[s] = up[s] => \A m : up'[s] = <<m>> => FactoryMessage(m)
             /\ queue'[s] = queue[s] => \A m : queue'[s] = <<m>> => FactoryMessage(m)
             /\ step'[s] = step[s] => (step'[s] # NoMsg => FactoryHandled(step[s])')
             /\ down'[s] = down[s] => \A r : down'[s] = <<r>> => FactoryAnswer(r)'
  BY <1>2 DEF FactoryOnly, FactoryHandled, FactoryAnswer
<1>4. \A m : \A q : q = << >> => q # <<m>>
  BY One
<1> DEFINE Fine(s) == /\ \A m : up'[s] = <<m>> \/ queue'[s] = <<m>> => FactoryMessage(m)
                      /\ step'[s] # NoMsg => FactoryHandled(step[s])'
                      /\ \A r : down'[s] = <<r>> => FactoryAnswer(r)'
<1>5. ASSUME NEW s \in Slots, up'[s] \in {up[s], << >>}, queue'[s] \in {queue[s], << >>},
             step'[s] \in {step[s], NoMsg}, down'[s] \in {down[s], << >>}
      PROVE  Fine(s)
  BY <1>3, <1>4, <1>5
<1>6. (phase' = "authenticated" => phase = "authenticated") /\ authCode' = authCode
        => authCode' = NoCode /\ (phase' = "authenticated" => row'.code = Factory)
  BY <1>2 DEF FactoryOnly
<1>7. ASSUME authCode' = NoCode, phase' = "authenticated" => row'.code = Factory,
             \A s \in Slots : Fine(s)
      PROVE  FactoryOnly'
  BY <1>7 DEF FactoryOnly, FactoryMessage
<1>8. slot \in Slots
  BY DEF Turns, TypeOK
<1> HIDE DEF Fine
<1>9. CASE OnAccepted
  <2>1. PICK r \in Response : r = Head(down[slot]) /\ Answered(slot, r) /\ Tail(down[slot]) = << >>
    BY <1>8, <1>9, Places DEF OnAccepted, Hear, Turns
  <2>2. row.code = Factory
    BY <1>8, <1>9, <2>1 DEF OnAccepted, FactoryOnly, FactoryAnswer, Answered
  <2>3. \A s \in Slots : Fine(s)
    BY <1>5, <1>9, <2>1 DEF OnAccepted, session, Turns
  <2>4. authCode' = NoCode
    BY <1>9 DEF OnAccepted, FactoryOnly
  <2>5. QED
    BY <1>2, <1>7, <2>2, <2>3, <2>4
<1>10. ASSUME NEW s \in Slots, NEW m \in {Register, Auth(Factory)}, up'[s] = <<m>>,
              down'[s] \in {down[s], << >>}, queue' = queue, step' = step,
              \A t \in Slots : t # s => up'[t] = up[t] /\ down'[t] = down[t]
       PROVE  \A t \in Slots : Fine(t)
  <2>1. \A t \in Slots : t # s => Fine(t)
    BY <1>5, <1>10
  <2>2. \A n : up'[s] = <<n>> => FactoryMessage(n)
    BY <1>10, SameMessage DEF FactoryMessage
  <2>3. Fine(s)
    BY <1>3, <1>4, <1>10, <2>2 DEF Fine
  <2>4. QED
    BY <2>1, <2>3
<1>11. CASE OnRefused
  <2>1. PICK r \in Response : r = Head(down[slot]) /\ Answered(slot, r) /\ Tail(down[slot]) = << >>
    BY <1>8, <1>11, Places DEF OnRefused, Hear, Turns
  <2>2. /\ up'[slot] = <<Register>> /\ down'[slot] = << >> /\ queue' = queue /\ step' = step
        /\ \A t \in Slots : t # slot => up'[t] = up[t] /\ down'[t] = down[t]
    BY <1>8, <1>11, <2>1, One DEF OnRefused, Turns, Answered, session
  <2>3. phase' # "authenticated" /\ authCode' = authCode
    BY <1>11 DEF OnRefused
  <2>4. QED
    BY <1>6, <1>7, <1>8, <1>10, <2>2, <2>3
<1>12. ASSUME NEW s \in Slots, Connect(s) PROVE FactoryOnly'
  <2>1. authCode' = authCode /\ phase' # "authenticated" /\ Initial = Factory
    BY <1>12 DEF Connect, FactoryOnly, Initial
  <2>2. PICK m \in {Register, Auth(Factory)} : up' = [up EXCEPT ![s] = <<m>>]
    BY <1>12, <2>1 DEF Connect
  <2>3. /\ up'[s] = <<m>> /\ down' = down /\ queue' = queue /\ step' = step
        /\ \A t \in Slots : t # s => up'[t] = up[t]
    BY <1>12, <2>2 DEF Connect, Turns, session
  <2>4. QED
    BY <1>6, <1>7, <1>10, <2>1, <2>2, <2>3
<1>13. ~OnRegistrationResponse
  <2>1. ASSUME OnRegistrationResponse PROVE FALSE
    <3>1. PICK r \in Response : r = Head(down[slot]) /\ Answered(slot, r)
      BY <1>8, <2>1, Places DEF OnRegistrationResponse, Hear, Turns
    <3>2. QED
      BY <1>8, <2>1, <3>1 DEF OnRegistrationResponse, Hear, FactoryOnly, FactoryAnswer, Answered
  <2>2. QED
    BY <2>1
<1>14. CASE GiveUp \/ Timeout \/ Drop
  <2>1. Closed /\ authCode' = authCode /\ queue' = queue /\ step' = step
    BY <1>14 DEF GiveUp, Timeout, Drop, session
  <2>2. \A s \in Slots : Fine(s)
    BY <1>5, <2>1 DEF Closed, Turns
  <2>3. QED
    BY <1>6, <1>7, <2>1, <2>2 DEF Closed
<1>15. CASE Restart \/ Reconfigure \/ UNCHANGED vars
  <2>1. \A s \in Slots : Fine(s)
    BY <1>5, <1>15 DEF Restart, Reconfigure, vars, device, network, session
  <2>2. phase' = phase /\ authCode' \in {authCode, NoCode}
    BY <1>15 DEF Restart, Reconfigure, vars, device
  <2>3. QED
    BY <1>2, <1>7, <2>1, <2>2 DEF FactoryOnly
<1>16. ASSUME NEW s \in Slots, Platform(s) \/ StoreFails(s)
       PROVE  /\ phase' = phase /\ authCode' = authCode
              /\ \A t \in Slots : t # s => Fine(t)
  <2>1. phase' = phase /\ authCode' = authCode
    BY <1>16 DEF Platform, OnData, HandleItem, OnAuthenticate, Answer, OnRegister, Issue,
       RefuseRegistration, StoreFails, OnDisconnect, device
  <2>2. ASSUME NEW t \in Slots, t # s
        PROVE  up'[t] = up[t] /\ down'[t] = down[t] /\ queue'[t] = queue[t] /\ step'[t] = step[t]
    BY <1>16, <2>2 DEF Platform, OnData, HandleItem, OnAuthenticate, Answer, OnRegister, Issue,
       RefuseRegistration, StoreFails, OnDisconnect, device, network, session, Write, Turns
  <2>3. QED
    BY <1>5, <2>1, <2>2
<1>17. ASSUME NEW s \in Slots, OnData(s) PROVE Fine(s)
  <2>1. PICK m \in Message : m = Head(up[s]) /\ Sent(s, m) /\ Tail(up[s]) = << >>
    BY <1>17, Places DEF OnData, Turns
  <2>2. /\ up'[s] = << >> /\ queue'[s] = <<m>> /\ down'[s] = down[s] /\ step'[s] = step[s]
    BY <1>17, <2>1, One DEF OnData, Turns, Sent
  <2>3. FactoryMessage(m)
    BY <2>1 DEF FactoryOnly, Sent
  <2>4. \A n : queue'[s] = <<n>> => n = m
    BY <2>2, SameMessage
  <2>5. QED
    BY <1>3, <1>4, <2>2, <2>3, <2>4 DEF Fine
<1>18. ASSUME NEW s \in Slots, HandleItem(s) PROVE Fine(s)
  <2>1. PICK m \in Message : m = Head(queue[s]) /\ Received(s, m) /\ Tail(queue[s]) = << >>
    BY <1>18, Places DEF HandleItem, Turns
  <2>2. /\ up'[s] = up[s] /\ queue'[s] = << >> /\ down'[s] = down[s]
        /\ step'[s].at = m.kind /\ step'[s].code = m.code /\ step'[s].accept = FALSE
    BY <1>18, <2>1 DEF HandleItem, Turns, Received, network
  <2>3. m \in {Register, Auth(Factory)}
    BY <2>1 DEF FactoryOnly, FactoryMessage, Received
  <2>4. FactoryHandled(step[s])'
    BY <2>2, <2>3 DEF FactoryHandled, Register, Auth
  <2>5. QED
    BY <1>3, <1>4, <2>2, <2>4 DEF Fine
<1>19. ASSUME NEW s \in Slots, NEW r \in Response, step[s] # NoMsg, r.kind # "issued",
              r.kind = "success" => row.code = Factory,
              Write(s, r) \/ down' = down, step' = [step EXCEPT ![s] = NoMsg],
              UNCHANGED <<up, queue>>
       PROVE  Fine(s)
  <2>1. down'[s] \in {down[s], <<r>>} /\ up'[s] = up[s] /\ queue'[s] = queue[s]
        /\ step'[s] = NoMsg
    <3>1. Handled(s)
      BY <1>19, Places DEF Turns
    <3>2. QED
      BY <1>19, <3>1, One DEF Write, Turns, Handled
  <2>2. \A q : down'[s] = <<q>> => FactoryAnswer(q)'
    <3>1. FactoryAnswer(r)'
      BY <1>2, <1>19 DEF FactoryAnswer
    <3>2. QED
      BY <1>3, <2>1, <3>1, SameMessage
  <2>3. QED
    BY <1>3, <2>1, <2>2 DEF Fine
<1>20. ASSUME NEW s \in Slots, Answer(s) PROVE Fine(s)
  <2> DEFINE r == [kind |-> IF step[s].accept THEN "success" ELSE "failure", code |-> NoCode]
  <2>1. r \in Response /\ r.kind # "issued"
    BY DEF Response
  <2>2. r.kind = "success" => row.code = Factory
    BY <1>1, <1>20 DEF Answer, FactoryHandled
  <2>3. Write(s, r) /\ UNCHANGED <<up, queue>> /\ step' = [step EXCEPT ![s] = NoMsg]
        /\ step[s] # NoMsg
    BY <1>20 DEF Answer
  <2> HIDE DEF r
  <2>4. QED
    BY <1>19, <2>1, <2>2, <2>3
<1>21. ASSUME NEW s \in Slots, RefuseRegistration(s) \/ StoreFails(s) PROVE Fine(s)
  <2> DEFINE r == [kind |-> "refused", code |-> NoCode]
  <2>1. r \in Response /\ r.kind # "issued" /\ r.kind # "success"
    BY DEF Response
  <2>2. /\ Write(s, r) \/ down' = down
        /\ UNCHANGED <<up, queue>> /\ step' = [step EXCEPT ![s] = NoMsg] /\ step[s] # NoMsg
    BY <1>21 DEF RefuseRegistration, StoreFails, network
  <2> HIDE DEF r
  <2>3. QED
    BY <1>19, <2>1, <2>2
<1>22. ASSUME NEW s \in Slots, OnAuthenticate(s) PROVE Fine(s)
  <2>1. step[s] # NoMsg /\ step[s].at = "auth" /\ UNCHANGED <<up, queue, down>>
    BY <1>22 DEF OnAuthenticate, network
  <2>2. step[s].code = Factory /\ step[s].code # NoCode
    BY <1>1, <2>1, HandledCodes DEF FactoryHandled
  <2>3. step'[s] # NoMsg => FactoryHandled(step[s])'
    <3>1. \/ step'[s] = NoMsg
          \/ /\ step'[s].at = "answer" /\ step'[s].code = step[s].code
             /\ row'.code = IF step'[s].accept THEN step[s].code ELSE row.code
      BY <1>22, <2>1, <2>2, SessionStep
    <3>2. QED
      BY <2>2, <3>1 DEF FactoryHandled
  <2>4. QED
    BY <1>3, <2>1, <2>3 DEF Fine
<1>23. ASSUME NEW s \in Slots, OnDisconnect(s) PROVE Fine(s)
  BY <1>5, <1>23 DEF OnDisconnect
<1>24. ASSUME NEW s \in Slots PROVE ~OnRegister(s) /\ ~Issue(s)
  BY <1>1 DEF OnRegister, Issue, FactoryHandled
<1>25. ASSUME NEW s \in Slots, Platform(s) \/ StoreFails(s) PROVE FactoryOnly'
  <2>1. Fine(s)
    BY <1>17, <1>18, <1>20, <1>21, <1>22, <1>23, <1>24, <1>25 DEF Platform
  <2>2. \A t \in Slots : Fine(t)
    BY <1>16, <1>25, <2>1
  <2>3. QED
    BY <1>6, <1>7, <1>16, <1>25, <2>2
<1>26. QED
  BY <1>9, <1>11, <1>12, <1>13, <1>14, <1>15, <1>25 DEF Next, Device

LEMMA RowInvariance == Spec => [](Turns /\ Offlined /\ Handshake /\ FactoryOnly)
<1> DEFINE Inv == Turns /\ Offlined /\ Handshake /\ FactoryOnly
<1>1. Init => Inv
  <2>1. Init => Offlined /\ Handshake
    BY DEF Init, Offlined, Handshake
  <2>2. Init => FactoryOnly
    BY One DEF Init, FactoryOnly
  <2>3. QED
    BY <2>1, <2>2, InitTurns
<1>2. Inv /\ [Next]_vars => Inv'
  BY TurnsStep, OfflinedStep, HandshakeStep, FactoryStep
<1>3. QED
  BY <1>1, <1>2, PTL DEF Spec

\* Where every connection is finished before the next, or nobody is registered,
\* the row holds the code that the authenticated device will present next time,
\* whatever is lost in between; and in every case it does not say authenticated
\* when the last disconnection has been processed.
THEOREM RowAgreesWithDevice == Spec => []RowAgrees
<1>1. Turns /\ Offlined /\ Handshake /\ FactoryOnly => RowAgrees
  <2> SUFFICES ASSUME Turns, Offlined, Handshake, FactoryOnly PROVE RowAgrees
    OBVIOUS
  <2>1. config.REGISTRATION_MODE = "reject" /\ phase = "authenticated" => row.code = Initial
    BY DEF FactoryOnly, Initial
  <2>2. ~config.overlap /\ phase = "authenticated" => row.code = Initial
    BY DEF Handshake
  <2>3. QED
    BY <2>1, <2>2 DEF RowAgrees, InTurn, Offlined, AllFree
<1>2. QED
  BY <1>1, RowInvariance, PTL

\* Where every connection is finished before the next, a terminal is refused only
\* with a code that is not the stored one, and not with the code it has just been
\* issued: for any codes, losses, restarts, failing statements and changes of the
\* configuration.
THEOREM IssuedIsAccepted == Spec => []NotTurnedAway
<1>1. Turns /\ Handshake => NotTurnedAway
  <2> SUFFICES ASSUME Turns, Handshake, ~config.overlap, down[slot] # << >>,
                      Head(down[slot]).kind = "failure"
               PROVE  phase = "auth1" /\ row.code # Initial
    BY DEF NotTurnedAway
  <2>1. slot \in Slots /\ phase # "off"
    BY DEF Turns, TypeOK
  <2>2. PICK r \in Response : r = Head(down[slot]) /\ Answered(slot, r)
    BY <2>1, Places DEF Turns
  <2>3. Answers(r) /\ r.kind = "failure"
    BY <2>1, <2>2 DEF Handshake, Answered
  <2>4. phase # "authenticated"
    BY <2>2, One DEF Turns, Quiet, Answered
  <2>5. QED
    BY <2>1, <2>3, <2>4 DEF Answers, Handshake, Turns, TypeOK
<1>2. QED
  BY <1>1, RowInvariance, PTL
=============================================================================
