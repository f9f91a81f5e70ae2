--------------------------- MODULE Authentication ---------------------------
(***************************************************************************)
(* Authentication and registration of one device: onAuthenticate and       *)
(* onRegister of server/src/services/protocol-handler.js against the       *)
(* handshake of simulator/device.js.                                       *)
(*                                                                         *)
(* The code a device must present is a column of its row that both         *)
(* handlers write and that the first compares with.  A message that has    *)
(* been received is processed even when its connection has closed, so one  *)
(* of a former connection may be handled beside those of the present one.  *)
(***************************************************************************)
EXTENDS Integers, Sequences

CONSTANTS
  Slots,            \* connections that exist at one time
  Codes,            \* codes the platform issues
  Factory,          \* the code of a terminal that has been issued none
  NoCode, NoMsg,
  Configs,          \* the configurations considered, see Config
  ForceRegister,    \* values of the option that makes the device register first
  MaxFaults,        \* bound: drops, restarts and early timeouts of the device
  MaxStoreFailures  \* bound: store statements that fail

\* A configuration of the platform, and whether the device may connect again
\* before its last connection is finished.
Config == [AUTH_MODE: {"accept_all", "known_devices"},
           ALLOWED_AUTH_CODES: SUBSET {Factory},
           REGISTRATION_MODE: {"issue_code", "reject"}, overlap: BOOLEAN]

ASSUME AuthenticationAssumption ==
  /\ Factory \notin Codes /\ NoCode \notin Codes \cup {Factory}
  /\ Configs \subseteq Config
  /\ ForceRegister \subseteq BOOLEAN
  /\ MaxFaults \in Nat /\ MaxStoreFailures \in Nat

VARIABLES
  phase,     \* where the device's handshake has got to
  authCode,  \* SimulatedDevice.authCode
  slot,      \* its connection, or the last one
  state,     \* each connection: "free", "open" or "closed"
  up, down,  \* frames in transit
  queue,     \* messages waiting in the session's queue
  step,      \* the handler that is suspended in each session
  authenticated, \* Session.authenticated
  presented, \* history: the code last accepted or refused on a session
  row,       \* auth_code and authenticated of the devices row
  config,    \* the configuration, which a run of the platform does not change
  admitted,  \* history: the codes not issued here that the configuration, at
             \* the time, let in by itself
  faults, failures

device  == <<phase, authCode, slot>>
network == <<state, up, down>>
session == <<queue, step, authenticated, presented>>
used    == <<faults, failures, config, admitted>>
vars    == <<device, network, session, row, used>>

-----------------------------------------------------------------------------
Auth(c)  == [kind |-> "auth", code |-> c]
Register == [kind |-> "register", code |-> NoCode]

\* What the device presents.
Initial == IF authCode = NoCode THEN Factory ELSE authCode

\* Nothing of a connection is on its way or being handled.
Quiet(s) == up[s] = << >> /\ down[s] = << >> /\ queue[s] = << >> /\ step[s] = NoMsg

\* Codes in use: randomBytes does not give one of them again.  (Which other it
\* gives makes no difference.)
InUse ==
  {authCode, row.code} \cup {presented[s] : s \in Slots}
  \cup UNION {{m.code : m \in {up[s][i] : i \in DOMAIN up[s]}} : s \in Slots}
  \cup UNION {{m.code : m \in {down[s][i] : i \in DOMAIN down[s]}} : s \in Slots}
  \cup UNION {{m.code : m \in {queue[s][i] : i \in DOMAIN queue[s]}} : s \in Slots}
  \cup {step[s].code : s \in {t \in Slots : step[t] # NoMsg}}

\* Whether the configuration lets a code in, whatever is stored.
Admits(code) ==
  config.AUTH_MODE = "accept_all" \/ code \in config.ALLOWED_AUTH_CODES

\* Whether a code is accepted.  Mutant: a row without a code admits any.
Accepts_Unset(code, stored) == Admits(code) \/ stored \in {NoCode, code}
Accepts(code, stored) == Admits(code) \/ stored = code

\* The patch of onAuthenticate.  Mutant: the code accepted is not recorded.
Patch_Kept(accept, code) == [code |-> row.code, authenticated |-> accept]
Patch(accept, code) ==
  [code |-> IF accept THEN code ELSE row.code, authenticated |-> accept]

\* The patch of onRegister.  Mutant: the code is sent and not stored.
IssuedRow_Unsaved(code) == row
IssuedRow(code) == [row EXCEPT !.code = code]

Write(s, m) ==
  down' = IF state[s] = "open" THEN [down EXCEPT ![s] = Append(@, m)] ELSE down

-----------------------------------------------------------------------------
Init ==
  /\ phase = "off" /\ authCode = NoCode /\ slot \in Slots
  /\ state = [s \in Slots |-> "free"]
  /\ up = [s \in Slots |-> << >>] /\ down = [s \in Slots |-> << >>]
  /\ queue = [s \in Slots |-> << >>]
  /\ step = [s \in Slots |-> NoMsg]
  /\ authenticated = [s \in Slots |-> FALSE]
  /\ presented = [s \in Slots |-> NoCode]
  /\ row = [code |-> NoCode, authenticated |-> FALSE]
  /\ faults = 0 /\ failures = 0 /\ config \in Configs /\ admitted = {}

\* The simulator is started (by hand: nothing in it connects again) and begins
\* its handshake.  authCode is --auth-code, if it is given.
Connect(s) ==
  /\ phase = "off" /\ state[s] = "free"
  /\ config.overlap \/ \A t \in Slots : state[t] = "free"
  /\ slot' = s /\ state' = [state EXCEPT ![s] = "open"]
  /\ \E forced \in ForceRegister :
       /\ phase' = IF forced THEN "register" ELSE "auth1"
       /\ up' = [up EXCEPT ![s] = <<IF forced THEN Register ELSE Auth(Initial)>>]
  /\ UNCHANGED <<authCode, down, session, row, used>>

Hear(p) == phase = p /\ down[slot] # << >>

OnAccepted ==
  /\ phase \in {"auth1", "auth2"} /\ Hear(phase) /\ Head(down[slot]).kind = "success"
  /\ phase' = "authenticated"
  /\ down' = [down EXCEPT ![slot] = Tail(@)]
  /\ UNCHANGED <<authCode, slot, state, up, session, row, used>>

\* The device registers only when its code has been refused.
OnRefused ==
  /\ Hear("auth1") /\ Head(down[slot]).kind = "failure"
  /\ phase' = "register"
  /\ down' = [down EXCEPT ![slot] = Tail(@)]
  /\ up' = [up EXCEPT ![slot] = Append(@, Register)]
  /\ UNCHANGED <<authCode, slot, state, session, row, used>>

OnRegistrationResponse ==
  /\ Hear("register") /\ Head(down[slot]).kind = "issued"
  /\ authCode' = Head(down[slot]).code
  /\ phase' = "auth2"
  /\ down' = [down EXCEPT ![slot] = Tail(@)]
  /\ up' = [up EXCEPT ![slot] = Append(@, Auth(authCode'))]
  /\ UNCHANGED <<slot, state, session, row, used>>

\* The process of the simulator ends and its socket closes: what is in transit is
\* lost, what has been received is not.
Closed ==
  /\ phase' = "off"
  /\ state' = [state EXCEPT ![slot] = "closed"]
  /\ up' = [up EXCEPT ![slot] = << >>] /\ down' = [down EXCEPT ![slot] = << >>]

\* The handshake fails: the new code is refused, or the registration.
GiveUp ==
  /\ \/ Hear("auth2") /\ Head(down[slot]).kind = "failure"
     \/ Hear("register") /\ Head(down[slot]).kind = "refused"
  /\ Closed /\ UNCHANGED <<authCode, slot, session, row, used>>

\* No response within 5 s, and none is to come.
Timeout ==
  /\ phase \in {"auth1", "register", "auth2"} /\ Quiet(slot)
  /\ Closed /\ UNCHANGED <<authCode, slot, session, row, used>>

Fault == faults < MaxFaults /\ faults' = faults + 1

\* The connection is lost, or the response is late.
Drop ==
  /\ phase # "off" /\ Fault
  /\ Closed /\ UNCHANGED <<authCode, slot, session, row, failures, config, admitted>>

\* The next start is without --auth-code: the code that was issued is forgotten.
Restart ==
  /\ phase = "off" /\ authCode # NoCode /\ Fault
  /\ authCode' = NoCode
  /\ UNCHANGED <<phase, slot, network, session, row, failures, config, admitted>>

-----------------------------------------------------------------------------
\* The platform.
OnData(s) ==
  /\ state[s] = "open" /\ up[s] # << >>
  /\ up' = [up EXCEPT ![s] = Tail(@)]
  /\ queue' = [queue EXCEPT ![s] = Append(@, Head(up[s]))]
  /\ UNCHANGED <<device, state, down, step, authenticated, presented, row, used>>

\* handleItem up to dispatch: session.device becomes the row as it is now.
HandleItem(s) ==
  /\ step[s] = NoMsg /\ queue[s] # << >>
  /\ queue' = [queue EXCEPT ![s] = Tail(@)]
  /\ LET m == Head(queue[s])
     IN  step' = [step EXCEPT ![s] = [at |-> m.kind, code |-> m.code,
                                      stored |-> row.code, accept |-> FALSE]]
  /\ UNCHANGED <<device, network, authenticated, presented, row, used>>

\* onAuthenticate up to the update of the row.
OnAuthenticate(s) ==
  /\ step[s] # NoMsg /\ step[s].at = "auth"
  /\ LET accept == Accepts(step[s].code, step[s].stored)
     IN  /\ row' = Patch(accept, step[s].code)
         /\ step' = [step EXCEPT ![s].at = "answer", ![s].accept = accept]
  /\ admitted' = IF Admits(step[s].code) THEN admitted \cup ({step[s].code} \ Codes)
                                        ELSE admitted
  /\ UNCHANGED <<device, network, queue, authenticated, presented, faults,
                 failures, config>>

\* The rest of onAuthenticate, to the response.
Outcome(s) == [authenticated EXCEPT ![s] = step[s].accept]

Answer(s) ==
  /\ step[s] # NoMsg /\ step[s].at = "answer"
  /\ authenticated' = Outcome(s)
  /\ presented' = [presented EXCEPT ![s] = step[s].code]
  /\ Write(s, [kind |-> IF step[s].accept THEN "success" ELSE "failure",
               code |-> NoCode])
  /\ step' = [step EXCEPT ![s] = NoMsg]
  /\ UNCHANGED <<device, state, up, queue, row, used>>

\* onRegister: a new code replaces the one stored, then goes to the device.
OnRegister(s) ==
  /\ step[s] # NoMsg /\ step[s].at = "register" /\ config.REGISTRATION_MODE = "issue_code"
  /\ Codes \ InUse # {}
  /\ LET c == CHOOSE code \in Codes : code \notin InUse
     IN  /\ row' = IssuedRow(c)
         /\ step' = [step EXCEPT ![s].at = "issue", ![s].code = c]
  /\ UNCHANGED <<device, network, queue, authenticated, presented, used>>

Issue(s) ==
  /\ step[s] # NoMsg /\ step[s].at = "issue"
  /\ Write(s, [kind |-> "issued", code |-> step[s].code])
  /\ step' = [step EXCEPT ![s] = NoMsg]
  /\ UNCHANGED <<device, state, up, queue, authenticated, presented, row, used>>

RefuseRegistration(s) ==
  /\ step[s] # NoMsg /\ step[s].at = "register" /\ config.REGISTRATION_MODE = "reject"
  /\ Write(s, [kind |-> "refused", code |-> NoCode])
  /\ step' = [step EXCEPT ![s] = NoMsg]
  /\ UNCHANGED <<device, state, up, queue, authenticated, presented, row, used>>

\* A statement fails and with it the handler: the device gets no response.  The
\* last statement of an acceptance comes after the session was marked.
StoreFails(s) ==
  /\ step[s] # NoMsg /\ failures < MaxStoreFailures
  /\ failures' = failures + 1
  /\ \/ step[s].at \in {"auth", "register"} /\ UNCHANGED <<authenticated, presented>>
     \/ /\ step[s].at = "answer" /\ step[s].accept
        /\ authenticated' = Outcome(s)
        /\ presented' = [presented EXCEPT ![s] = step[s].code]
  /\ step' = [step EXCEPT ![s] = NoMsg]
  /\ UNCHANGED <<device, network, queue, row, faults, config, admitted>>

\* onDisconnect, the last task of a session.
Offline == [row EXCEPT !.authenticated = FALSE]

OnDisconnect(s) ==
  /\ state[s] = "closed" /\ queue[s] = << >> /\ step[s] = NoMsg
  /\ row' = IF \E t \in Slots : state[t] = "open" THEN row ELSE Offline
  /\ state' = [state EXCEPT ![s] = "free"]
  /\ authenticated' = [authenticated EXCEPT ![s] = FALSE]
  /\ presented' = [presented EXCEPT ![s] = NoCode]
  /\ UNCHANGED <<device, up, down, queue, step, used>>

\* The platform is stopped, which finishes its connections, and started with
\* another AUTH_MODE or list of codes ("switch to known_devices after first
\* capture").
Reconfigure ==
  /\ \A s \in Slots : state[s] = "free"
  /\ \E c \in Configs :
       /\ c.REGISTRATION_MODE = config.REGISTRATION_MODE /\ c.overlap = config.overlap
       /\ config' = c
  /\ UNCHANGED <<device, network, session, row, faults, failures, admitted>>

-----------------------------------------------------------------------------
Device == (\E s \in Slots : Connect(s)) \/ OnAccepted \/ OnRefused
          \/ OnRegistrationResponse \/ GiveUp \/ Timeout

Platform(s) ==
  \/ OnData(s) \/ HandleItem(s) \/ OnAuthenticate(s) \/ Answer(s)
  \/ OnRegister(s) \/ Issue(s) \/ RefuseRegistration(s) \/ OnDisconnect(s)

Next == \/ Device \/ Drop \/ Restart \/ Reconfigure
        \/ \E s \in Slots : Platform(s) \/ StoreFails(s)

Spec == Init /\ [][Next]_vars

-----------------------------------------------------------------------------
(***************************************************************************)
(* Properties                                                              *)
(***************************************************************************)

AllCodes == Codes \cup {Factory, NoCode}

TypeOK ==
  /\ phase \in {"off", "auth1", "register", "auth2", "authenticated"}
  /\ authCode \in Codes \cup {NoCode}
  /\ slot \in Slots /\ state \in [Slots -> {"free", "open", "closed"}]
  /\ phase # "off" <=> state[slot] = "open"
  /\ \A s \in Slots : state[s] = "open" => s = slot
  /\ \A s \in Slots : state[s] = "free" => Quiet(s)
  /\ authenticated \in [Slots -> BOOLEAN] /\ presented \in [Slots -> AllCodes]
  /\ row \in [code : AllCodes, authenticated : BOOLEAN]
  /\ config \in Configs /\ admitted \subseteq {Factory}
  /\ faults \in 0..MaxFaults /\ failures \in 0..MaxStoreFailures

\* A session is authenticated by a code that the platform issued, or one that a
\* configuration let in: when it was presented, or when it was captured under a
\* former one (accept_all records any code, and known_devices then accepts what
\* is stored).  A code the device brings is never let in because of what other
\* handlers do to the row.
OnlyKnownCodes ==
  \A s \in Slots : authenticated[s] => presented[s] \in Codes \cup admitted

\* Every connection is finished before the next, or nothing but an acceptance
\* writes the code.
InTurn == ~config.overlap \/ config.REGISTRATION_MODE = "reject"

\* The row agrees with the device: it holds the code that the authenticated
\* device will present next time, and does not say authenticated when no
\* connection is left.
RowAgrees ==
  /\ phase = "authenticated" /\ InTurn => row.code = Initial
  /\ (\A s \in Slots : state[s] = "free") /\ failures = 0 => ~row.authenticated

\* Where connections are finished in turn, the terminal is refused only with a
\* code that is not the stored one, and never with the one it was issued on this
\* connection: also when the code was captured under accept_all and the mode has
\* been switched since, and whatever was lost before.
NotTurnedAway ==
  ~config.overlap /\ down[slot] # << >> /\ Head(down[slot]).kind = "failure" =>
    phase = "auth1" /\ row.code # Initial

=============================================================================
