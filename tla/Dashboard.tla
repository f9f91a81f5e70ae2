----------------------------- MODULE Dashboard -----------------------------
(***************************************************************************)
(* One browser window of the dashboard (src/dashboard/src) over the REST   *)
(* API and the settings of DeviceSettings: the details of the selected     *)
(* device, polled by usePoll, and the two panels with which an operator    *)
(* writes: DeviceConfig, a form that is filled once, and CommandPanel.     *)
(*                                                                         *)
(* usePoll starts a request at every interval and whenever a panel is      *)
(* done, whether or not one is out, and shows each answer as it comes; a   *)
(* request that fails leaves what is shown.                                *)
(***************************************************************************)
EXTENDS DeviceSettings, TLC

CONSTANTS
  First,       \* the device at the head of the list: shown until one is selected
  Polls,       \* bound: requests for the details that are out at a time
  Edits,       \* fields that an operator fills in, with what
  Keys,        \* keys typed for a command, None for a blank
  Nothing,     \* nothing shown, no form, no request
  MaxSelects,  \* bound: clicks on the device list
  MaxFailures  \* bound: requests that fail

ASSUME DashboardAssumption ==
  First \in Devices /\ MaxSelects \in Nat /\ MaxFailures \in Nat

VARIABLES
  current,   \* the device whose DeviceDetail is mounted
  view,      \* its data
  form,      \* the form of DeviceConfig
  busy,      \* the command of CommandPanel is awaited
  polls,     \* requests for the data, and their answers on the way
  selects, failures

browser == <<current, view, form, busy, polls, selects, failures>>
vars == <<server, browser>>

-----------------------------------------------------------------------------
\* presentDevice.  The key itself is not shown.
Presented(d) ==
  [lock_id |-> row[d].lock_id, key_format |-> row[d].key_format,
   has_key |-> row[d].current_key # None, online |-> online[d]]

\* The form's fields when DeviceConfig is mounted.
Filled(data) ==
  [lock_id |-> data.lock_id, key_format |-> data.key_format, current_key |-> None]

Idle == [at |-> "idle", of |-> Nothing, data |-> Nothing]

Unmounted ==
  [view |-> Nothing, form |-> Nothing, busy |-> FALSE, polls |-> [p \in Polls |-> Idle]]

\* What the page keeps when another device is selected: nothing, for DeviceDetail
\* has the device as its key.  Mutant: without the key it is not mounted again.
Remounted_Not == [view |-> view, form |-> form, busy |-> busy, polls |-> polls]
Remounted == Unmounted

Init ==
  /\ ServerInit
  /\ current = First /\ view = Nothing /\ form = Nothing /\ busy = FALSE
  /\ polls = Unmounted.polls
  /\ selects = 0 /\ failures = 0

Select(d) ==
  /\ d # current /\ selects < MaxSelects
  /\ current' = d /\ selects' = selects + 1
  /\ view' = Remounted.view /\ form' = Remounted.form
  /\ busy' = Remounted.busy /\ polls' = Remounted.polls
  /\ UNCHANGED <<failures, server>>

\* When a request is sent: at the start and at intervals, also with another one
\* out.  Mutant: at the start only.
Due_Once(p) == view = Nothing /\ \A q \in Polls : polls[q] = Idle
Due(p) == polls[p] = Idle

Ask(p) ==
  /\ Due(p)
  /\ polls' = [polls EXCEPT ![p] =
                 [at |-> "asked", of |-> current, data |-> Nothing]]
  /\ UNCHANGED <<current, view, form, busy, selects, failures, server>>

\* GET /api/devices/:id.
Serve(p) ==
  /\ polls[p].at = "asked"
  /\ polls' = [polls EXCEPT ![p].at = "answered",
                              ![p].data = Presented(polls[p].of)]
  /\ UNCHANGED <<current, view, form, busy, selects, failures, server>>

\* setData; with the first data the panels are mounted.
Arrive(p) ==
  /\ polls[p].at = "answered"
  /\ view' = polls[p].data
  /\ form' = IF form = Nothing THEN Filled(polls[p].data) ELSE form
  /\ polls' = [polls EXCEPT ![p] = Idle]
  /\ UNCHANGED <<current, busy, selects, failures, server>>

\* setError.
Fail(p) ==
  /\ polls[p] # Idle /\ failures < MaxFailures
  /\ failures' = failures + 1
  /\ polls' = [polls EXCEPT ![p] = Idle]
  /\ UNCHANGED <<current, view, form, busy, selects, server>>

-----------------------------------------------------------------------------
\* The operator changes fields of the form and saves.  The form stays as it is,
\* with the key that was typed; a LockID field that is blank is not sent.
Save ==
  /\ form # Nothing
  /\ \E edit \in Edits :
       /\ form' = edit @@ form
       /\ SendPatch(current, form', {form'.lock_id} \ {form.lock_id, None})
  /\ UNCHANGED <<current, view, busy, polls, selects, failures,
                 row, online, copy, seal, loose>>

\* run of CommandPanel, for a seal; a blank key is not sent.
Seal(key) ==
  /\ view # Nothing /\ view.online /\ ~busy
  /\ Write /\ seal[current] = None /\ Execute(current, key, None)
  /\ busy' = TRUE
  /\ UNCHANGED <<current, view, form, polls, selects, failures,
                 row, online, copy, patches, attributed, loose>>

\* The command is over; the details are asked for again (see Ask).
Answered ==
  /\ busy /\ seal[current] = None
  /\ busy' = FALSE
  /\ UNCHANGED <<current, view, form, polls, selects, failures, server>>

-----------------------------------------------------------------------------
Next ==
  \/ \E d \in Devices : Select(d)
  \/ \E p \in Polls : Ask(p) \/ Serve(p) \/ Arrive(p) \/ Fail(p)
  \/ Save \/ Answered \/ \E key \in Keys : Seal(key)
  \/ (Serving \/ Others) /\ UNCHANGED browser

\* The interval goes on, and every request is answered or fails.
Fairness ==
  \A p \in Polls : WF_vars(Ask(p)) /\ WF_vars(Serve(p)) /\ WF_vars(Arrive(p))

Spec == Init /\ [][Next]_vars /\ Fairness

-----------------------------------------------------------------------------
(***************************************************************************)
(* Properties                                                              *)
(***************************************************************************)

TypeOK ==
  /\ row \in [Devices -> [lock_id: LockIds \cup {None}, key_format: Formats,
                          current_key: Formats \cup {None}]]
  /\ current \in Devices /\ busy \in BOOLEAN
  /\ \A d, e \in Devices : row[d].lock_id = row[e].lock_id => d = e \/ row[d].lock_id = None

\* usePoll: answers may come in any order, late and after newer ones, and some
\* never; in the end the page shows the selected device as the server has it.
ViewConverges == <>[](view = Presented(current))

\* PATCH, learning and the form: a LockID never gets lost, and a device only ever
\* gets one that its own lock reported or that was entered for it; a form of
\* one device, or a blank field, is never saved to another one or over a LockID
\* that was learned meanwhile.
LockIdsAreTheirs ==
  [][\A d \in Devices :
       \/ row'[d].lock_id = row[d].lock_id
       \/ row'[d].lock_id \in attributed'[d]]_vars

\* PATCH and onOperationReply: the stored key can be encoded in the stored format,
\* so that a seal without a key works, in whatever order requests and replies
\* come; unless the last of them wrote one of the two without the other, which
\* the API allows and a save of a form with an older format does.
StoredKeyFits ==
  \A d \in Devices : row[d].current_key # None /\ d \notin loose
                       => ~EncodeKeyFails(row[d].current_key, row[d].key_format)

=============================================================================
