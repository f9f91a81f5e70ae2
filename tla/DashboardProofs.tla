-------------------------- MODULE DashboardProofs --------------------------
(***************************************************************************)
(* Proofs about Dashboard, for any devices, requests, polls and inputs.    *)
(***************************************************************************)
EXTENDS Dashboard, TLAPS

-----------------------------------------------------------------------------
(***************************************************************************)
(* The stored key.                                                         *)
(***************************************************************************)

\* The columns and the requests are functions of records.
Shape ==
  /\ row = [d \in Devices |-> row[d]]
  /\ \A d \in Devices : row[d] = [lock_id     |-> row[d].lock_id,
                                 key_format  |-> row[d].key_format,
                                 current_key |-> row[d].current_key]
  /\ seal = [d \in Devices |-> seal[d]]
  /\ patches = [i \in Requests |-> patches[i]]

\* A seal was validated when it was sent, and a PATCH when it was read.
SealsFit == \A d \in Devices : seal[d] # None => seal[d].key = seal[d].format

PatchesFit ==
  \A i \in Requests :
    /\ patches[i] # NoRequest /\ patches[i].at = "checked"
    /\ patches[i].body.current_key # None /\ patches[i].body.key_format # None
    => patches[i].body.current_key = patches[i].body.key_format

KeyInv == Shape /\ SealsFit /\ PatchesFit /\ StoredKeyFits

LEMMA KeyInit == Init => KeyInv
<1> SUFFICES ASSUME Init PROVE KeyInv
  OBVIOUS
<1>1. row \in [Devices -> [lock_id: LockIds \cup {None}, key_format: Formats,
                           current_key: Formats \cup {None}]]
  BY DeviceSettingsAssumption DEF Init, ServerInit
<1>2. Shape
  BY <1>1 DEF Init, ServerInit, Shape
<1>3. SealsFit /\ PatchesFit
  BY DEF Init, ServerInit, SealsFit, PatchesFit
<1>4. StoredKeyFits
  BY DeviceSettingsAssumption DEF Init, ServerInit, StoredKeyFits, EncodeKeyFails
<1> QED
  BY <1>2, <1>3, <1>4 DEF KeyInv

\* Sending a request leaves the rest as it is: it is not checked yet.
LEMMA KeySend ==
  ASSUME KeyInv, NEW d, NEW body, NEW entered, SendPatch(d, body, entered),
         UNCHANGED <<row, seal, loose>>
  PROVE  KeyInv'
<1>1. PICK i \in Requests :
        patches' = [patches EXCEPT ![i] = [device |-> d, body |-> body, at |-> "sent"]]
  BY DEF SendPatch
<1>2. patches'[i].at # "checked"
  BY <1>1 DEF KeyInv, Shape
<1>3. \A j \in Requests : j # i => patches'[j] = patches[j]
  BY <1>1 DEF KeyInv, Shape
<1>4. patches' = [j \in Requests |-> patches'[j]]
  BY <1>1 DEF KeyInv, Shape
<1>5. Shape'
  BY <1>4 DEF KeyInv, Shape
<1>6. PatchesFit'
  BY <1>2, <1>3 DEF KeyInv, PatchesFit
<1> QED
  BY <1>5, <1>6 DEF KeyInv, SealsFit, StoredKeyFits

\* A seal that is sent has a key that can be encoded.
LEMMA KeyExecute ==
  ASSUME KeyInv, NEW d \in Devices, NEW key, NEW format, Execute(d, key, format),
         UNCHANGED <<row, patches, loose>>
  PROVE  KeyInv'
<1>1. CASE UNCHANGED seal
  BY <1>1 DEF KeyInv, Shape, SealsFit, PatchesFit, StoredKeyFits
<1>2. CASE seal' # seal
  <2> DEFINE k == Given(key, row[d].current_key)
             f == Given(format, row[d].key_format)
  <2>1. k = f /\ seal' = [seal EXCEPT ![d] = [key |-> k, format |-> f]]
    BY <1>2 DEF Execute, EncodeKeyFails
  <2>2. seal'[d].key = seal'[d].format
    BY <2>1 DEF KeyInv, Shape
  <2>3. \A e \in Devices : e # d => seal'[e] = seal[e]
    BY <2>1 DEF KeyInv, Shape
  <2>4. Shape'
    BY <2>1 DEF KeyInv, Shape
  <2>5. SealsFit'
    BY <2>2, <2>3 DEF KeyInv, SealsFit
  <2> QED
    BY <2>4, <2>5 DEF KeyInv, PatchesFit, StoredKeyFits
<1> QED
  BY <1>1, <1>2

\* onOperationReply stores the key and the format of the seal together.
LEMMA KeySealReply ==
  ASSUME KeyInv, NEW d \in Devices, SealReply(d)
  PROVE  KeyInv'
<1> DEFINE stored == [lock_id |-> row[d].lock_id, key_format |-> seal[d].format,
                      current_key |-> seal[d].key]
<1>0. row' = [row EXCEPT ![d] = stored]
  BY DEF SealReply
<1>a. row'[d] = stored /\ \A e \in Devices : e # d => row'[e] = row[e]
  BY <1>0 DEF KeyInv, Shape
<1>b. seal'[d] = None /\ \A e \in Devices : e # d => seal'[e] = seal[e]
  BY DEF SealReply, KeyInv, Shape
<1>c. loose' = loose \ {d}
  BY DEF SealReply
<1>1. row'[d].current_key = row'[d].key_format
  BY <1>a DEF SealReply, KeyInv, SealsFit
<1>2. row' = [e \in Devices |-> row'[e]]
  BY <1>0 DEF KeyInv, Shape
<1>3. \A e \in Devices : row'[e] = [lock_id     |-> row'[e].lock_id,
                                   key_format  |-> row'[e].key_format,
                                   current_key |-> row'[e].current_key]
  BY <1>a DEF KeyInv, Shape
<1>4. Shape'
  BY <1>2, <1>3 DEF SealReply, KeyInv, Shape
<1>5. SealsFit'
  BY <1>b DEF KeyInv, SealsFit
<1>6. PatchesFit'
  BY DEF SealReply, KeyInv, PatchesFit
<1>7. StoredKeyFits'
  BY <1>1, <1>a, <1>c DEF KeyInv, StoredKeyFits, EncodeKeyFails
<1> QED
  BY <1>4, <1>5, <1>6, <1>7 DEF KeyInv

LEMMA KeySealFails ==
  ASSUME KeyInv, NEW d \in Devices, SealFails(d)
  PROVE  KeyInv'
<1>1. Shape'
  BY DEF SealFails, KeyInv, Shape
<1>2. SealsFit'
  BY DEF SealFails, KeyInv, Shape, SealsFit
<1> QED
  BY <1>1, <1>2 DEF SealFails, KeyInv, PatchesFit, StoredKeyFits

\* A request passes the validation only with a key that fits what it gives.
LEMMA KeyPatchRead ==
  ASSUME KeyInv, NEW i \in Requests, PatchRead(i)
  PROVE  KeyInv'
<1> DEFINE p == patches[i]
           refused == /\ p.body.current_key # None
                      /\ EncodeKeyFails(p.body.current_key, Checked(p.device, p.body))
<1>1. patches' = IF refused THEN [patches EXCEPT ![i] = NoRequest]
                 ELSE [patches EXCEPT ![i].at = "checked"]
  BY DEF PatchRead, Settled
<1>2. Shape'
  BY <1>1 DEF PatchRead, KeyInv, Shape
<1>3. \A j \in Requests : j # i => patches'[j] = patches[j]
  BY <1>1 DEF KeyInv, Shape
<1>4. CASE refused
  <2>1. patches'[i] = NoRequest
    BY <1>1, <1>4 DEF KeyInv, Shape
  <2> QED
    BY <1>2, <1>3, <2>1 DEF PatchRead, KeyInv, SealsFit, PatchesFit, StoredKeyFits
<1>5. CASE ~refused
  <2>1. patches'[i] = [p EXCEPT !.at = "checked"]
    BY <1>1, <1>5 DEF KeyInv, Shape
  <2>2. patches'[i].body = p.body
    BY <2>1
  <2>3. p.body.current_key # None /\ p.body.key_format # None
          => p.body.current_key = p.body.key_format
    BY <1>5 DEF EncodeKeyFails, Checked, Given
  <2>4. PatchesFit'
    BY <1>3, <2>2, <2>3 DEF KeyInv, PatchesFit
  <2> QED
    BY <1>2, <2>4 DEF PatchRead, KeyInv, SealsFit, StoredKeyFits
<1> QED
  BY <1>4, <1>5
\* The update writes a pair that was checked, or leaves a trace in loose.
LEMMA KeyPatchUpdate ==
  ASSUME KeyInv, NEW i \in Requests, PatchUpdate(i)
  PROVE  KeyInv'
<1> DEFINE b == patches[i].body
           d == patches[i].device
           updated == [lock_id     |-> Given(b.lock_id, row[d].lock_id),
                       key_format  |-> Given(b.key_format, row[d].key_format),
                       current_key |-> Given(b.current_key, row[d].current_key)]
           apart == IF b.current_key # None /\ b.key_format # None
                    THEN loose \ {d}
                    ELSE IF \/ b.current_key # None
                            \/ b.key_format \notin {None, row[d].key_format}
                    THEN loose \cup {d} ELSE loose
<1>1. patches' = [patches EXCEPT ![i] = NoRequest] /\ UNCHANGED seal
  BY DEF PatchUpdate, Settled
<1>2. /\ patches' = [j \in Requests |-> patches'[j]]
      /\ \A j \in Requests : patches'[j] # NoRequest => patches'[j] = patches[j]
  BY <1>1 DEF KeyInv, Shape
<1>3. PatchesFit' /\ SealsFit'
  BY <1>1, <1>2 DEF KeyInv, PatchesFit, SealsFit
<1>4. CASE UNCHANGED <<row, loose>>
  BY <1>1, <1>2, <1>3, <1>4 DEF KeyInv, Shape, StoredKeyFits
<1>5. CASE /\ row' = [row EXCEPT ![d] = updated]
           /\ loose' = apart
  <2>1. \A e \in Devices : row'[e] = IF e = d THEN updated ELSE row[e]
    BY <1>5 DEF KeyInv, Shape
  <2>2. \A e \in Devices : e # d => (e \in loose' <=> e \in loose)
    BY <1>5
  <2>3. row' = [e \in Devices |-> row'[e]]
    BY <1>5 DEF KeyInv, Shape
  <2>4. \A e \in Devices : row'[e] = [lock_id     |-> row'[e].lock_id,
                                     key_format  |-> row'[e].key_format,
                                     current_key |-> row'[e].current_key]
    BY <2>1 DEF KeyInv, Shape
  <2>5. Shape'
    BY <1>1, <1>2, <2>3, <2>4 DEF KeyInv, Shape
  <2>6. ASSUME d \in Devices, row'[d].current_key # None, d \notin loose'
        PROVE  row'[d].current_key = row'[d].key_format
    <3>1. row'[d] = updated
      BY <2>1, <2>6
    <3>2. patches[i] # NoRequest /\ patches[i].at = "checked"
      BY DEF PatchUpdate
    <3>3. CASE b.current_key # None
      <4>1. b.key_format # None
        BY <1>5, <2>6, <3>3
      <4> QED
        BY <3>1, <3>2, <3>3, <4>1 DEF KeyInv, PatchesFit, Given
    <3>4. CASE b.current_key = None
      <4>1. b.key_format \in {None, row[d].key_format} /\ d \notin loose
        BY <1>5, <2>6, <3>4
      <4>2. /\ row'[d].current_key = row[d].current_key
            /\ row'[d].key_format = row[d].key_format
        BY <3>1, <3>4, <4>1 DEF Given
      <4> QED
        BY <2>6, <4>1, <4>2 DEF KeyInv, StoredKeyFits, EncodeKeyFails
    <3> QED
      BY <3>3, <3>4
  <2>7. StoredKeyFits'
    BY <2>1, <2>2, <2>6 DEF KeyInv, StoredKeyFits, EncodeKeyFails
  <2> QED
    BY <1>3, <2>5, <2>7 DEF KeyInv
<1> QED
  BY <1>4, <1>5 DEF PatchUpdate

\* A LockID is learned, and key and format stay.
LEMMA KeyLearn ==
  ASSUME KeyInv, NEW d \in Devices, NEW l, Learn(d, l)
  PROVE  KeyInv'
<1>1. UNCHANGED <<seal, patches, loose>>
  BY DEF Learn
<1>2. CASE UNCHANGED row
  BY <1>1, <1>2 DEF KeyInv, Shape, SealsFit, PatchesFit, StoredKeyFits
<1>3. CASE row' = [row EXCEPT ![d].lock_id = l]
  <2>1. row[d] = [lock_id |-> row[d].lock_id, key_format |-> row[d].key_format,
                  current_key |-> row[d].current_key]
    BY DEF KeyInv, Shape
  <2>2. [row[d] EXCEPT !.lock_id = l]
          = [lock_id |-> l, key_format |-> row[d].key_format,
             current_key |-> row[d].current_key]
    BY <2>1
  <2>3. row' = [row EXCEPT ![d] = [row[d] EXCEPT !.lock_id = l]]
    BY <1>3
  <2>4. \A e \in Devices :
          row'[e] = IF e = d THEN [row[d] EXCEPT !.lock_id = l] ELSE row[e]
    BY <2>3 DEF KeyInv, Shape
  <2>5. \A e \in Devices : /\ row'[e].current_key = row[e].current_key
                           /\ row'[e].key_format = row[e].key_format
    BY <2>2, <2>4
  <2>6. \A e \in Devices : row'[e] = [lock_id     |-> row'[e].lock_id,
                                     key_format  |-> row'[e].key_format,
                                     current_key |-> row'[e].current_key]
    BY <2>2, <2>4 DEF KeyInv, Shape
  <2>7. row' = [e \in Devices |-> row'[e]]
    BY <2>3 DEF KeyInv, Shape
  <2>8. Shape'
    BY <1>1, <2>6, <2>7 DEF KeyInv, Shape
  <2> QED
    BY <1>1, <2>5, <2>8 DEF KeyInv, SealsFit, PatchesFit, StoredKeyFits
<1> QED
  BY <1>2, <1>3 DEF Learn

\* The rest of the server's row, and the whole browser, do not matter to it.
LEMMA KeyUnchanged ==
  ASSUME KeyInv, UNCHANGED <<row, seal, patches, loose>>
  PROVE  KeyInv'
BY DEF KeyInv, Shape, SealsFit, PatchesFit, StoredKeyFits

LEMMA KeyServing == ASSUME KeyInv, Serving PROVE KeyInv'
<1>1. ASSUME NEW d \in Devices, SealReply(d) PROVE KeyInv'
  BY <1>1, KeySealReply
<1>2. ASSUME NEW d \in Devices, SealFails(d) PROVE KeyInv'
  BY <1>2, KeySealFails
<1>3. ASSUME NEW i \in Requests, PatchRead(i) PROVE KeyInv'
  BY <1>3, KeyPatchRead
<1>4. ASSUME NEW i \in Requests, PatchUpdate(i) PROVE KeyInv'
  BY <1>4, KeyPatchUpdate
<1> QED
  BY <1>1, <1>2, <1>3, <1>4 DEF Serving

LEMMA KeyOthers == ASSUME KeyInv, Others PROVE KeyInv'
<1>1. ASSUME NEW d \in Devices, Identify(d) \/ Disconnect(d) \/ Heartbeat(d)
      PROVE  KeyInv'
  BY <1>1, KeyUnchanged DEF Identify, Disconnect, Heartbeat
<1>2. ASSUME NEW d \in Devices, NEW l \in LockIds, Learn(d, l) PROVE KeyInv'
  BY <1>2, KeyLearn
<1>3. ASSUME NEW d \in Devices, NEW s \in Seals, ClientSeals(d, s[1], s[2])
      PROVE  KeyInv'
  <2>1. Execute(d, s[1], s[2]) /\ UNCHANGED <<row, patches, loose>>
    BY <1>3 DEF ClientSeals
  <2> QED
    BY <2>1, KeyExecute
<1>4. ASSUME NEW d \in Devices, NEW body \in Patches, ClientPatches(d, body)
      PROVE  KeyInv'
  <2>1. SendPatch(d, body, {body.lock_id} \ {None}) /\ UNCHANGED <<row, seal, loose>>
    BY <1>4 DEF ClientPatches
  <2> QED
    BY <2>1, KeySend
<1> QED
  BY <1>1, <1>2, <1>3, <1>4 DEF Others

LEMMA KeyBrowser ==
  ASSUME KeyInv,
         \/ \E d \in Devices : Select(d)
         \/ \E p \in Polls : Ask(p) \/ Serve(p) \/ Arrive(p) \/ Fail(p)
         \/ Answered
  PROVE  KeyInv'
BY KeyUnchanged DEF Select, Ask, Serve, Arrive, Fail, Answered, server

LEMMA KeySave == ASSUME KeyInv, Save PROVE KeyInv'
<1>1. PICK entered :
        SendPatch(current, form', entered) /\ UNCHANGED <<row, seal, loose>>
  BY DEF Save
<1> QED
  BY <1>1, KeySend

\* A seal of the panel; TypeOK's current \in Devices is all that is needed.
LEMMA KeySeal ==
  ASSUME KeyInv, current \in Devices, NEW key, Seal(key) PROVE KeyInv'
<1>1. Execute(current, key, None) /\ UNCHANGED <<row, patches, loose>>
  BY DEF Seal
<1> QED
  BY <1>1, KeyExecute

\* The selected device is one of the list.
LEMMA Selected ==
  /\ Init => current \in Devices
  /\ current \in Devices /\ [Next]_vars => (current \in Devices)'
<1>1. Init => current \in Devices
  BY DashboardAssumption DEF Init
<1>2. ASSUME current \in Devices, [Next]_vars PROVE (current \in Devices)'
  BY <1>2 DEF Next, vars, browser, Select, Ask, Serve, Arrive, Fail, Save, Seal, Answered
<1> QED
  BY <1>1, <1>2

LEMMA KeyNext ==
  ASSUME KeyInv, current \in Devices, [Next]_vars PROVE KeyInv'
<1>1. CASE UNCHANGED vars
  BY <1>1, KeyUnchanged DEF vars, server
<1>2. ASSUME NEW key \in Keys, Seal(key) PROVE KeyInv'
  BY <1>2, KeySeal
<1>3. CASE (Serving \/ Others) /\ UNCHANGED browser
  BY <1>3, KeyServing, KeyOthers
<1> QED
  BY <1>1, <1>2, <1>3, KeyBrowser, KeySave DEF Next

\* In every state the stored key fits the stored format, unless the last write
\* of the two gave only one of them: PATCH and onOperationReply, in any order.
THEOREM StoredKeyAlwaysFits == Spec => []StoredKeyFits
<1>1. Init => KeyInv /\ current \in Devices
  BY KeyInit, Selected
<1>2. KeyInv /\ current \in Devices /\ [Next]_vars => (KeyInv /\ current \in Devices)'
  BY KeyNext, Selected
<1>3. KeyInv => StoredKeyFits
  BY DEF KeyInv
<1> QED
  BY <1>1, <1>2, <1>3, PTL DEF Spec

-----------------------------------------------------------------------------
(***************************************************************************)
(* The LockIDs.  Wherever a LockID of a device is, in its row, in a        *)
(* request, in an answer on the way or in the form, its lock reported it   *)
(* or it was entered for it.                                               *)
(***************************************************************************)

Its(d) == attributed[d] \cup {None}

ServerLocks ==
  /\ attributed = [d \in Devices |-> attributed[d]]
  /\ \A d \in Devices : row[d].lock_id \in Its(d)
  /\ \A i \in Requests : patches[i] # NoRequest =>
       /\ patches[i].device \in Devices
       /\ patches[i].body.lock_id \in Its(patches[i].device)

\* Every request of the page is for the selected device: of another one nothing
\* is kept.
PageLocks ==
  /\ polls = [p \in Polls |-> polls[p]]
  /\ \A p \in Polls : polls[p] = [at |-> polls[p].at, of |-> polls[p].of,
                                  data |-> polls[p].data]
  /\ \A p \in Polls :
       /\ polls[p].at # "idle" => polls[p].of = current
       /\ polls[p].at = "answered" => polls[p].data.lock_id \in Its(current)
  /\ form # Nothing => form.lock_id \in Its(current)

Inv == KeyInv /\ current \in Devices /\ ServerLocks /\ PageLocks

\* What a step owes: LockIDs are only added to attributed, and a row gets one of them.
Grows == \A d \in Devices : attributed[d] \subseteq attributed'[d]

RowStep ==
  \A d \in Devices : \/ row'[d].lock_id = row[d].lock_id
                     \/ row'[d].lock_id \in attributed'[d]

LEMMA LockInit == Init => ServerLocks /\ PageLocks
<1> SUFFICES ASSUME Init PROVE ServerLocks /\ PageLocks
  OBVIOUS
<1>1. ServerLocks
  BY DEF Init, ServerInit, ServerLocks, Its
<1>2. PageLocks
  BY DEF Init, Unmounted, Idle, PageLocks
<1> QED
  BY <1>1, <1>2

LEMMA LockSend ==
  ASSUME Inv, NEW d \in Devices, NEW body, NEW entered, SendPatch(d, body, entered),
         body.lock_id \in Its(d) \cup entered, UNCHANGED row
  PROVE  ServerLocks' /\ Grows /\ body.lock_id \in Its(d)'
<1>1. PICK i \in Requests :
        patches' = [patches EXCEPT ![i] = [device |-> d, body |-> body, at |-> "sent"]]
  BY DEF SendPatch
<1>2. attributed' = [attributed EXCEPT ![d] = @ \cup entered]
  BY DEF SendPatch
<1>3. /\ attributed' = [e \in Devices |-> attributed'[e]]
      /\ attributed'[d] = attributed[d] \cup entered
      /\ \A e \in Devices : e # d => attributed'[e] = attributed[e]
  BY <1>2 DEF Inv, ServerLocks
<1>4. Grows
  BY <1>3 DEF Grows
<1>5. body.lock_id \in Its(d)'
  BY <1>3 DEF Its
<1>6. /\ patches'[i].device = d /\ patches'[i].body = body
      /\ \A j \in Requests : j # i => patches'[j] = patches[j]
  BY <1>1 DEF Inv, KeyInv, Shape
<1>7. \A e \in Devices : Its(e) \subseteq Its(e)'
  BY <1>4 DEF Grows, Its
<1>8. ServerLocks'
  BY <1>3, <1>5, <1>6, <1>7 DEF Inv, ServerLocks
<1> QED
  BY <1>4, <1>5, <1>8

\* The steps that leave attributed and the requests: row keeps its LockIDs.
LEMMA LockKept ==
  ASSUME Inv, UNCHANGED <<attributed, patches>>,
         \A d \in Devices : row'[d].lock_id = row[d].lock_id
  PROVE  ServerLocks' /\ Grows /\ RowStep
<1>1. \A d : Its(d)' = Its(d)
  BY DEF Its
<1> QED
  BY <1>1 DEF Inv, ServerLocks, Grows, RowStep

LEMMA LockServing ==
  ASSUME Inv, Serving PROVE ServerLocks' /\ Grows /\ RowStep
<1>1. ASSUME NEW d \in Devices, SealReply(d) PROVE ServerLocks' /\ Grows /\ RowStep
  <2>1. \A e \in Devices : row'[e].lock_id = row[e].lock_id
    BY <1>1 DEF SealReply, Inv, KeyInv, Shape
  <2> QED
    BY <1>1, <2>1, LockKept DEF SealReply
<1>2. ASSUME NEW d \in Devices, SealFails(d) PROVE ServerLocks' /\ Grows /\ RowStep
  BY <1>2, LockKept DEF SealFails
<1>3. ASSUME NEW i \in Requests, PatchRead(i) PROVE ServerLocks' /\ Grows /\ RowStep
  <2>1. UNCHANGED <<row, attributed>>
    BY <1>3 DEF PatchRead
  <2>2. \/ patches' = [patches EXCEPT ![i] = NoRequest]
        \/ patches' = [patches EXCEPT ![i] = [patches[i] EXCEPT !.at = "checked"]]
    BY <1>3 DEF PatchRead, Settled
  <2>3. \A j \in Requests : patches'[j] # NoRequest =>
          /\ patches[j] # NoRequest
          /\ patches'[j].device = patches[j].device
          /\ patches'[j].body = patches[j].body
    <3>1. patches[i] # NoRequest
      BY <1>3 DEF PatchRead
    <3>2. \A j \in Requests : j # i => patches'[j] = patches[j]
      BY <2>2 DEF Inv, KeyInv, Shape
    <3>3. \/ patches'[i] = NoRequest
          \/ patches'[i] = [patches[i] EXCEPT !.at = "checked"]
      BY <2>2 DEF Inv, KeyInv, Shape
    <3>4. patches'[i] # NoRequest => /\ patches'[i].device = patches[i].device
                                     /\ patches'[i].body = patches[i].body
      <4>1. CASE patches'[i] = [patches[i] EXCEPT !.at = "checked"]
        <5>1. patches'[i].device = patches[i].device
          BY <4>1
        <5>2. patches'[i].body = patches[i].body
          BY <4>1
        <5> QED
          BY <5>1, <5>2
      <4> QED
        BY <3>3, <4>1
    <3> QED
      BY <3>1, <3>2, <3>4
  <2>4. \A d : Its(d)' = Its(d)
    BY <2>1 DEF Its
  <2> QED
    BY <2>1, <2>3, <2>4 DEF Inv, ServerLocks, Grows, RowStep
<1>4. ASSUME NEW i \in Requests, PatchUpdate(i) PROVE ServerLocks' /\ Grows /\ RowStep
  <2> DEFINE b == patches[i].body
             d == patches[i].device
  <2>1. UNCHANGED attributed /\ patches' = [patches EXCEPT ![i] = NoRequest]
    BY <1>4 DEF PatchUpdate, Settled
  <2>2. \A j \in Requests : patches'[j] # NoRequest => patches'[j] = patches[j]
    BY <2>1 DEF Inv, KeyInv, Shape
  <2>3. d \in Devices /\ b.lock_id \in Its(d)
    BY <1>4 DEF PatchUpdate, Inv, ServerLocks
  <2>4. \A e \in Devices : \/ row'[e].lock_id = row[e].lock_id
                           \/ row'[e].lock_id \in attributed[e]
    <3>1. CASE UNCHANGED row
      BY <3>1
    <3>2. CASE row' = [row EXCEPT ![d] =
                 [lock_id     |-> Given(b.lock_id, @.lock_id),
                  key_format  |-> Given(b.key_format, @.key_format),
                  current_key |-> Given(b.current_key, @.current_key)]]
      <4>1. row'[d].lock_id = Given(b.lock_id, row[d].lock_id)
        BY <2>3, <3>2 DEF Inv, KeyInv, Shape
      <4>2. row'[d].lock_id = row[d].lock_id \/ row'[d].lock_id \in attributed[d]
        BY <2>3, <4>1 DEF Given, Its
      <4>3. \A e \in Devices : e # d => row'[e] = row[e]
        BY <3>2 DEF Inv, KeyInv, Shape
      <4> QED
        BY <4>2, <4>3
    <3> QED
      BY <1>4, <3>1, <3>2 DEF PatchUpdate
  <2>5. \A e : Its(e)' = Its(e)
    BY <2>1 DEF Its
  <2>6. \A e \in Devices : row'[e].lock_id \in Its(e)
    BY <2>4 DEF Inv, ServerLocks, Its
  <2> QED
    BY <2>1, <2>2, <2>4, <2>5, <2>6 DEF Inv, ServerLocks, Grows, RowStep
<1> QED
  BY <1>1, <1>2, <1>3, <1>4 DEF Serving

LEMMA LockLearn ==
  ASSUME Inv, NEW d \in Devices, NEW l, Learn(d, l)
  PROVE  ServerLocks' /\ Grows /\ RowStep
<1>1. UNCHANGED patches /\ attributed' = [attributed EXCEPT ![d] = @ \cup {l}]
  BY DEF Learn
<1>2. /\ attributed' = [e \in Devices |-> attributed'[e]]
      /\ attributed'[d] = attributed[d] \cup {l}
      /\ \A e \in Devices : e # d => attributed'[e] = attributed[e]
  BY <1>1 DEF Inv, ServerLocks
<1>3. \A e \in Devices : \/ row'[e].lock_id = row[e].lock_id
                         \/ row'[e].lock_id \in attributed'[e]
  <2>1. CASE UNCHANGED row
    BY <2>1
  <2>2. CASE row' = [row EXCEPT ![d].lock_id = l]
    <3>1. row'[d] = [row[d] EXCEPT !.lock_id = l]
      BY <2>2 DEF Inv, KeyInv, Shape
    <3>2. row[d] = [lock_id |-> row[d].lock_id, key_format |-> row[d].key_format,
                    current_key |-> row[d].current_key]
      BY DEF Inv, KeyInv, Shape
    <3>3. row'[d].lock_id = l
      BY <3>1, <3>2
    <3>4. \A e \in Devices : e # d => row'[e] = row[e]
      BY <2>2 DEF Inv, KeyInv, Shape
    <3> QED
      BY <1>2, <3>3, <3>4
  <2> QED
    BY <2>1, <2>2 DEF Learn
<1>4. Grows /\ \A e \in Devices : Its(e) \subseteq Its(e)'
  BY <1>2 DEF Grows, Its
<1>5. \A e \in Devices : row'[e].lock_id \in Its(e)'
  BY <1>3, <1>4 DEF Inv, ServerLocks, Its
<1> QED
  BY <1>1, <1>2, <1>3, <1>4, <1>5 DEF Inv, ServerLocks, RowStep

LEMMA LockOthers ==
  ASSUME Inv, Others PROVE ServerLocks' /\ Grows /\ RowStep
<1>1. ASSUME NEW d \in Devices, Identify(d) \/ Disconnect(d) \/ Heartbeat(d)
      PROVE  ServerLocks' /\ Grows /\ RowStep
  BY <1>1, LockKept DEF Identify, Disconnect, Heartbeat
<1>2. ASSUME NEW d \in Devices, NEW l \in LockIds, Learn(d, l)
      PROVE  ServerLocks' /\ Grows /\ RowStep
  BY <1>2, LockLearn
<1>3. ASSUME NEW d \in Devices, NEW s \in Seals, ClientSeals(d, s[1], s[2])
      PROVE  ServerLocks' /\ Grows /\ RowStep
  BY <1>3, LockKept DEF ClientSeals
<1>4. ASSUME NEW d \in Devices, NEW body \in Patches, ClientPatches(d, body)
      PROVE  ServerLocks' /\ Grows /\ RowStep
  <2>1. SendPatch(d, body, {body.lock_id} \ {None}) /\ UNCHANGED row
    BY <1>4 DEF ClientPatches
  <2>2. body.lock_id \in Its(d) \cup ({body.lock_id} \ {None})
    BY DEF Its
  <2> QED
    BY <2>1, <2>2, LockSend DEF RowStep
<1> QED
  BY <1>1, <1>2, <1>3, <1>4 DEF Others

\* What the server does leaves the page as it is, with all its LockIDs.
LEMMA PageKept ==
  ASSUME Inv, Grows, UNCHANGED <<current, polls, form>> PROVE PageLocks'
<1>1. Its(current) \subseteq Its(current)'
  BY DEF Inv, Grows, Its
<1> QED
  BY <1>1 DEF Inv, PageLocks

\* The server's part of a step of the page alone.
LEMMA ServerKept ==
  ASSUME Inv, UNCHANGED <<row, patches, attributed>>
  PROVE  ServerLocks' /\ Grows /\ RowStep
BY LockKept

LEMMA LockSelect ==
  ASSUME Inv, NEW d \in Devices, Select(d) PROVE PageLocks'
<1>1. form' = Nothing /\ polls' = [p \in Polls |-> Idle]
  BY DEF Select, Remounted, Unmounted
<1>2. polls' = [p \in Polls |-> polls'[p]] /\ \A p \in Polls : polls'[p] = Idle
  BY <1>1
<1> QED
  BY <1>1, <1>2 DEF PageLocks, Idle

LEMMA LockPolls ==
  ASSUME Inv, NEW p \in Polls, Ask(p) \/ Serve(p) \/ Arrive(p) \/ Fail(p)
  PROVE  PageLocks'
<1> DEFINE Record(q) == [at |-> q.at, of |-> q.of, data |-> q.data]
<1>1. UNCHANGED <<current, row, attributed>> /\ \A d : Its(d)' = Its(d)
  BY DEF Ask, Serve, Arrive, Fail, server, Its
<1>2. polls[p] = Record(polls[p]) /\ \A q \in Polls : polls[q] = Record(polls[q])
  BY DEF Inv, PageLocks
<1>3. CASE Ask(p)
  <2>1. polls' = [polls EXCEPT ![p] =
                    [at |-> "asked", of |-> current, data |-> Nothing]]
    BY <1>3 DEF Ask
  <2>3. /\ polls' = [q \in Polls |-> polls'[q]]
        /\ polls'[p] = [at |-> "asked", of |-> current, data |-> Nothing]
        /\ \A q \in Polls : q # p => polls'[q] = polls[q]
    BY <2>1 DEF Inv, PageLocks
  <2>4. UNCHANGED form
    BY <1>3 DEF Ask
  <2> QED
    BY <1>1, <2>3, <2>4 DEF Inv, PageLocks
<1>4. CASE Serve(p)
  <2> DEFINE answer == [at |-> "answered", of |-> polls[p].of,
                        data |-> Presented(polls[p].of)]
  <2>1. polls'[p] = answer /\ \A q \in Polls : q # p => polls'[q] = polls[q]
    BY <1>2, <1>4 DEF Serve, Inv, PageLocks
  <2>2. polls' = [q \in Polls |-> polls'[q]]
    BY <1>4 DEF Serve, Inv, PageLocks
  <2>3. polls[p].of = current
    BY <1>4 DEF Serve, Inv, PageLocks
  <2>4. Presented(current).lock_id \in Its(current)
    BY DEF Inv, ServerLocks, Presented
  <2>5. UNCHANGED form
    BY <1>4 DEF Serve
  <2>6. \A q \in Polls : polls'[q] = Record(polls'[q])
    BY <1>2, <2>1
  <2>7. \A q \in Polls : /\ polls'[q].at # "idle" => polls'[q].of = current
                         /\ polls'[q].at = "answered"
                              => polls'[q].data.lock_id \in Its(current)
    BY <2>1, <2>3, <2>4 DEF Inv, PageLocks
  <2> QED
    BY <1>1, <2>2, <2>5, <2>6, <2>7 DEF Inv, PageLocks
<1>5. CASE Arrive(p) \/ Fail(p)
  <2>1. polls' = [polls EXCEPT ![p] = Idle]
    BY <1>5 DEF Arrive, Fail
  <2>2. /\ polls' = [q \in Polls |-> polls'[q]]
        /\ polls'[p] = Idle
        /\ \A q \in Polls : q # p => polls'[q] = polls[q]
    BY <2>1 DEF Inv, PageLocks
  <2>3. form' # Nothing => form'.lock_id \in Its(current)
    <3>1. CASE UNCHANGED form
      BY <3>1 DEF Inv, PageLocks
    <3>2. CASE Arrive(p) /\ form' = Filled(polls[p].data)
      <4>1. polls[p].data.lock_id \in Its(current)
        BY <3>2 DEF Arrive, Inv, PageLocks
      <4> QED
        BY <3>2, <4>1 DEF Filled
    <3> QED
      BY <1>5, <3>1, <3>2 DEF Arrive, Fail
  <2> QED
    BY <1>1, <2>2, <2>3 DEF Inv, PageLocks, Idle
<1> QED
  BY <1>3, <1>4, <1>5

\* A save sends the form with the LockID it was filled with, or an entered one.
LEMMA LockSave ==
  ASSUME Inv, Save PROVE ServerLocks' /\ PageLocks' /\ Grows /\ RowStep
<1> DEFINE entered == {form'.lock_id} \ {form.lock_id, None}
<1>1. /\ form # Nothing /\ SendPatch(current, form', entered)
      /\ UNCHANGED <<row, current, polls>>
  BY DEF Save
<1>2. form'.lock_id \in Its(current) \cup entered
  BY <1>1 DEF Inv, PageLocks, Its
<1>3. ServerLocks' /\ Grows /\ form'.lock_id \in Its(current)'
  BY <1>1, <1>2, LockSend DEF Inv
<1>4. Its(current) \subseteq Its(current)'
  BY <1>1, <1>3 DEF Inv, Grows, Its
<1>5. PageLocks'
  BY <1>1, <1>3, <1>4 DEF Inv, PageLocks
<1> QED
  BY <1>1, <1>3, <1>5 DEF RowStep

LEMMA LockNext ==
  ASSUME Inv, [Next]_vars PROVE ServerLocks' /\ PageLocks' /\ RowStep
<1>1. CASE UNCHANGED vars
  BY <1>1, ServerKept, PageKept DEF vars, server, browser
<1>2. ASSUME NEW d \in Devices, Select(d) PROVE ServerLocks' /\ PageLocks' /\ RowStep
  BY <1>2, LockSelect, ServerKept DEF Select, server
<1>3. ASSUME NEW p \in Polls, Ask(p) \/ Serve(p) \/ Arrive(p) \/ Fail(p)
      PROVE  ServerLocks' /\ PageLocks' /\ RowStep
  <2>1. UNCHANGED <<row, patches, attributed>>
    BY <1>3 DEF Ask, Serve, Arrive, Fail, server
  <2> QED
    BY <1>3, <2>1, LockPolls, ServerKept
<1>4. CASE Save
  BY <1>4, LockSave
<1>5. CASE Answered \/ \E key \in Keys : Seal(key)
  BY <1>5, ServerKept, PageKept DEF Answered, Seal, server
<1>6. CASE (Serving \/ Others) /\ UNCHANGED browser
  BY <1>6, LockServing, LockOthers, PageKept DEF browser
<1> QED
  BY <1>1, <1>2, <1>3, <1>4, <1>5, <1>6 DEF Next

LEMMA InvInductive == Spec => []Inv
<1>1. Init => Inv
  BY KeyInit, Selected, LockInit DEF Inv
<1>2. Inv /\ [Next]_vars => Inv'
  BY KeyNext, Selected, LockNext DEF Inv
<1> QED
  BY <1>1, <1>2, PTL DEF Spec

\* A row never loses its LockID, and gets only one that its own lock reported or
\* that was entered for it, whatever forms, answers and requests are about.
THEOREM LockIdsAlwaysTheirs == Spec => LockIdsAreTheirs
<1>1. Inv /\ [Next]_vars
        => [\A d \in Devices : \/ row'[d].lock_id = row[d].lock_id
                               \/ row'[d].lock_id \in attributed'[d]]_vars
  BY LockNext DEF RowStep
<1> QED
  BY <1>1, InvInductive, PTL DEF Spec, LockIdsAreTheirs

=============================================================================
