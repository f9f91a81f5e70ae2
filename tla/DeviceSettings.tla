--------------------------- MODULE DeviceSettings ---------------------------
(***************************************************************************)
(* The settings of a device that several parties write: the LockID, and    *)
(* the seal key with its format.  They are columns of the devices table;   *)
(* PATCH (server/src/api/app.js) writes what an operator gave, a seal that *)
(* succeeded stores its key (command-service.js), and the first LockID a   *)
(* lock reports is learned (protocol-handler.js) by comparison with the    *)
(* copy of the row that its session keeps.                                 *)
(*                                                                         *)
(* A key is modelled by the one format it is written in: ten digits are    *)
(* rf10, six are ascii6, twelve hexadecimal ones are hex.                  *)
(***************************************************************************)
EXTENDS Integers

CONSTANTS
  Devices, LockIds, Formats,
  None,       \* no value
  NoRequest,  \* a free place in patches
  StartRows,  \* what the table may hold at the beginning
  Requests,   \* places for PATCH requests that are being processed
  Patches,    \* bodies of the PATCH requests of other clients of the API
  Seals,      \* key and format of their seals
  MaxWrites   \* bound: connections, reports, seals and PATCH requests

ASSUME DeviceSettingsAssumption ==
  /\ None \notin LockIds \cup Formats /\ MaxWrites \in Nat
  /\ StartRows \subseteq [Devices -> [lock_id: LockIds \cup {None}, key_format: Formats,
                                      current_key: Formats \cup {None}]]
  /\ \A r \in StartRows, d \in Devices : r[d].current_key \in {None, r[d].key_format}

VARIABLES
  row,         \* the columns of a device
  online,      \* the device has a session
  copy,        \* lock_id in the session's copy of the row
  seal,        \* key and format of the device's seal in flight, or None
  patches,     \* PATCH requests being processed
  attributed,  \* history: LockIDs the device's lock reported or that were entered
  loose,       \* history: devices whose key and format were last written one by one
  writes

server == <<row, online, copy, seal, patches, attributed, loose, writes>>

Write == writes < MaxWrites /\ writes' = writes + 1

\* The unique constraint on devices.lock_id.
Conflict(d, l) == l # None /\ \E e \in Devices \ {d} : row[e].lock_id = l

\* encodeKey, of which only the refusal matters here.
EncodeKeyFails(key, format) == key # format

Given(value, default) == IF value = None THEN default ELSE value

ServerInit ==
  /\ row \in StartRows
  /\ online = [d \in Devices |-> TRUE]
  /\ copy = [d \in Devices |-> row[d].lock_id]
  /\ seal = [d \in Devices |-> None]
  /\ patches = [i \in Requests |-> NoRequest]
  /\ attributed = [d \in Devices |-> {row[d].lock_id} \ {None}]
  /\ loose = {}
  /\ writes = 0

-----------------------------------------------------------------------------
\* identify; the row it returns is the session's copy.
Identify(d) ==
  /\ Write /\ ~online[d]
  /\ online' = [online EXCEPT ![d] = TRUE]
  /\ copy' = [copy EXCEPT ![d] = row[d].lock_id]
  /\ UNCHANGED <<row, seal, patches, attributed, loose>>

Disconnect(d) ==
  /\ Write /\ online[d]
  /\ online' = [online EXCEPT ![d] = FALSE]
  /\ UNCHANGED <<row, copy, seal, patches, attributed, loose>>

\* A heartbeat, and every other update of the row by its session.
Heartbeat(d) ==
  /\ online[d] /\ copy[d] # row[d].lock_id
  /\ copy' = [copy EXCEPT ![d] = row[d].lock_id]
  /\ UNCHANGED <<row, online, seal, patches, attributed, loose, writes>>

\* 0x0900 with a LockID where the session's copy has none: it is stored, unless
\* another device has it.
Learn(d, l) ==
  /\ Write /\ online[d] /\ copy[d] = None
  /\ attributed' = [attributed EXCEPT ![d] = @ \cup {l}]
  /\ IF Conflict(d, l) THEN UNCHANGED <<row, copy>>
     ELSE /\ row' = [row EXCEPT ![d].lock_id = l]
          /\ copy' = [copy EXCEPT ![d] = l]
  /\ UNCHANGED <<online, seal, patches, loose>>

\* execute, for a seal: what the request does not give is taken from the row.
Execute(d, key, keyFormat) ==
  LET k == Given(key, row[d].current_key)
      f == Given(keyFormat, row[d].key_format)
  IN  IF row[d].lock_id = None \/ k = None \/ EncodeKeyFails(k, f) \/ ~online[d]
      THEN UNCHANGED seal
      ELSE seal' = [seal EXCEPT ![d] = [key |-> k, format |-> f]]

ClientSeals(d, key, keyFormat) ==
  /\ Write /\ seal[d] = None /\ Execute(d, key, keyFormat)
  /\ UNCHANGED <<row, online, copy, patches, attributed, loose>>

\* onOperationReply of a seal that succeeded.
SealReply(d) ==
  /\ seal[d] # None
  /\ row' = [row EXCEPT ![d] = [lock_id     |-> @.lock_id,
                                key_format  |-> seal[d].format,
                                current_key |-> seal[d].key]]
  /\ seal' = [seal EXCEPT ![d] = None]
  /\ loose' = loose \ {d}
  /\ UNCHANGED <<online, copy, patches, attributed, writes>>

\* It failed, or nothing came.
SealFails(d) ==
  /\ seal[d] # None /\ seal' = [seal EXCEPT ![d] = None]
  /\ UNCHANGED <<row, online, copy, patches, attributed, loose, writes>>

-----------------------------------------------------------------------------
\* A PATCH request: the device, the columns it gives, and what is read of its row.
Body(lock_id, key_format, current_key) ==
  [lock_id |-> lock_id, key_format |-> key_format, current_key |-> current_key]

SendPatch(d, body, entered) ==
  /\ Write
  /\ \E i \in Requests :
       /\ patches[i] = NoRequest
       /\ patches' = [patches EXCEPT ![i] = [device |-> d, body |-> body, at |-> "sent"]]
  /\ attributed' = [attributed EXCEPT ![d] = @ \cup entered]

ClientPatches(d, body) ==
  /\ SendPatch(d, body, {body.lock_id} \ {None})
  /\ UNCHANGED <<row, online, copy, seal, loose>>

\* The format that the key of a PATCH must fit.
\* Mutant: the stored format, whatever the request gives.
Checked_Stored(d, body) == row[d].key_format
Checked(d, body) == Given(body.key_format, row[d].key_format)

Settled(i) == [patches EXCEPT ![i] = NoRequest]

\* The device has been read and the request validated.
PatchRead(i) ==
  /\ patches[i] # NoRequest /\ patches[i].at = "sent"
  /\ LET p == patches[i]
         refused == /\ p.body.current_key # None
                    /\ EncodeKeyFails(p.body.current_key, Checked(p.device, p.body))
     IN  patches' = IF refused THEN Settled(i)
                    ELSE [patches EXCEPT ![i].at = "checked"]
  /\ UNCHANGED <<row, online, copy, seal, attributed, loose, writes>>

\* The update has taken effect; it fails on the LockID of another device.
PatchUpdate(i) ==
  /\ patches[i] # NoRequest /\ patches[i].at = "checked"
  /\ LET b == patches[i].body
         d == patches[i].device
     IN  IF Conflict(d, b.lock_id) THEN UNCHANGED <<row, loose>>
         ELSE /\ row' = [row EXCEPT ![d] =
                  [lock_id     |-> Given(b.lock_id, @.lock_id),
                   key_format  |-> Given(b.key_format, @.key_format),
                   current_key |-> Given(b.current_key, @.current_key)]]
              /\ loose' = IF b.current_key # None /\ b.key_format # None
                          THEN loose \ {d}
                          ELSE IF \/ b.current_key # None
                                  \/ b.key_format \notin {None, row[d].key_format}
                          THEN loose \cup {d} ELSE loose
  /\ patches' = Settled(i)
  /\ UNCHANGED <<online, copy, seal, attributed, writes>>

-----------------------------------------------------------------------------
\* What the server does on its own, and what devices and other clients do.
Serving ==
  \/ \E d \in Devices : SealReply(d) \/ SealFails(d)
  \/ \E i \in Requests : PatchRead(i) \/ PatchUpdate(i)

Others ==
  \/ \E d \in Devices :
       \/ Identify(d) \/ Disconnect(d) \/ Heartbeat(d)
       \/ \E l \in LockIds : Learn(d, l)
       \/ \E s \in Seals : ClientSeals(d, s[1], s[2])
       \/ \E body \in Patches : ClientPatches(d, body)

=============================================================================
