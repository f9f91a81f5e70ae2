--------------------------- MODULE BusinessFrame ---------------------------
(***************************************************************************)
(* Where the business data of an e-lock frame ends: encodeBusinessFrame    *)
(* and decodeBusinessFrame of server/src/protocol/tt-elock.js.             *)
(*                                                                         *)
(*     LEN | 0x2A | data | 0x23 | additional | serial(2) | CRC(1)          *)
(*                                                                         *)
(* Nothing in a frame says how long its data is: LEN has three readings.   *)
(* The decoder looks for 0x23 at the places where it may be, and data and  *)
(* additional information may hold that byte at any of them too.  A frame  *)
(* is modelled by its lengths and by the candidate places that hold 0x23.  *)
(***************************************************************************)
EXTENDS Integers, Sequences, SequencesExt

CONSTANTS
  DataLengths,  \* data lengths of the frames sent
  ExtraLengths  \* lengths of their additional information

ASSUME BusinessFrameAssumption ==
  /\ DataLengths \subseteq Nat \ {0} /\ ExtraLengths \subseteq Nat

-----------------------------------------------------------------------------
Ops == {"operation_reply", "lock_upload", "lock_operation", "lock_upload_reply",
        "unsupported"}
Direction(op) ==
  IF op \in {"lock_operation", "lock_upload_reply"} THEN "downlink" ELSE "uplink"

LEN_MODES == {"after_len", "after_len_excl_crc", "doc_example"}

\* Documented data lengths, in the order in which they are tried.
\* Mutant: the former length first.
KNOWN_DATA_LENGTHS_LegacyFirst(op) ==
  CASE op = "operation_reply"   -> <<25, 35>>
    [] op = "lock_upload"       -> <<21>>
    [] op = "lock_operation"    -> <<34>>
    [] op = "lock_upload_reply" -> <<12>>
    [] op = "unsupported"       -> << >>
KNOWN_DATA_LENGTHS(op) ==
  CASE op = "operation_reply"   -> <<35, 25>>
    [] op = "lock_upload"       -> <<21>>
    [] op = "lock_operation"    -> <<34>>
    [] op = "lock_upload_reply" -> <<12>>
    [] op = "unsupported"       -> << >>

\* Documented lengths of the additional information: none, GPS and LBS of 7 or
\* 10 bytes, GPS alone.
Extras(op) == IF Direction(op) = "uplink" THEN <<0, 35, 38, 28>> ELSE <<0>>

\* The end of the additional information.
BodyEnd(f) == 3 + f.data + f.extra

\* The places where the decoder looks for 0x23.
Places(op, end) ==
  {2 + L : L \in {l \in ToSet(KNOWN_DATA_LENGTHS(op)) : 2 + l < end}}
  \cup {end - E - 1 : E \in {e \in ToSet(Extras(op)) : end - e - 1 >= 3}}

\* lenValue.
LenValue(mode, data, core) ==
  CASE mode = "after_len"          -> core + 1
    [] mode = "after_len_excl_crc" -> core
    [] mode = "doc_example"        -> data + 3

-----------------------------------------------------------------------------
\* The places that hold 0x23: those of the documented data lengths, then those that
\* leave a documented additional length; `rank` is the order in which they are
\* looked at.
Candidates(f) ==
  LET end   == BodyEnd(f)
      K     == KNOWN_DATA_LENGTHS(f.op)
      E     == Extras(f.op)
      known == {[idx |-> 2 + K[i], known |-> TRUE, extra |-> end - 3 - K[i],
                 rank |-> i] : i \in DOMAIN K}
      other == {[idx |-> end - 1 - E[i], known |-> FALSE, extra |-> E[i],
                 rank |-> Len(K) + i] : i \in DOMAIN E}
      first == {c \in known : c.idx < end /\ c.idx \in f.tails}
  IN  first \cup {c \in other : /\ c.idx >= 3 /\ c.idx \in f.tails
                              /\ \A d \in first : d.idx # c.idx}

Score(op, c) ==
  (IF c.known THEN 2 ELSE 0) + (IF c.extra \in ToSet(Extras(op)) THEN 1 ELSE 0)

\* The first of the candidates of the highest score: the sort is stable.
Chosen(f) ==
  CHOOSE c \in Candidates(f) :
    \A d \in Candidates(f) : \/ Score(f.op, d) < Score(f.op, c)
                             \/ Score(f.op, d) = Score(f.op, c) /\ c.rank <= d.rank

\* Mutant: nothing is said of an undocumented additional length.
Warned_LengthOnly(op, c) == ~c.known /\ KNOWN_DATA_LENGTHS(op) # << >>
Warned(op, c) ==
  \/ ~c.known /\ KNOWN_DATA_LENGTHS(op) # << >>
  \/ c.extra \notin ToSet(Extras(op))

-----------------------------------------------------------------------------
\* What each encoder puts one after the other, with its size in bytes; a former
\* reply (25 bytes) as the protocol document shows it.
EncodeOperationReply(data) ==
  IF data = 25
  THEN << <<"op", 1>>, <<"code", 1>>, <<"lockId", 4>>, <<"gate", 1>>, <<"bill", 8>>,
          <<"voltage", 1>>, <<"lockStatus", 1>>, <<"motorStatus", 1>>,
          <<"commandSource", 1>>, <<"time", 6>> >>
  ELSE << <<"op", 1>>, <<"code", 1>>, <<"lockId", 4>>, <<"gate", 1>>, <<"bill", 8>>,
          <<"voltage", 1>>, <<"lockStatus", 1>>, <<"motorStatus", 1>>,
          <<"lineCode", 2>>, <<"operationIdentifier", 8>>, <<"commandSource", 1>>,
          <<"time", 6>> >>

EncodeLockUpload ==
  << <<"op", 1>>, <<"code", 1>>, <<"lockId", 4>>, <<"gate", 1>>, <<"voltage", 1>>,
     <<"lockStatus", 1>>, <<"motorStatus", 1>>, <<"spare", 4>>, <<"version", 1>>,
     <<"time", 6>> >>

EncodeLockOperation ==
  << <<"op", 1>>, <<"code", 1>>, <<"lockId", 4>>, <<"gate", 1>>, <<"bill", 8>>,
     <<"lineCode", 2>>, <<"key", 6>>, <<"validTime", 1>>, <<"spare", 4>>, <<"time", 6>> >>

EncodeLockUploadReply ==
  << <<"op", 1>>, <<"code", 1>>, <<"lockId", 4>>, <<"time", 6>> >>

Layout(op, data) ==
  CASE op = "operation_reply"   -> EncodeOperationReply(data)
    [] op = "lock_upload"       -> EncodeLockUpload
    [] op = "lock_operation"    -> EncodeLockOperation
    [] op = "lock_upload_reply" -> EncodeLockUploadReply

\* Where a field is read: the offset of its first byte, and of the first after it.
At(first, end) == <<first, end>>

DecodeOperationReply(data) ==
  IF data = 25
  THEN [code |-> At(1, 2), lockId |-> At(2, 6), gate |-> At(6, 7), bill |-> At(7, 15),
        voltage |-> At(15, 16), lockStatus |-> At(16, 17), motorStatus |-> At(17, 18),
        commandSource |-> At(18, 19), time |-> At(19, 25)]
  ELSE [code |-> At(1, 2), lockId |-> At(2, 6), gate |-> At(6, 7), bill |-> At(7, 15),
        voltage |-> At(15, 16), lockStatus |-> At(16, 17), motorStatus |-> At(17, 18),
        lineCode |-> At(18, 20), operationIdentifier |-> At(20, 28),
        commandSource |-> At(28, 29), time |-> At(29, 35)]

DecodeLockUpload ==
  [code |-> At(1, 2), lockId |-> At(2, 6), gate |-> At(6, 7), voltage |-> At(7, 8),
   lockStatus |-> At(8, 9), motorStatus |-> At(9, 10), spare |-> At(10, 14),
   version |-> At(14, 15), time |-> At(15, 21)]

DecodeLockOperation ==
  [code |-> At(1, 2), lockId |-> At(2, 6), gate |-> At(6, 7), bill |-> At(7, 15),
   lineCode |-> At(15, 17), key |-> At(17, 23), validTime |-> At(23, 24),
   spare |-> At(24, 28), time |-> At(28, 34)]

DecodeLockUploadReply ==
  [code |-> At(1, 2), lockId |-> At(2, 6), time |-> At(6, 12)]

\* decodeBusinessData: data of another length than its operation's is not read.
Unread == << >>
DecodeBusinessData(op, data) ==
  IF data \notin ToSet(KNOWN_DATA_LENGTHS(op)) THEN Unread
  ELSE CASE op = "operation_reply"   -> DecodeOperationReply(data)
         [] op = "lock_upload"       -> DecodeLockUpload
         [] op = "lock_operation"    -> DecodeLockOperation
         [] op = "lock_upload_reply" -> DecodeLockUploadReply

\* Base stations after the 28 bytes of a position.
LbsVariant(n) ==
  CASE n = 7 -> "7B" [] n = 10 -> "10B" [] n <= 0 -> "none" [] OTHER -> "unknown"

DecodeBusinessFrame(f) ==
  IF Candidates(f) = {} THEN [ok |-> FALSE]
  ELSE LET c == Chosen(f)
           payload == DecodeBusinessData(f.op, c.idx - 2)
           modes == {m \in LEN_MODES :
                       LenValue(m, c.idx - 2, f.data + f.extra + 4) = f.len}
       IN  [ok |-> TRUE, data |-> c.idx - 2, payload |-> payload, modes |-> modes,
            gps |-> c.extra >= 28, lbs |-> LbsVariant(c.extra - 28),
            warned |-> Warned(f.op, c) \/ modes = {} \/ payload = Unread]

-----------------------------------------------------------------------------
\* encodeBusinessFrame: any of the candidate places may hold 0x23 as well.
FramesOf(op, data, extra) ==
  {[op |-> op, data |-> data, extra |-> extra, tails |-> {2 + data} \cup T,
    len |-> LenValue(m, data, data + extra + 4)] :
     m \in LEN_MODES, T \in SUBSET Places(op, 3 + data + extra)}

=============================================================================
