--------------------------- MODULE MessageBodies ---------------------------
(***************************************************************************)
(* Bodies that are lists or that hold another layer: the terminal          *)
(* parameters of 0x8103 and 0x0104, and the choice of the decoder,         *)
(* server/src/protocol/messages.js.  A parameter is                        *)
(*                                                                         *)
(*     id(4) | length(1) | value                                           *)
(***************************************************************************)
EXTENDS LocationReport, BusinessFrame

EncodeSetParams(items) == <<Len(items) % 256>> \o Encoded(items)

\* The body of 0x0104: the serial of the query, then the list of 0x8103.
EncodeQueryParamsResponse(serial, items) ==
  <<serial \div 256, serial % 256>> \o EncodeSetParams(items)

Malformed == [ok |-> FALSE]

\* A list that does not have the declared number of parameters is an error.
DecodeParamList(buf, count) ==
  LET w == Walk(buf, 5)
  IN  [ok |-> TRUE, whole |-> w.whole, error |-> w.error \/ count # Len(w.whole)]

DecodeSetParams(body) ==
  IF body = << >> THEN Malformed
  ELSE DecodeParamList(SubSeq(body, 2, Len(body)), body[1])

DecodeQueryParamsResponse(body) ==
  IF Len(body) < 3 THEN Malformed
  ELSE DecodeParamList(SubSeq(body, 4, Len(body)), body[3])

\* decodeLocationReport.  A body of fewer than 28 bytes is refused.
DecodeLocationReport(body, tz) ==
  IF body.length < 28 THEN Malformed
  ELSE LET items == DecodeAdditionalItems(SubSeq(body.additional, 1, body.length - 28))
       IN  [ok |-> TRUE, basic |-> DecodeLocationBasic(body.basic, tz),
            whole |-> items.whole, error |-> items.error, extras |-> items.extras]

\* decodeBody.
DecodeBody(msg) ==
  CASE msg.id = "LOCATION_REPORT"       -> DecodeLocationReport(msg.body, msg.tz)
    [] msg.id = "SET_PARAMS"            -> DecodeSetParams(msg.body)
    [] msg.id = "QUERY_PARAMS_RESPONSE" -> DecodeQueryParamsResponse(msg.body)
    [] msg.id = "PASSTHROUGH"           -> DecodeBusinessFrame(msg.body)

=============================================================================
