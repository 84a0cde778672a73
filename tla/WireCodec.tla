----------------------------- MODULE WireCodec -----------------------------
(***************************************************************************)
(* The messages of the terminal stream and their encoding: the code that   *)
(* the contract montlok.v2 gives the browser (encode, decode, fromPartial, *)
(* toJSON and fromJSON of every message).                                  *)
(*                                                                         *)
(* Every message of the code is one list of fields below; what is done     *)
(* with the fields is the same code in every message and is written once.  *)
(*                                                                         *)
(* A value of a field is a sequence: of one element where the field has    *)
(* one, of none where a message or a case is undefined.  Scalars are the   *)
(* samples the code tells apart: the default ("zero"), another value       *)
(* ("one") and an integer beyond 64 bits ("over"); a value of an enum is   *)
(* its name, or "new" for a number that this build has no name for.        *)
(***************************************************************************)
EXTENDS Naturals, FiniteSets, Sequences, SequencesExt, Functions

CONSTANTS MessageTypes,  \* the messages a run sends
          MaxFilled,     \* fields set in one message (bound)
          MaxUnknown     \* fields of a newer contract put into one message (bound)

-----------------------------------------------------------------------------
(* The names of the enums, numbered from 0 on.                             *)

EventTypeNames ==
    <<"EVENT_TYPE_UNSPECIFIED", "RUN_STATE_CHANGED", "MARKET_QUOTE", "ORDER_BOOK_UPDATED",
      "MODEL_INFERENCE_COMPLETED", "SIGNAL_GENERATED", "TARGET_POSITION_CHANGED",
      "RISK_DECISION", "ORDER_SUBMITTED", "ORDER_ACCEPTED", "ORDER_REJECTED",
      "ORDER_CANCEL_REQUESTED", "ORDER_CANCELED", "ROUTE_UPDATED", "FILL_RECEIVED",
      "POSITION_UPDATED", "PNL_UPDATED", "ALERT_RAISED", "ALERT_CLEARED",
      "OPERATION_RECEIPT_UPDATED">>

RunStateNames ==
    <<"RUN_STATE_UNSPECIFIED", "RUN_PREPARING", "RUN_RUNNING", "RUN_PAUSED",
      "RUN_REDUCING", "RUN_STOPPING", "RUN_STOPPED", "RUN_FAILED">>

SideNames ==
    <<"SIDE_UNSPECIFIED", "BUY", "SELL">>

OrderStateNames ==
    <<"ORDER_STATE_UNSPECIFIED", "ORDER_PENDING_SUBMIT", "ORDER_ACCEPTED_BY_VENUE",
      "ORDER_PARTIALLY_FILLED", "ORDER_FILLED", "ORDER_PENDING_CANCEL",
      "ORDER_CANCELED_BY_VENUE", "ORDER_REJECTED_BY_VENUE", "ORDER_EXPIRED">>

RiskOutcomeNames ==
    <<"RISK_OUTCOME_UNSPECIFIED", "RISK_ACCEPTED", "RISK_CLIPPED", "RISK_REJECTED">>

Enums ==
    [EventType |-> EventTypeNames, RunState |-> RunStateNames, Side |-> SideNames,
     OrderState |-> OrderStateNames, RiskOutcome |-> RiskOutcomeNames]

-----------------------------------------------------------------------------
(* The fields of each message, in the order they are encoded.              *)

\* Fields of one kind: single, repeated, maps by key, and the cases of a oneof.
OfRule(rule, field, names) == [i \in DOMAIN names |-> [name |-> names[i], kind |-> field, rule |-> rule]]
Ones(field, names)  == OfRule("one", field, names)
Lists(field, names) == OfRule("many", field, names)
Maps(field, names)  == OfRule("map", field, names)
Cases(fields, names) == [i \in DOMAIN names |-> [name |-> names[i], kind |-> fields[i], rule |-> "case"]]

\* The fields of a list numbered from n on, as tags are read (tag >>> 3).
Numbered(n, list) == [i \in DOMAIN list |-> [no |-> n + i - 1] @@ list[i]]

DecimalValueFields ==
    Numbered(1, Ones("string", <<"value">>))

TerminalContextFields ==
    Numbered(1,
           Ones("string", <<"accountId", "strategyGroupId", "runId", "instrumentId",
            "modelReleaseId", "signalVersion">>)
        \o Ones("int64", <<"timeFromNs", "timeToNs">>))

RunStateChangedFields ==
    Numbered(1,
           Ones("RunState", <<"previous", "current">>)
        \o Ones("string", <<"reason", "nodeId">>))

MarketQuoteFields ==
    Numbered(1,
           Ones("DecimalValue", <<"bidPrice", "bidSize", "askPrice", "askSize", "lastPrice">>)
        \o Ones("int64", <<"venueTimeNs">>))

BookLevelFields ==
    Numbered(1,
           Ones("DecimalValue", <<"price", "size">>)
        \o Ones("uint32", <<"count">>))

OrderBookUpdatedFields ==
    Numbered(1,
           Lists("BookLevel", <<"bids", "asks">>)
        \o Ones("uint64", <<"venueSequence">>)
        \o Ones("int64", <<"venueTimeNs">>))

ModelInferenceCompletedFields ==
    Numbered(1,
           Ones("string", <<"modelInferenceId", "modelReleaseId", "modelHash",
            "featureVersion">>)
        \o Ones("DecimalValue", <<"prediction">>)
        \o Ones("uint64", <<"latencyNs">>)
        \o Ones("int64", <<"inputAsOfNs">>))

SignalGeneratedFields ==
    Numbered(1,
           Ones("string", <<"signalId", "modelInferenceId", "signalVersion">>)
        \o Ones("DecimalValue", <<"value", "confidence">>))

TargetPositionChangedFields ==
    Numbered(1,
           Ones("string", <<"decisionId", "signalId">>)
        \o Ones("DecimalValue", <<"targetQuantity", "targetWeight", "previousQuantity">>))

RiskDecisionFields ==
    Numbered(1,
           Ones("string", <<"riskDecisionId", "decisionId">>)
        \o Ones("RiskOutcome", <<"outcome">>)
        \o Ones("string", <<"ruleId", "message">>)
        \o Ones("DecimalValue", <<"requestedQuantity", "approvedQuantity">>))

OrderEventFields ==
    Numbered(1,
           Ones("string", <<"operationId", "riskDecisionId", "clientOrderId", "venueOrderId">>)
        \o Ones("Side", <<"side">>)
        \o Ones("string", <<"orderType">>)
        \o Ones("DecimalValue", <<"quantity", "price">>)
        \o Ones("OrderState", <<"state">>)
        \o Ones("string", <<"rejectCode", "rejectReason">>))

RouteUpdatedFields ==
    Numbered(1,
           Ones("string", <<"routeId", "clientOrderId", "venueOrderId", "venue">>)
        \o Ones("OrderState", <<"state">>)
        \o Ones("uint64", <<"venueSequence">>))

FillReceivedFields ==
    Numbered(1,
           Ones("string", <<"tradeId", "routeId", "venueOrderId">>)
        \o Ones("Side", <<"side">>)
        \o Ones("DecimalValue", <<"quantity", "price", "fee">>)
        \o Ones("string", <<"feeCurrency", "liquidity">>)
        \o Ones("int64", <<"venueTimeNs">>))

PositionUpdatedFields ==
    Numbered(1,
           Ones("string", <<"positionEventId", "tradeId">>)
        \o Ones("DecimalValue", <<"quantity", "averagePrice", "marketValue", "targetQuantity",
            "targetWeight", "actualWeight">>))

PnlUpdatedFields ==
    Numbered(1,
           Ones("string", <<"pnlEventId", "positionEventId">>)
        \o Ones("DecimalValue", <<"nav", "realizedPnl", "unrealizedPnl", "fees",
            "drawdownPercent">>)
        \o Ones("int64", <<"valuationAtNs">>)
        \o Ones("string", <<"marketSource", "accountingBasis", "calculationVersion">>)
        \o Ones("uint64", <<"sourceEventSeq">>))

AlertChangedFields ==
    Numbered(1,
           Ones("string", <<"alertId", "severity", "code", "summary", "detail">>)
        \o Ones("bool", <<"active">>))

OperationReceiptUpdatedFields ==
    Numbered(1,
           Ones("string", <<"operationId", "status", "action", "reason">>)
        \o Ones("int64", <<"expiresAtNs">>))

EventEnvelopeFields ==
    Numbered(1,
           Ones("uint32", <<"schemaVersion">>)
        \o Ones("string", <<"stream">>)
        \o Ones("uint64", <<"streamSeq", "snapshotSeq">>)
        \o Ones("string", <<"eventId">>)
        \o Ones("EventType", <<"eventType">>)
        \o Ones("int64", <<"occurredAtNs", "receivedAtNs">>)
        \o Ones("string", <<"accountId", "strategyGroupId", "runId", "instrumentId",
            "correlationId", "causationId", "source">>)
        \o Ones("bytes", <<"sourcePayloadJson">>))
    \o Numbered(30,
        Cases(<<"RunStateChanged", "MarketQuote", "OrderBookUpdated",
            "ModelInferenceCompleted", "SignalGenerated", "TargetPositionChanged",
            "RiskDecision", "OrderEvent", "RouteUpdated", "FillReceived", "PositionUpdated",
            "PnlUpdated", "AlertChanged", "OperationReceiptUpdated">>, <<"runStateChanged",
            "marketQuote", "orderBookUpdated", "modelInferenceCompleted", "signalGenerated",
            "targetPositionChanged", "riskDecision", "orderEvent", "routeUpdated",
            "fillReceived", "positionUpdated", "pnlUpdated", "alertChanged",
            "operationReceiptUpdated">>))

ResumePositionFields ==
    Numbered(1,
           Ones("string", <<"stream">>)
        \o Ones("uint64", <<"lastStreamSeq">>))

ClientHelloFields ==
    Numbered(1,
           Ones("uint32", <<"protocolVersion">>)
        \o Ones("string", <<"deviceId">>)
        \o Lists("ResumePosition", <<"resumePositions">>))

SubscribeFields ==
    Numbered(1,
           Ones("string", <<"requestId">>)
        \o Lists("string", <<"topics">>)
        \o Ones("TerminalContext", <<"context">>)
        \o Lists("string", <<"fields">>)
        \o Ones("uint32", <<"conflateMs">>))

UnsubscribeFields ==
    Numbered(1, Ones("string", <<"subscriptionId">>))

RequestSnapshotFields ==
    Numbered(1, Ones("string", <<"subscriptionId">>))

ClientMessageFields ==
    Numbered(1,
        Cases(<<"ClientHello", "Subscribe", "Unsubscribe", "RequestSnapshot">>, <<"hello",
            "subscribe", "unsubscribe", "requestSnapshot">>))

SnapshotBeginFields ==
    Numbered(1,
           Ones("string", <<"subscriptionId">>)
        \o Ones("uint64", <<"snapshotSeq">>)
        \o Ones("bytes", <<"arrowSchema">>)
        \o Lists("ResumePosition", <<"watermarks">>))

SnapshotBatchFields ==
    Numbered(1,
           Ones("string", <<"subscriptionId">>)
        \o Ones("bytes", <<"arrowIpc">>)
        \o Ones("uint32", <<"rowCount">>))

SnapshotEndFields ==
    Numbered(1,
           Ones("string", <<"subscriptionId">>)
        \o Ones("uint64", <<"snapshotSeq", "lastStreamSeq">>)
        \o Lists("ResumePosition", <<"watermarks">>))

HeartbeatFields ==
    Numbered(1,
           Ones("int64", <<"serverTimeNs">>)
        \o Maps("Heartbeat_LastStreamSeqEntry", <<"lastStreamSeq">>))

Heartbeat_LastStreamSeqEntryFields ==
    Numbered(1,
           Ones("string", <<"key">>)
        \o Ones("uint64", <<"value">>))

SequenceGapFields ==
    Numbered(1,
           Ones("string", <<"stream">>)
        \o Ones("uint64", <<"expected", "received">>)
        \o Ones("bool", <<"replayAvailable">>))

StreamErrorFields ==
    Numbered(1,
           Ones("string", <<"code">>)
        \o Ones("bool", <<"retryable">>)
        \o Ones("string", <<"detail">>))

ServerMessageFields ==
    Numbered(1,
        Cases(<<"SnapshotBegin", "SnapshotBatch", "SnapshotEnd", "EventEnvelope",
            "Heartbeat", "SequenceGap", "StreamError">>, <<"snapshotBegin", "snapshotBatch",
            "snapshotEnd", "event", "heartbeat", "sequenceGap", "error">>))

\* The messages by name.
Fields ==
    [DecimalValue |-> DecimalValueFields, TerminalContext |-> TerminalContextFields,
     RunStateChanged |-> RunStateChangedFields, MarketQuote |-> MarketQuoteFields,
     BookLevel |-> BookLevelFields, OrderBookUpdated |-> OrderBookUpdatedFields,
     ModelInferenceCompleted |-> ModelInferenceCompletedFields,
     SignalGenerated |-> SignalGeneratedFields,
     TargetPositionChanged |-> TargetPositionChangedFields,
     RiskDecision |-> RiskDecisionFields, OrderEvent |-> OrderEventFields,
     RouteUpdated |-> RouteUpdatedFields, FillReceived |-> FillReceivedFields,
     PositionUpdated |-> PositionUpdatedFields, PnlUpdated |-> PnlUpdatedFields,
     AlertChanged |-> AlertChangedFields,
     OperationReceiptUpdated |-> OperationReceiptUpdatedFields,
     EventEnvelope |-> EventEnvelopeFields, ResumePosition |-> ResumePositionFields,
     ClientHello |-> ClientHelloFields, Subscribe |-> SubscribeFields,
     Unsubscribe |-> UnsubscribeFields, RequestSnapshot |-> RequestSnapshotFields,
     ClientMessage |-> ClientMessageFields, SnapshotBegin |-> SnapshotBeginFields,
     SnapshotBatch |-> SnapshotBatchFields, SnapshotEnd |-> SnapshotEndFields,
     Heartbeat |-> HeartbeatFields,
     Heartbeat_LastStreamSeqEntry |-> Heartbeat_LastStreamSeqEntryFields,
     SequenceGap |-> SequenceGapFields, StreamError |-> StreamErrorFields,
     ServerMessage |-> ServerMessageFields]

-----------------------------------------------------------------------------
(* Scalars.                                                                *)

Wide == {"int64", "uint64"}

IsEnum(field) == field \in DOMAIN Enums
IsMessage(field) == field \in DOMAIN Fields
FieldsOf(t) == {Fields[t][i] : i \in DOMAIN Fields[t]}
NamesOf(t) == {f.name : f \in FieldsOf(t)}

\* The wire type of a kind: three bits of the tag.
WireType(field) == IF field \in Wide \cup {"uint32", "bool"} \/ IsEnum(field) THEN "varint" ELSE "len"

\* The default of a scalar, and another value.
Zero(field) == IF IsEnum(field) THEN Enums[field][1] ELSE "zero"
One(field) == IF IsEnum(field) THEN Enums[field][2] ELSE "one"

\* createBase: the message before anything is set or read.
BaseOf(f) == IF f.rule = "one" /\ ~IsMessage(f.kind) THEN <<Zero(f.kind)>> ELSE <<>>
CreateBase(t) == [n \in NamesOf(t) |-> BaseOf(CHOOSE f \in FieldsOf(t) : f.name = n)]

\* Setting one case of a oneof leaves no other: there is one property for all of them.
SetField(t, m, f, v) ==
    IF f.rule = "case"
    THEN [n \in DOMAIN m |-> IF n = f.name THEN v
                             ELSE IF \E g \in FieldsOf(t) : g.name = n /\ g.rule = "case" THEN <<>> ELSE m[n]]
    ELSE [m EXCEPT ![f.name] = v]

RECURSIVE FromPartial(_, _), Throws(_, _), Encode(_, _), Decode(_, _), ToJSON(_, _), FromJSON(_, _)

\* fromPartial: what is not given has its default, in nested messages as well.
FromPartial(t, p) ==
    [n \in NamesOf(t) |-> LET f == CHOOSE g \in FieldsOf(t) : g.name = n
                          IN IF n \notin DOMAIN p THEN BaseOf(f)
                             ELSE IF IsMessage(f.kind) THEN [k \in DOMAIN p[n] |-> FromPartial(f.kind, p[n][k])]
                             ELSE p[n]]

-----------------------------------------------------------------------------
(* Encoding: a sequence of items, each a tag (number and wire type) and    *)
(* its content.                                                            *)

\* Seeded fault: defaults are left out of lists as well.
Omitted_InLists(f, v) == ~IsMessage(f.kind) /\ v = Zero(f.kind)

\* A default of a single scalar is not written; every element of a list is.
Omitted(f, v) == f.rule = "one" /\ ~IsMessage(f.kind) /\ v = Zero(f.kind)

\* encode throws on an integer that does not fit 64 bits, in a nested message as well.
Throws(t, m) ==
    \E f \in FieldsOf(t) : \E k \in DOMAIN m[f.name] :
        \/ f.kind \in Wide /\ m[f.name][k] = "over"
        \/ IsMessage(f.kind) /\ Throws(f.kind, m[f.name][k])

\* An enum is written as its number, and a varint holds the 64 low bits.
Content(field, v) ==
    CASE IsEnum(field) -> IF v = "new" THEN Len(Enums[field]) ELSE IndexFirstSubSeq(<<v>>, Enums[field]) - 1
      [] v = "over" -> "one"
      [] OTHER -> v

EncodeItem(f, v) ==
    [no |-> f.no, wire |-> WireType(f.kind),
     content |-> IF IsMessage(f.kind) THEN Encode(f.kind, v) ELSE Content(f.kind, v)]

EncodeField(f, values) ==
    LET written == SelectSeq(values, LAMBDA v : ~Omitted(f, v))
    IN [k \in DOMAIN written |-> EncodeItem(f, written[k])]

Encode(t, m) == FlattenSeq([i \in DOMAIN Fields[t] |-> EncodeField(Fields[t][i], m[Fields[t][i].name])])

-----------------------------------------------------------------------------
(* Decoding: item by item; one whose tag is not a field's is skipped.      *)

\* What an item adds: the last one counts, lists grow, a map keeps the last entry of a key.
ReadField(t, m, f, v) ==
    CASE f.rule = "many" -> SetField(t, m, f, Append(m[f.name], v))
      [] f.rule = "map" -> SetField(t, m, f, Append(SelectSeq(m[f.name], LAMBDA e : e.key # v.key), v))
      [] OTHER -> SetField(t, m, f, <<v>>)

\* The fields an item can be: the number and the wire type are compared.
Fits(t, item) == {f \in FieldsOf(t) : f.no = item.no /\ WireType(f.kind) = item.wire}

\* The number of an enum is kept as it is, with a name or without.
ReadContent(field, c) ==
    CASE IsMessage(field) -> Decode(field, c)
      [] IsEnum(field) -> IF c < Len(Enums[field]) THEN Enums[field][c + 1] ELSE "new"
      [] OTHER -> c

ReadItem(t, m, item) ==
    LET fields == Fits(t, item)
        f == CHOOSE g \in fields : TRUE
    IN IF fields = {} THEN m ELSE ReadField(t, m, f, ReadContent(f.kind, item.content))

Decode(t, items) == FoldLeft(LAMBDA m, item : ReadItem(t, m, item), CreateBase(t), items)

-----------------------------------------------------------------------------
(* JSON, as the event inspector shows it (an event has no maps).           *)

\* A scalar: integers of 64 bits as text, bytes as base64, an enum by its name.
ScalarToJSON(field, v) ==
    CASE field \in Wide -> [as |-> "decimal", of |-> v]
      [] field = "bytes" -> [as |-> "base64", of |-> v]
      [] IsEnum(field) -> [as |-> "name", of |-> IF v = "new" THEN "UNRECOGNIZED" ELSE v]
      [] OTHER -> [as |-> "plain", of |-> v]

ScalarFromJSON(json) == json.of

\* Seeded fault: a message without content is left out as an undefined one is.
Present_Filled(f, v) == v # BaseOf(f) /\ ~(IsMessage(f.kind) /\ v = <<CreateBase(f.kind)>>)

\* What is a member of the object: what is not a default.
Present(f, v) == v # BaseOf(f)

ToJSON(t, m) ==
    [n \in {f.name : f \in {g \in FieldsOf(t) : Present(g, m[g.name])}} |->
        LET f == CHOOSE g \in FieldsOf(t) : g.name = n
        IN [k \in DOMAIN m[n] |-> IF IsMessage(f.kind) THEN ToJSON(f.kind, m[n][k]) ELSE ScalarToJSON(f.kind, m[n][k])]]

FromJSON(t, json) ==
    [n \in NamesOf(t) |->
        LET f == CHOOSE g \in FieldsOf(t) : g.name = n
        IN IF n \notin DOMAIN json THEN BaseOf(f)
           ELSE [k \in DOMAIN json[n] |-> IF IsMessage(f.kind) THEN FromJSON(f.kind, json[n][k])
                                          ELSE ScalarFromJSON(json[n][k])]]

-----------------------------------------------------------------------------
(* A message is composed, encoded, extended by a writer that knows more    *)
(* fields, read by the terminal and shown by the inspector.                *)

VARIABLES letter,     \* what is written: its type and the fields that are given
          wire,       \* its encoding, once it is sent
          heard,      \* what the reader made of it
          inspected,  \* the JSON of it
          added       \* fields a newer writer put in

codecVars == <<letter, wire, heard, inspected, added>>

RECURSIVE Whole(_)

\* A message with every field set (and one case), the lists with a default in front.
WholeOf(f) ==
    IF ~IsMessage(f.kind) THEN IF f.rule = "many" THEN <<Zero(f.kind), One(f.kind)>> ELSE <<One(f.kind)>>
    ELSE IF f.rule \in {"many", "map"} THEN <<CreateBase(f.kind), Whole(f.kind)>> ELSE <<Whole(f.kind)>>
Whole(t) ==
    [n \in NamesOf(t) |->
        LET f == CHOOSE g \in FieldsOf(t) : g.name = n
        IN IF f.rule = "case" /\ \E g \in FieldsOf(t) : g.rule = "case" /\ g.no < f.no THEN <<>> ELSE WholeOf(f)]

\* What a field is set to.
Samples(f) ==
    IF IsMessage(f.kind) \/ f.rule = "many"
    THEN {WholeOf(f)} \cup (IF IsMessage(f.kind) THEN {<<CreateBase(f.kind)>>} ELSE {})
    ELSE IF IsEnum(f.kind) THEN {<<v>> : v \in Range(Enums[f.kind]) \cup {"new"}}
    ELSE {<<v>> : v \in {"zero", "one"} \cup (IF f.kind \in Wide THEN {"over"} ELSE {})}

CodecInit ==
    /\ \E t \in MessageTypes : letter = [type |-> t, given |-> <<>>]
    /\ wire = <<>> /\ heard = <<>> /\ inspected = <<>> /\ added = 0

\* The writer sets a field, in the order of the fields; a case takes the place of another.
Give ==
    /\ wire = <<>> /\ Cardinality(DOMAIN letter.given) < MaxFilled
    /\ \E f \in FieldsOf(letter.type) :
          /\ \A g \in FieldsOf(letter.type) : g.name \in DOMAIN letter.given => g.no < f.no
          /\ \E v \in Samples(f) : letter' = [letter EXCEPT !.given =
                Restrict(@, {n \in DOMAIN @ : \A g \in FieldsOf(letter.type) :
                                f.rule = "case" /\ g.rule = "case" => g.name # n}) @@ (f.name :> v)]
    /\ UNCHANGED <<wire, heard, inspected, added>>

\* The writer sets everything.
GiveAll ==
    /\ wire = <<>> /\ letter.given = <<>>
    /\ letter' = [letter EXCEPT !.given = Whole(letter.type)]
    /\ UNCHANGED <<wire, heard, inspected, added>>

\* fromPartial and encode; nothing is sent when encode throws.
Send ==
    /\ wire = <<>>
    /\ LET m == FromPartial(letter.type, letter.given)
       IN ~Throws(letter.type, m) /\ wire' = <<Encode(letter.type, m)>>
    /\ UNCHANGED <<letter, heard, inspected, added>>

\* A field of a newer contract: a number without a field, or one there is, with another wire type.
Unknown(items) ==
    {[no |-> 100, wire |-> w, content |-> "one"] : w \in {"varint", "len", "i32", "i64"}}
    \cup {[no |-> items[p].no, wire |-> "i32", content |-> "one"] : p \in DOMAIN items}

\* The writer is of a newer contract: in the message, or in a message within it.
AddUnknown ==
    /\ wire # <<>> /\ heard = <<>> /\ added < MaxUnknown
    /\ added' = added + 1
    /\ LET items == wire[1] IN
       \/ \E p \in 1..Len(items) + 1, u \in Unknown(items) : wire' = <<InsertAt(items, p, u)>>
       \/ \E p \in DOMAIN items, f \in FieldsOf(letter.type) :
             /\ f.no = items[p].no /\ IsMessage(f.kind)
             /\ \E u \in Unknown(items[p].content) : wire' = <<[items EXCEPT ![p].content = <<u>> \o @]>>
    /\ UNCHANGED <<letter, heard, inspected>>

\* socket.onmessage and the snapshot batches of the store: decode.
Receive ==
    /\ wire # <<>> /\ heard = <<>>
    /\ heard' = <<Decode(letter.type, wire[1])>>
    /\ UNCHANGED <<letter, wire, inspected, added>>

\* The raw view of an event.
Inspect ==
    /\ heard # <<>> /\ letter.type = "EventEnvelope" /\ inspected = <<>>
    /\ inspected' = <<ToJSON(letter.type, heard[1])>>
    /\ UNCHANGED <<letter, wire, heard, added>>

CodecNext == Give \/ GiveAll \/ Send \/ AddUnknown \/ Receive \/ Inspect

-----------------------------------------------------------------------------
CodecTypeOK ==
    /\ letter.type \in MessageTypes /\ DOMAIN letter.given \subseteq NamesOf(letter.type)
    /\ \A m \in Range(heard) : DOMAIN m = NamesOf(letter.type)
    /\ added \in 0..MaxUnknown

\* The reader has what the writer set and defaults elsewhere, in nested messages,
\* lists, maps and cases too, whatever fields of a newer contract are among them: of
\* encode, decode and fromPartial together.
HeardIsSent ==
    heard # <<>> => \A f \in FieldsOf(letter.type) :
        heard[1][f.name] = IF f.name \in DOMAIN letter.given THEN letter.given[f.name] ELSE BaseOf(f)

RECURSIVE Named(_, _)

\* A message whose enums have names in this build.
Named(t, m) ==
    \A f \in FieldsOf(t) : \A k \in DOMAIN m[f.name] :
        IF IsMessage(f.kind) THEN Named(f.kind, m[f.name][k]) ELSE m[f.name][k] # "new"

\* The raw view of an event hides nothing but names this build does not know: reading
\* the JSON back gives the event.
InspectedIsHeard ==
    inspected # <<>> /\ Named(letter.type, heard[1]) => FromJSON(letter.type, inspected[1]) = heard[1]

\* A message survives both encodings, the binary one and the raw view.
MessagesSurvive == HeardIsSent /\ InspectedIsHeard
=============================================================================
