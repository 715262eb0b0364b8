---------------------------- MODULE EventSchemas ----------------------------
(***************************************************************************)
(* The schemas of the integration events, and the helper that publishes    *)
(* those a user gets an e-mail about.                                      *)
(*                                                                         *)
(* A payload is the function from the fields it has to whether the value   *)
(* of the field fits its schema; the values themselves are left out.       *)
(***************************************************************************)
EXTENDS Topology, Outcomes

EventExchange == <<"zipframes", "events">>
VideoProcessed == <<"video", "processed">>
VideoFailed == <<"video", "failed">>

\* The schemas by the literal that each has for eventType.
Users == {<<"user", "registered">>, <<"user", "updated">>}
EventTypes == Users \cup {<<"user", "deleted">>, <<"video", "uploaded">>,
                          <<"video", "processing", "started">>, VideoProcessed, VideoFailed}

Required(type) ==
    CASE type \in Users -> {"userId", "name", "email"}
      [] type = <<"user", "deleted">> -> {"userId"}
      [] type = <<"video", "uploaded">> ->
            {"videoId", "ownerId", "sourceKey", "originalFileName", "sizeBytes"}
      [] type = <<"video", "processing", "started">> -> {"videoId", "attempt"}
      [] type = VideoProcessed -> {"videoId", "resultKey", "frameCount", "durationMs"}
      [] type = VideoFailed -> {"videoId", "ownerId", "errorCode", "reason", "attempts"}

Optional(type) ==
    CASE type = VideoProcessed -> {"ownerId", "originalFileName"}
      [] type = VideoFailed -> {"originalFileName", "uploadedAt"}
      [] OTHER -> {}

\* z.object: the required fields are there, those that are there fit, and
\* fields it does not know are dropped.
PayloadFits(type, payload) ==
    /\ Required(type) \subseteq DOMAIN payload
    /\ \A f \in DOMAIN payload \cap (Required(type) \cup Optional(type)) : payload[f]

Known(type, payload) ==
    [f \in DOMAIN payload \cap (Required(type) \cup Optional(type)) |-> payload[f]]

\* parseSchema with the schema of an event.
ParseEvent(type, event) ==
    IF /\ event.eventType = type /\ event.version = 1
       /\ event.correlationIdFits
       /\ PayloadFits(type, event.payload)
    THEN Ok([event EXCEPT !.payload = Known(type, @)])
    ELSE Err("SCHEMA_VALIDATION_FAILED")
-----------------------------------------------------------------------------
\* createNotifierEmailHelper: what its two functions hand to the publisher.
\* eventId and occurredAt are fresh and always fit.

PublishVideoOutcome(type, input) ==
    [message |-> [eventType |-> type, version |-> 1,
                  correlationIdFits |-> input.correlationIdFits, payload |-> input.payload],
     exchange |-> EventExchange, routingKey |-> type]
=============================================================================
