---------------------------- MODULE CommonMessages ----------------------------
(***************************************************************************)
(* The message classes of common.proto, as common.pb.h and common.pb.cc    *)
(* define them: what an object of the class holds in memory, read from its *)
(* accessors, and how it is written, read from _InternalParse,             *)
(* _InternalSerialize and ByteSizeLong.  Tables only; ProtoCodec.tla says  *)
(* what the methods make of them.                                          *)
(***************************************************************************)
EXTENDS Naturals, Sequences

\* What a member is.  Object is an element of a repeated member or of a map,
\* which is always there; Pointer may be null; Choice is a oneof.
Text == [cell |-> "text"]
Number == [cell |-> "number", sort |-> "signed"]       \* int32, int64 or an enumeration
Unsigned == [cell |-> "number", sort |-> "unsigned"]
Flag == [cell |-> "number", sort |-> "flag"]
Object(class) == [cell |-> "object", of |-> class]
Pointer(class) == [cell |-> "pointer", of |-> class]
Repeated(element) == [cell |-> "repeated", of |-> element]
MapTo(key, element) == [cell |-> "map", key |-> key, of |-> element]
Choice(cells) == [cell |-> "choice", of |-> cells]

ConnectionID == [session_alias |-> Text]
MessageID == [connection_id |-> Pointer("ConnectionID"), direction |-> Number,
              sequence |-> Number, subsequence |-> Repeated(Unsigned)]
MessageMetadata == [id |-> Pointer("MessageID"), timestamp |-> Pointer("Timestamp"),
                    message_type |-> Text, properties |-> MapTo(Text, Text), protocol |-> Text]
RawMessageMetadata == [id |-> Pointer("MessageID"), timestamp |-> Pointer("Timestamp"),
                       properties |-> MapTo(Text, Text), protocol |-> Text]
Value == [kind |-> Choice([null_value |-> Number, simple_value |-> Text,
                           message_value |-> Object("Message"),
                           list_value |-> Object("ListValue")])]
ListValue == [values |-> Repeated(Object("Value"))]
Message == [metadata |-> Pointer("MessageMetadata"), fields |-> MapTo(Text, Object("Value")),
            parent_event_id |-> Pointer("EventID")]
RawMessage == [metadata |-> Pointer("RawMessageMetadata"), body |-> Text]
AnyMessage == [kind |-> Choice([message |-> Object("Message"),
                                raw_message |-> Object("RawMessage")])]
MessageGroup == [messages |-> Repeated(Object("AnyMessage"))]
MessageBatch == [messages |-> Repeated(Object("Message"))]
RawMessageBatch == [messages |-> Repeated(Object("RawMessage"))]
MessageGroupBatch == [groups |-> Repeated(Object("MessageGroup"))]
RequestStatus == [status |-> Number, message |-> Text]
ComparisonSettings == [ignore_fields |-> Repeated(Text), fail_unexpected |-> Number]
ValueFilter == [operation |-> Number, key |-> Flag,
                kind |-> Choice([simple_filter |-> Text,
                                 message_filter |-> Object("MessageFilter"),
                                 list_filter |-> Object("ListValueFilter")])]
ListValueFilter == [values |-> Repeated(Object("ValueFilter"))]
MessageFilter == [messageType |-> Text, direction |-> Text,
                  fields |-> MapTo(Text, Object("ValueFilter")),
                  comparison_settings |-> Pointer("ComparisonSettings")]
DirectionCheckpoint == [direction_to_sequence |-> MapTo(Number, Number)]
Checkpoint == [id |-> Text,
               session_alias_to_direction_checkpoint |-> MapTo(Text, Object("DirectionCheckpoint"))]
EventID == [id |-> Text]
Event == [id |-> Pointer("EventID"), parent_id |-> Pointer("EventID"),
          start_timestamp |-> Pointer("Timestamp"), end_timestamp |-> Pointer("Timestamp"),
          status |-> Number, name |-> Text, type |-> Text, body |-> Text,
          attached_message_ids |-> Repeated(Object("MessageID"))]
EventBatch == [parent_event_id |-> Pointer("EventID"), events |-> Repeated(Object("Event"))]

\* google.protobuf.Timestamp, of the library.
Timestamp == [seconds |-> Number, nanos |-> Number]

------------------------------------------------------------------------------
\* How a member is written: its number in front, and then this.  An enumeration,
\* a bool and the integers are varints; utf8 and bytes differ only for the reader.
Varint == [coding |-> "varint"]
Utf8 == [coding |-> "utf8"]
Bytes == [coding |-> "bytes"]
Packed == [coding |-> "packed"]
Msg(class) == [coding |-> "message", of |-> class]
Entry(key, value) == [coding |-> "entry", key |-> key, value |-> value]
Field(number, member, coding) == [number |-> number, member |-> member, coding |-> coding]

ConnectionID_wire == <<Field(1, "session_alias", Utf8)>>
MessageID_wire == <<Field(1, "connection_id", Msg("ConnectionID")), Field(2, "direction", Varint),
                    Field(3, "sequence", Varint), Field(4, "subsequence", Packed)>>
MessageMetadata_PropertiesEntry == Entry(Utf8, Utf8)
MessageMetadata_wire == <<Field(1, "id", Msg("MessageID")), Field(2, "timestamp", Msg("Timestamp")),
                          Field(3, "message_type", Utf8),
                          Field(4, "properties", MessageMetadata_PropertiesEntry),
                          Field(5, "protocol", Utf8)>>
RawMessageMetadata_PropertiesEntry == Entry(Utf8, Utf8)
RawMessageMetadata_wire == <<Field(1, "id", Msg("MessageID")), Field(2, "timestamp", Msg("Timestamp")),
                             Field(3, "properties", RawMessageMetadata_PropertiesEntry),
                             Field(4, "protocol", Utf8)>>
Value_wire == <<Field(1, "null_value", Varint), Field(2, "simple_value", Utf8),
                Field(3, "message_value", Msg("Message")), Field(4, "list_value", Msg("ListValue"))>>
ListValue_wire == <<Field(1, "values", Msg("Value"))>>
Message_FieldsEntry == Entry(Utf8, Msg("Value"))
Message_wire == <<Field(1, "metadata", Msg("MessageMetadata")), Field(2, "fields", Message_FieldsEntry),
                  Field(3, "parent_event_id", Msg("EventID"))>>
RawMessage_wire == <<Field(1, "metadata", Msg("RawMessageMetadata")), Field(2, "body", Bytes)>>
AnyMessage_wire == <<Field(1, "message", Msg("Message")), Field(2, "raw_message", Msg("RawMessage"))>>
MessageGroup_wire == <<Field(1, "messages", Msg("AnyMessage"))>>
MessageBatch_wire == <<Field(1, "messages", Msg("Message"))>>
RawMessageBatch_wire == <<Field(1, "messages", Msg("RawMessage"))>>
MessageGroupBatch_wire == <<Field(1, "groups", Msg("MessageGroup"))>>
RequestStatus_wire == <<Field(1, "status", Varint), Field(2, "message", Utf8)>>
ComparisonSettings_wire == <<Field(1, "ignore_fields", Utf8), Field(2, "fail_unexpected", Varint)>>
ValueFilter_wire == <<Field(1, "operation", Varint), Field(2, "key", Varint),
                      Field(3, "simple_filter", Utf8), Field(4, "message_filter", Msg("MessageFilter")),
                      Field(5, "list_filter", Msg("ListValueFilter"))>>
ListValueFilter_wire == <<Field(1, "values", Msg("ValueFilter"))>>
MessageFilter_FieldsEntry == Entry(Utf8, Msg("ValueFilter"))
MessageFilter_wire == <<Field(1, "messageType", Utf8), Field(2, "direction", Utf8),
                        Field(3, "fields", MessageFilter_FieldsEntry),
                        Field(4, "comparison_settings", Msg("ComparisonSettings"))>>
DirectionToSequenceEntry == Entry(Varint, Varint)
DirectionCheckpoint_wire == <<Field(1, "direction_to_sequence", DirectionToSequenceEntry)>>
SessionAliasToDirectionCheckpointEntry == Entry(Utf8, Msg("DirectionCheckpoint"))
Checkpoint_wire == <<Field(1, "id", Utf8),
                     Field(2, "session_alias_to_direction_checkpoint", SessionAliasToDirectionCheckpointEntry)>>
EventID_wire == <<Field(1, "id", Utf8)>>
Event_wire == <<Field(1, "id", Msg("EventID")), Field(2, "parent_id", Msg("EventID")),
                Field(3, "start_timestamp", Msg("Timestamp")), Field(4, "end_timestamp", Msg("Timestamp")),
                Field(5, "status", Varint), Field(6, "name", Utf8), Field(7, "type", Utf8),
                Field(8, "body", Bytes), Field(9, "attached_message_ids", Msg("MessageID"))>>
EventBatch_wire == <<Field(1, "parent_event_id", Msg("EventID")), Field(2, "events", Msg("Event"))>>
Timestamp_wire == <<Field(1, "seconds", Varint), Field(2, "nanos", Varint)>>

------------------------------------------------------------------------------
\* The tables by the name of the class.
Cells == [ConnectionID |-> ConnectionID, MessageID |-> MessageID,
  MessageMetadata |-> MessageMetadata, RawMessageMetadata |-> RawMessageMetadata,
  Value |-> Value, ListValue |-> ListValue, Message |-> Message, RawMessage |-> RawMessage,
  AnyMessage |-> AnyMessage, MessageGroup |-> MessageGroup, MessageBatch |-> MessageBatch,
  RawMessageBatch |-> RawMessageBatch, MessageGroupBatch |-> MessageGroupBatch,
  RequestStatus |-> RequestStatus, ComparisonSettings |-> ComparisonSettings,
  ValueFilter |-> ValueFilter, ListValueFilter |-> ListValueFilter, MessageFilter |-> MessageFilter,
  DirectionCheckpoint |-> DirectionCheckpoint, Checkpoint |-> Checkpoint,
  EventID |-> EventID, Event |-> Event, EventBatch |-> EventBatch, Timestamp |-> Timestamp]

Wire == [ConnectionID |-> ConnectionID_wire, MessageID |-> MessageID_wire,
  MessageMetadata |-> MessageMetadata_wire, RawMessageMetadata |-> RawMessageMetadata_wire,
  Value |-> Value_wire, ListValue |-> ListValue_wire, Message |-> Message_wire,
  RawMessage |-> RawMessage_wire, AnyMessage |-> AnyMessage_wire, MessageGroup |-> MessageGroup_wire,
  MessageBatch |-> MessageBatch_wire, RawMessageBatch |-> RawMessageBatch_wire,
  MessageGroupBatch |-> MessageGroupBatch_wire, RequestStatus |-> RequestStatus_wire,
  ComparisonSettings |-> ComparisonSettings_wire, ValueFilter |-> ValueFilter_wire,
  ListValueFilter |-> ListValueFilter_wire, MessageFilter |-> MessageFilter_wire,
  DirectionCheckpoint |-> DirectionCheckpoint_wire, Checkpoint |-> Checkpoint_wire,
  EventID |-> EventID_wire, Event |-> Event_wire, EventBatch |-> EventBatch_wire,
  Timestamp |-> Timestamp_wire]

Classes == DOMAIN Cells
==============================================================================
