------------------------ MODULE SenderPayloads_proofs ------------------------
(***************************************************************************)
(* The message classes, for objects that nest as deep as they like, with   *)
(* whatever texts and numbers, and what is sent of them.  The tables of    *)
(* CommonMessages.tla are read first, class by class: they are consistent; *)
(* the rest is about the methods of any classes with such tables.          *)
(***************************************************************************)
EXTENDS SenderPayloads, SequenceTheorems, FiniteSetTheorems, WellFoundedInduction, TLAPS

------------------------------------------------------------------------------
(* The tables. *)

\* How an element of each sort is written, and a member.
ElementCoding(cell, coding) ==
  \/ cell.cell = "text" /\ coding \in {Utf8, Bytes}
  \/ cell.cell = "number" /\ coding = Varint
  \/ cell.cell = "object" /\ cell.of \in Classes /\ coding = Msg(cell.of)

MemberCoding(cell, coding) ==
  \/ cell.cell \in {"text", "number"} /\ ElementCoding(cell, coding)
  \/ cell.cell = "pointer" /\ cell.of \in Classes /\ coding = Msg(cell.of)
  \/ cell.cell = "repeated" /\ cell.of.cell = "number" /\ coding = Packed
  \/ cell.cell = "repeated" /\ cell.of.cell # "number" /\ ElementCoding(cell.of, coding)
  \/ /\ cell.cell = "map" /\ coding = Entry(coding.key, coding.value)
     /\ ElementCoding(cell.key, coding.key) /\ cell.key.cell # "object"
     /\ ElementCoding(cell.of, coding.value)

FieldCoding(cells, field) ==
  IF field.member \in DOMAIN cells THEN MemberCoding(cells[field.member], field.coding)
  ELSE /\ "kind" \in DOMAIN cells /\ cells["kind"].cell = "choice"
       /\ field.member \in DOMAIN cells["kind"].of
       /\ ElementCoding(cells["kind"].of[field.member], field.coding)

\* Each member has one field; a oneof, called kind, has one for each thing it may hold.
MemberOf(cells, wire, f) ==
  IF cells[f].cell = "choice"
  THEN /\ f = "kind"
       /\ \A k \in DOMAIN cells[f].of :
            /\ k # "NOT_SET" /\ k \notin DOMAIN cells
            /\ \E i \in DOMAIN wire : wire[i].member = k
  ELSE \E i \in DOMAIN wire : wire[i].member = f

\* The members of a class and its fields, which are numbered from one on.
TableOf(cells, wire) ==
  /\ Len(wire) \in Nat /\ DOMAIN wire = 1 .. Len(wire)
  /\ "unknown_fields" \notin DOMAIN cells
  /\ \A i \in DOMAIN wire : wire[i].number = i /\ FieldCoding(cells, wire[i])
  /\ \A i, j \in DOMAIN wire : wire[i].member = wire[j].member => i = j
  /\ \A f \in DOMAIN cells : MemberOf(cells, wire, f)

LEMMA ClassNames ==
  Classes = {"ConnectionID", "MessageID", "MessageMetadata", "RawMessageMetadata", "Value",
    "ListValue", "Message", "RawMessage", "AnyMessage", "MessageGroup", "MessageBatch",
    "RawMessageBatch", "MessageGroupBatch", "RequestStatus", "ComparisonSettings",
    "ValueFilter", "ListValueFilter", "MessageFilter", "DirectionCheckpoint", "Checkpoint",
    "EventID", "Event", "EventBatch", "Timestamp"}
BY DEF Classes, Cells

\* The tables of common.proto are consistent.
LEMMA TheTables ==
  /\ TableOf(ConnectionID, ConnectionID_wire)
  /\ TableOf(MessageID, MessageID_wire)
  /\ TableOf(MessageMetadata, MessageMetadata_wire)
  /\ TableOf(RawMessageMetadata, RawMessageMetadata_wire)
  /\ TableOf(Value, Value_wire)
  /\ TableOf(ListValue, ListValue_wire)
  /\ TableOf(Message, Message_wire)
  /\ TableOf(RawMessage, RawMessage_wire)
  /\ TableOf(AnyMessage, AnyMessage_wire)
  /\ TableOf(MessageGroup, MessageGroup_wire)
  /\ TableOf(MessageBatch, MessageBatch_wire)
  /\ TableOf(RawMessageBatch, RawMessageBatch_wire)
  /\ TableOf(MessageGroupBatch, MessageGroupBatch_wire)
  /\ TableOf(RequestStatus, RequestStatus_wire)
  /\ TableOf(ComparisonSettings, ComparisonSettings_wire)
  /\ TableOf(ValueFilter, ValueFilter_wire)
  /\ TableOf(ListValueFilter, ListValueFilter_wire)
  /\ TableOf(MessageFilter, MessageFilter_wire)
  /\ TableOf(DirectionCheckpoint, DirectionCheckpoint_wire)
  /\ TableOf(Checkpoint, Checkpoint_wire)
  /\ TableOf(EventID, EventID_wire)
  /\ TableOf(Event, Event_wire)
  /\ TableOf(EventBatch, EventBatch_wire)
  /\ TableOf(Timestamp, Timestamp_wire)
<1>1. TableOf(ConnectionID, ConnectionID_wire)
  <2>1. Len(ConnectionID_wire) = 1 /\ DOMAIN ConnectionID_wire = 1 .. 1
    BY DEF ConnectionID_wire
  <2>2. /\ \A i \in DOMAIN ConnectionID_wire : ConnectionID_wire[i].number = i
        /\ \A i, j \in DOMAIN ConnectionID_wire : ConnectionID_wire[i].member = ConnectionID_wire[j].member => i = j
    BY <2>1 DEF ConnectionID_wire, Field
  <2>3. FieldCoding(ConnectionID, ConnectionID_wire[1])
    BY ClassNames DEF FieldCoding, MemberCoding, ElementCoding, ConnectionID,
       ConnectionID_wire, Field, Text, Utf8
  <2>4. "unknown_fields" \notin DOMAIN ConnectionID
    BY DEF ConnectionID
  <2>5. \A f \in DOMAIN ConnectionID : MemberOf(ConnectionID, ConnectionID_wire, f)
    BY <2>1 DEF MemberOf, ConnectionID, ConnectionID_wire, Field, Text
  <2> QED
    BY <2>1, <2>2, <2>3, <2>4, <2>5 DEF TableOf
<1>2. TableOf(MessageID, MessageID_wire)
  <2>1. Len(MessageID_wire) = 4 /\ DOMAIN MessageID_wire = 1 .. 4
    BY DEF MessageID_wire
  <2>2. /\ \A i \in DOMAIN MessageID_wire : MessageID_wire[i].number = i
        /\ \A i, j \in DOMAIN MessageID_wire : MessageID_wire[i].member = MessageID_wire[j].member => i = j
    BY <2>1 DEF MessageID_wire, Field
  <2>3. FieldCoding(MessageID, MessageID_wire[1])
    BY ClassNames DEF FieldCoding, MemberCoding, ElementCoding, MessageID, MessageID_wire,
       Field, Number, Unsigned, Pointer, Repeated, Msg
  <2>4. FieldCoding(MessageID, MessageID_wire[2])
    BY ClassNames DEF FieldCoding, MemberCoding, ElementCoding, MessageID, MessageID_wire,
       Field, Number, Unsigned, Pointer, Repeated, Varint
  <2>5. FieldCoding(MessageID, MessageID_wire[3])
    BY ClassNames DEF FieldCoding, MemberCoding, ElementCoding, MessageID, MessageID_wire,
       Field, Number, Unsigned, Pointer, Repeated, Varint
  <2>6. FieldCoding(MessageID, MessageID_wire[4])
    BY ClassNames DEF FieldCoding, MemberCoding, ElementCoding, MessageID, MessageID_wire,
       Field, Number, Unsigned, Pointer, Repeated, Packed
  <2>7. "unknown_fields" \notin DOMAIN MessageID
    BY DEF MessageID
  <2>8. \A f \in DOMAIN MessageID : MemberOf(MessageID, MessageID_wire, f)
    BY <2>1 DEF MemberOf, MessageID, MessageID_wire, Field, Number, Unsigned, Pointer,
       Repeated
  <2> QED
    BY <2>1, <2>2, <2>3, <2>4, <2>5, <2>6, <2>7, <2>8 DEF TableOf
<1>3. TableOf(MessageMetadata, MessageMetadata_wire)
  <2>1. Len(MessageMetadata_wire) = 5 /\ DOMAIN MessageMetadata_wire = 1 .. 5
    BY DEF MessageMetadata_wire
  <2>2. /\ \A i \in DOMAIN MessageMetadata_wire : MessageMetadata_wire[i].number = i
        /\ \A i, j \in DOMAIN MessageMetadata_wire : MessageMetadata_wire[i].member = MessageMetadata_wire[j].member => i = j
    BY <2>1 DEF MessageMetadata_wire, Field
  <2>3. FieldCoding(MessageMetadata, MessageMetadata_wire[1])
    BY ClassNames DEF FieldCoding, MemberCoding, ElementCoding, MessageMetadata,
       MessageMetadata_wire, Field, Text, Pointer, MapTo, Msg
  <2>4. FieldCoding(MessageMetadata, MessageMetadata_wire[2])
    BY ClassNames DEF FieldCoding, MemberCoding, ElementCoding, MessageMetadata,
       MessageMetadata_wire, Field, Text, Pointer, MapTo, Msg
  <2>5. FieldCoding(MessageMetadata, MessageMetadata_wire[3])
    BY ClassNames DEF FieldCoding, MemberCoding, ElementCoding, MessageMetadata,
       MessageMetadata_wire, Field, Text, Pointer, MapTo, Utf8
  <2>6. FieldCoding(MessageMetadata, MessageMetadata_wire[4])
    BY ClassNames DEF FieldCoding, MemberCoding, ElementCoding, MessageMetadata,
       MessageMetadata_wire, Field, Text, Pointer, MapTo, MessageMetadata_PropertiesEntry,
       Entry, Utf8
  <2>7. FieldCoding(MessageMetadata, MessageMetadata_wire[5])
    BY ClassNames DEF FieldCoding, MemberCoding, ElementCoding, MessageMetadata,
       MessageMetadata_wire, Field, Text, Pointer, MapTo, Utf8
  <2>8. "unknown_fields" \notin DOMAIN MessageMetadata
    BY DEF MessageMetadata
  <2>9. \A f \in DOMAIN MessageMetadata : MemberOf(MessageMetadata, MessageMetadata_wire, f)
    BY <2>1 DEF MemberOf, MessageMetadata, MessageMetadata_wire, Field, Text, Pointer, MapTo
  <2> QED
    BY <2>1, <2>2, <2>3, <2>4, <2>5, <2>6, <2>7, <2>8, <2>9 DEF TableOf
<1>4. TableOf(RawMessageMetadata, RawMessageMetadata_wire)
  <2>1. Len(RawMessageMetadata_wire) = 4 /\ DOMAIN RawMessageMetadata_wire = 1 .. 4
    BY DEF RawMessageMetadata_wire
  <2>2. /\ \A i \in DOMAIN RawMessageMetadata_wire : RawMessageMetadata_wire[i].number = i
        /\ \A i, j \in DOMAIN RawMessageMetadata_wire : RawMessageMetadata_wire[i].member = RawMessageMetadata_wire[j].member => i = j
    BY <2>1 DEF RawMessageMetadata_wire, Field
  <2>3. FieldCoding(RawMessageMetadata, RawMessageMetadata_wire[1])
    BY ClassNames DEF FieldCoding, MemberCoding, ElementCoding, RawMessageMetadata,
       RawMessageMetadata_wire, Field, Text, Pointer, MapTo, Msg
  <2>4. FieldCoding(RawMessageMetadata, RawMessageMetadata_wire[2])
    BY ClassNames DEF FieldCoding, MemberCoding, ElementCoding, RawMessageMetadata,
       RawMessageMetadata_wire, Field, Text, Pointer, MapTo, Msg
  <2>5. FieldCoding(RawMessageMetadata, RawMessageMetadata_wire[3])
    BY ClassNames DEF FieldCoding, MemberCoding, ElementCoding, RawMessageMetadata,
       RawMessageMetadata_wire, Field, Text, Pointer, MapTo,
       RawMessageMetadata_PropertiesEntry, Entry, Utf8
  <2>6. FieldCoding(RawMessageMetadata, RawMessageMetadata_wire[4])
    BY ClassNames DEF FieldCoding, MemberCoding, ElementCoding, RawMessageMetadata,
       RawMessageMetadata_wire, Field, Text, Pointer, MapTo, Utf8
  <2>7. "unknown_fields" \notin DOMAIN RawMessageMetadata
    BY DEF RawMessageMetadata
  <2>8. \A f \in DOMAIN RawMessageMetadata : MemberOf(RawMessageMetadata, RawMessageMetadata_wire, f)
    BY <2>1 DEF MemberOf, RawMessageMetadata, RawMessageMetadata_wire, Field, Text, Pointer,
       MapTo
  <2> QED
    BY <2>1, <2>2, <2>3, <2>4, <2>5, <2>6, <2>7, <2>8 DEF TableOf
<1>5. TableOf(Value, Value_wire)
  <2>1. Len(Value_wire) = 4 /\ DOMAIN Value_wire = 1 .. 4
    BY DEF Value_wire
  <2>2. /\ \A i \in DOMAIN Value_wire : Value_wire[i].number = i
        /\ \A i, j \in DOMAIN Value_wire : Value_wire[i].member = Value_wire[j].member => i = j
    BY <2>1 DEF Value_wire, Field
  <2>3. FieldCoding(Value, Value_wire[1])
    BY ClassNames DEF FieldCoding, MemberCoding, ElementCoding, Value, Value_wire, Field, Text,
       Number, Object, Choice, Varint
  <2>4. FieldCoding(Value, Value_wire[2])
    BY ClassNames DEF FieldCoding, MemberCoding, ElementCoding, Value, Value_wire, Field, Text,
       Number, Object, Choice, Utf8
  <2>5. FieldCoding(Value, Value_wire[3])
    BY ClassNames DEF FieldCoding, MemberCoding, ElementCoding, Value, Value_wire, Field, Text,
       Number, Object, Choice, Msg
  <2>6. FieldCoding(Value, Value_wire[4])
    BY ClassNames DEF FieldCoding, MemberCoding, ElementCoding, Value, Value_wire, Field, Text,
       Number, Object, Choice, Msg
  <2>7. "unknown_fields" \notin DOMAIN Value
    BY DEF Value
  <2>8. \A f \in DOMAIN Value : MemberOf(Value, Value_wire, f)
    BY <2>1 DEF MemberOf, Value, Value_wire, Field, Text, Number, Object, Choice
  <2> QED
    BY <2>1, <2>2, <2>3, <2>4, <2>5, <2>6, <2>7, <2>8 DEF TableOf
<1>6. TableOf(ListValue, ListValue_wire)
  <2>1. Len(ListValue_wire) = 1 /\ DOMAIN ListValue_wire = 1 .. 1
    BY DEF ListValue_wire
  <2>2. /\ \A i \in DOMAIN ListValue_wire : ListValue_wire[i].number = i
        /\ \A i, j \in DOMAIN ListValue_wire : ListValue_wire[i].member = ListValue_wire[j].member => i = j
    BY <2>1 DEF ListValue_wire, Field
  <2>3. FieldCoding(ListValue, ListValue_wire[1])
    BY ClassNames DEF FieldCoding, MemberCoding, ElementCoding, ListValue, ListValue_wire,
       Field, Object, Repeated, Msg
  <2>4. "unknown_fields" \notin DOMAIN ListValue
    BY DEF ListValue
  <2>5. \A f \in DOMAIN ListValue : MemberOf(ListValue, ListValue_wire, f)
    BY <2>1 DEF MemberOf, ListValue, ListValue_wire, Field, Object, Repeated
  <2> QED
    BY <2>1, <2>2, <2>3, <2>4, <2>5 DEF TableOf
<1>7. TableOf(Message, Message_wire)
  <2>1. Len(Message_wire) = 3 /\ DOMAIN Message_wire = 1 .. 3
    BY DEF Message_wire
  <2>2. /\ \A i \in DOMAIN Message_wire : Message_wire[i].number = i
        /\ \A i, j \in DOMAIN Message_wire : Message_wire[i].member = Message_wire[j].member => i = j
    BY <2>1 DEF Message_wire, Field
  <2>3. FieldCoding(Message, Message_wire[1])
    BY ClassNames DEF FieldCoding, MemberCoding, ElementCoding, Message, Message_wire, Field,
       Text, Object, Pointer, MapTo, Msg
  <2>4. FieldCoding(Message, Message_wire[2])
    BY ClassNames DEF FieldCoding, MemberCoding, ElementCoding, Message, Message_wire, Field,
       Text, Object, Pointer, MapTo, Message_FieldsEntry, Entry, Utf8, Msg
  <2>5. FieldCoding(Message, Message_wire[3])
    BY ClassNames DEF FieldCoding, MemberCoding, ElementCoding, Message, Message_wire, Field,
       Text, Object, Pointer, MapTo, Msg
  <2>6. "unknown_fields" \notin DOMAIN Message
    BY DEF Message
  <2>7. \A f \in DOMAIN Message : MemberOf(Message, Message_wire, f)
    BY <2>1 DEF MemberOf, Message, Message_wire, Field, Text, Object, Pointer, MapTo
  <2> QED
    BY <2>1, <2>2, <2>3, <2>4, <2>5, <2>6, <2>7 DEF TableOf
<1>8. TableOf(RawMessage, RawMessage_wire)
  <2>1. Len(RawMessage_wire) = 2 /\ DOMAIN RawMessage_wire = 1 .. 2
    BY DEF RawMessage_wire
  <2>2. /\ \A i \in DOMAIN RawMessage_wire : RawMessage_wire[i].number = i
        /\ \A i, j \in DOMAIN RawMessage_wire : RawMessage_wire[i].member = RawMessage_wire[j].member => i = j
    BY <2>1 DEF RawMessage_wire, Field
  <2>3. FieldCoding(RawMessage, RawMessage_wire[1])
    BY ClassNames DEF FieldCoding, MemberCoding, ElementCoding, RawMessage, RawMessage_wire,
       Field, Text, Pointer, Msg
  <2>4. FieldCoding(RawMessage, RawMessage_wire[2])
    BY ClassNames DEF FieldCoding, MemberCoding, ElementCoding, RawMessage, RawMessage_wire,
       Field, Text, Pointer, Bytes
  <2>5. "unknown_fields" \notin DOMAIN RawMessage
    BY DEF RawMessage
  <2>6. \A f \in DOMAIN RawMessage : MemberOf(RawMessage, RawMessage_wire, f)
    BY <2>1 DEF MemberOf, RawMessage, RawMessage_wire, Field, Text, Pointer
  <2> QED
    BY <2>1, <2>2, <2>3, <2>4, <2>5, <2>6 DEF TableOf
<1>9. TableOf(AnyMessage, AnyMessage_wire)
  <2>1. Len(AnyMessage_wire) = 2 /\ DOMAIN AnyMessage_wire = 1 .. 2
    BY DEF AnyMessage_wire
  <2>2. /\ \A i \in DOMAIN AnyMessage_wire : AnyMessage_wire[i].number = i
        /\ \A i, j \in DOMAIN AnyMessage_wire : AnyMessage_wire[i].member = AnyMessage_wire[j].member => i = j
    BY <2>1 DEF AnyMessage_wire, Field
  <2>3. FieldCoding(AnyMessage, AnyMessage_wire[1])
    BY ClassNames DEF FieldCoding, MemberCoding, ElementCoding, AnyMessage, AnyMessage_wire,
       Field, Object, Choice, Msg
  <2>4. FieldCoding(AnyMessage, AnyMessage_wire[2])
    BY ClassNames DEF FieldCoding, MemberCoding, ElementCoding, AnyMessage, AnyMessage_wire,
       Field, Object, Choice, Msg
  <2>5. "unknown_fields" \notin DOMAIN AnyMessage
    BY DEF AnyMessage
  <2>6. \A f \in DOMAIN AnyMessage : MemberOf(AnyMessage, AnyMessage_wire, f)
    BY <2>1 DEF MemberOf, AnyMessage, AnyMessage_wire, Field, Object, Choice
  <2> QED
    BY <2>1, <2>2, <2>3, <2>4, <2>5, <2>6 DEF TableOf
<1>10. TableOf(MessageGroup, MessageGroup_wire)
  <2>1. Len(MessageGroup_wire) = 1 /\ DOMAIN MessageGroup_wire = 1 .. 1
    BY DEF MessageGroup_wire
  <2>2. /\ \A i \in DOMAIN MessageGroup_wire : MessageGroup_wire[i].number = i
        /\ \A i, j \in DOMAIN MessageGroup_wire : MessageGroup_wire[i].member = MessageGroup_wire[j].member => i = j
    BY <2>1 DEF MessageGroup_wire, Field
  <2>3. FieldCoding(MessageGroup, MessageGroup_wire[1])
    BY ClassNames DEF FieldCoding, MemberCoding, ElementCoding, MessageGroup,
       MessageGroup_wire, Field, Object, Repeated, Msg
  <2>4. "unknown_fields" \notin DOMAIN MessageGroup
    BY DEF MessageGroup
  <2>5. \A f \in DOMAIN MessageGroup : MemberOf(MessageGroup, MessageGroup_wire, f)
    BY <2>1 DEF MemberOf, MessageGroup, MessageGroup_wire, Field, Object, Repeated
  <2> QED
    BY <2>1, <2>2, <2>3, <2>4, <2>5 DEF TableOf
<1>11. TableOf(MessageBatch, MessageBatch_wire)
  <2>1. Len(MessageBatch_wire) = 1 /\ DOMAIN MessageBatch_wire = 1 .. 1
    BY DEF MessageBatch_wire
  <2>2. /\ \A i \in DOMAIN MessageBatch_wire : MessageBatch_wire[i].number = i
        /\ \A i, j \in DOMAIN MessageBatch_wire : MessageBatch_wire[i].member = MessageBatch_wire[j].member => i = j
    BY <2>1 DEF MessageBatch_wire, Field
  <2>3. FieldCoding(MessageBatch, MessageBatch_wire[1])
    BY ClassNames DEF FieldCoding, MemberCoding, ElementCoding, MessageBatch,
       MessageBatch_wire, Field, Object, Repeated, Msg
  <2>4. "unknown_fields" \notin DOMAIN MessageBatch
    BY DEF MessageBatch
  <2>5. \A f \in DOMAIN MessageBatch : MemberOf(MessageBatch, MessageBatch_wire, f)
    BY <2>1 DEF MemberOf, MessageBatch, MessageBatch_wire, Field, Object, Repeated
  <2> QED
    BY <2>1, <2>2, <2>3, <2>4, <2>5 DEF TableOf
<1>12. TableOf(RawMessageBatch, RawMessageBatch_wire)
  <2>1. Len(RawMessageBatch_wire) = 1 /\ DOMAIN RawMessageBatch_wire = 1 .. 1
    BY DEF RawMessageBatch_wire
  <2>2. /\ \A i \in DOMAIN RawMessageBatch_wire : RawMessageBatch_wire[i].number = i
        /\ \A i, j \in DOMAIN RawMessageBatch_wire : RawMessageBatch_wire[i].member = RawMessageBatch_wire[j].member => i = j
    BY <2>1 DEF RawMessageBatch_wire, Field
  <2>3. FieldCoding(RawMessageBatch, RawMessageBatch_wire[1])
    BY ClassNames DEF FieldCoding, MemberCoding, ElementCoding, RawMessageBatch,
       RawMessageBatch_wire, Field, Object, Repeated, Msg
  <2>4. "unknown_fields" \notin DOMAIN RawMessageBatch
    BY DEF RawMessageBatch
  <2>5. \A f \in DOMAIN RawMessageBatch : MemberOf(RawMessageBatch, RawMessageBatch_wire, f)
    BY <2>1 DEF MemberOf, RawMessageBatch, RawMessageBatch_wire, Field, Object, Repeated
  <2> QED
    BY <2>1, <2>2, <2>3, <2>4, <2>5 DEF TableOf
<1>13. TableOf(MessageGroupBatch, MessageGroupBatch_wire)
  <2>1. Len(MessageGroupBatch_wire) = 1 /\ DOMAIN MessageGroupBatch_wire = 1 .. 1
    BY DEF MessageGroupBatch_wire
  <2>2. /\ \A i \in DOMAIN MessageGroupBatch_wire : MessageGroupBatch_wire[i].number = i
        /\ \A i, j \in DOMAIN MessageGroupBatch_wire : MessageGroupBatch_wire[i].member = MessageGroupBatch_wire[j].member => i = j
    BY <2>1 DEF MessageGroupBatch_wire, Field
  <2>3. FieldCoding(MessageGroupBatch, MessageGroupBatch_wire[1])
    BY ClassNames DEF FieldCoding, MemberCoding, ElementCoding, MessageGroupBatch,
       MessageGroupBatch_wire, Field, Object, Repeated, Msg
  <2>4. "unknown_fields" \notin DOMAIN MessageGroupBatch
    BY DEF MessageGroupBatch
  <2>5. \A f \in DOMAIN MessageGroupBatch : MemberOf(MessageGroupBatch, MessageGroupBatch_wire, f)
    BY <2>1 DEF MemberOf, MessageGroupBatch, MessageGroupBatch_wire, Field, Object, Repeated
  <2> QED
    BY <2>1, <2>2, <2>3, <2>4, <2>5 DEF TableOf
<1>14. TableOf(RequestStatus, RequestStatus_wire)
  <2>1. Len(RequestStatus_wire) = 2 /\ DOMAIN RequestStatus_wire = 1 .. 2
    BY DEF RequestStatus_wire
  <2>2. /\ \A i \in DOMAIN RequestStatus_wire : RequestStatus_wire[i].number = i
        /\ \A i, j \in DOMAIN RequestStatus_wire : RequestStatus_wire[i].member = RequestStatus_wire[j].member => i = j
    BY <2>1 DEF RequestStatus_wire, Field
  <2>3. FieldCoding(RequestStatus, RequestStatus_wire[1])
    BY ClassNames DEF FieldCoding, MemberCoding, ElementCoding, RequestStatus,
       RequestStatus_wire, Field, Text, Number, Varint
  <2>4. FieldCoding(RequestStatus, RequestStatus_wire[2])
    BY ClassNames DEF FieldCoding, MemberCoding, ElementCoding, RequestStatus,
       RequestStatus_wire, Field, Text, Number, Utf8
  <2>5. "unknown_fields" \notin DOMAIN RequestStatus
    BY DEF RequestStatus
  <2>6. \A f \in DOMAIN RequestStatus : MemberOf(RequestStatus, RequestStatus_wire, f)
    BY <2>1 DEF MemberOf, RequestStatus, RequestStatus_wire, Field, Text, Number
  <2> QED
    BY <2>1, <2>2, <2>3, <2>4, <2>5, <2>6 DEF TableOf
<1>15. TableOf(ComparisonSettings, ComparisonSettings_wire)
  <2>1. Len(ComparisonSettings_wire) = 2 /\ DOMAIN ComparisonSettings_wire = 1 .. 2
    BY DEF ComparisonSettings_wire
  <2>2. /\ \A i \in DOMAIN ComparisonSettings_wire : ComparisonSettings_wire[i].number = i
        /\ \A i, j \in DOMAIN ComparisonSettings_wire : ComparisonSettings_wire[i].member = ComparisonSettings_wire[j].member => i = j
    BY <2>1 DEF ComparisonSettings_wire, Field
  <2>3. FieldCoding(ComparisonSettings, ComparisonSettings_wire[1])
    BY ClassNames DEF FieldCoding, MemberCoding, ElementCoding, ComparisonSettings,
       ComparisonSettings_wire, Field, Text, Number, Repeated, Utf8
  <2>4. FieldCoding(ComparisonSettings, ComparisonSettings_wire[2])
    BY ClassNames DEF FieldCoding, MemberCoding, ElementCoding, ComparisonSettings,
       ComparisonSettings_wire, Field, Text, Number, Repeated, Varint
  <2>5. "unknown_fields" \notin DOMAIN ComparisonSettings
    BY DEF ComparisonSettings
  <2>6. \A f \in DOMAIN ComparisonSettings : MemberOf(ComparisonSettings, ComparisonSettings_wire, f)
    BY <2>1 DEF MemberOf, ComparisonSettings, ComparisonSettings_wire, Field, Text, Number,
       Repeated
  <2> QED
    BY <2>1, <2>2, <2>3, <2>4, <2>5, <2>6 DEF TableOf
<1>16. TableOf(ValueFilter, ValueFilter_wire)
  <2>1. Len(ValueFilter_wire) = 5 /\ DOMAIN ValueFilter_wire = 1 .. 5
    BY DEF ValueFilter_wire
  <2>2. /\ \A i \in DOMAIN ValueFilter_wire : ValueFilter_wire[i].number = i
        /\ \A i, j \in DOMAIN ValueFilter_wire : ValueFilter_wire[i].member = ValueFilter_wire[j].member => i = j
    BY <2>1 DEF ValueFilter_wire, Field
  <2>3. FieldCoding(ValueFilter, ValueFilter_wire[1])
    BY ClassNames DEF FieldCoding, MemberCoding, ElementCoding, ValueFilter, ValueFilter_wire,
       Field, Text, Number, Flag, Object, Choice, Varint
  <2>4. FieldCoding(ValueFilter, ValueFilter_wire[2])
    BY ClassNames DEF FieldCoding, MemberCoding, ElementCoding, ValueFilter, ValueFilter_wire,
       Field, Text, Number, Flag, Object, Choice, Varint
  <2>5. FieldCoding(ValueFilter, ValueFilter_wire[3])
    BY ClassNames DEF FieldCoding, MemberCoding, ElementCoding, ValueFilter, ValueFilter_wire,
       Field, Text, Number, Flag, Object, Choice, Utf8
  <2>6. FieldCoding(ValueFilter, ValueFilter_wire[4])
    BY ClassNames DEF FieldCoding, MemberCoding, ElementCoding, ValueFilter, ValueFilter_wire,
       Field, Text, Number, Flag, Object, Choice, Msg
  <2>7. FieldCoding(ValueFilter, ValueFilter_wire[5])
    BY ClassNames DEF FieldCoding, MemberCoding, ElementCoding, ValueFilter, ValueFilter_wire,
       Field, Text, Number, Flag, Object, Choice, Msg
  <2>8. "unknown_fields" \notin DOMAIN ValueFilter
    BY DEF ValueFilter
  <2>9. \A f \in DOMAIN ValueFilter : MemberOf(ValueFilter, ValueFilter_wire, f)
    BY <2>1 DEF MemberOf, ValueFilter, ValueFilter_wire, Field, Text, Number, Flag, Object,
       Choice
  <2> QED
    BY <2>1, <2>2, <2>3, <2>4, <2>5, <2>6, <2>7, <2>8, <2>9 DEF TableOf
<1>17. TableOf(ListValueFilter, ListValueFilter_wire)
  <2>1. Len(ListValueFilter_wire) = 1 /\ DOMAIN ListValueFilter_wire = 1 .. 1
    BY DEF ListValueFilter_wire
  <2>2. /\ \A i \in DOMAIN ListValueFilter_wire : ListValueFilter_wire[i].number = i
        /\ \A i, j \in DOMAIN ListValueFilter_wire : ListValueFilter_wire[i].member = ListValueFilter_wire[j].member => i = j
    BY <2>1 DEF ListValueFilter_wire, Field
  <2>3. FieldCoding(ListValueFilter, ListValueFilter_wire[1])
    BY ClassNames DEF FieldCoding, MemberCoding, ElementCoding, ListValueFilter,
       ListValueFilter_wire, Field, Object, Repeated, Msg
  <2>4. "unknown_fields" \notin DOMAIN ListValueFilter
    BY DEF ListValueFilter
  <2>5. \A f \in DOMAIN ListValueFilter : MemberOf(ListValueFilter, ListValueFilter_wire, f)
    BY <2>1 DEF MemberOf, ListValueFilter, ListValueFilter_wire, Field, Object, Repeated
  <2> QED
    BY <2>1, <2>2, <2>3, <2>4, <2>5 DEF TableOf
<1>18. TableOf(MessageFilter, MessageFilter_wire)
  <2>1. Len(MessageFilter_wire) = 4 /\ DOMAIN MessageFilter_wire = 1 .. 4
    BY DEF MessageFilter_wire
  <2>2. /\ \A i \in DOMAIN MessageFilter_wire : MessageFilter_wire[i].number = i
        /\ \A i, j \in DOMAIN MessageFilter_wire : MessageFilter_wire[i].member = MessageFilter_wire[j].member => i = j
    BY <2>1 DEF MessageFilter_wire, Field
  <2>3. FieldCoding(MessageFilter, MessageFilter_wire[1])
    BY ClassNames DEF FieldCoding, MemberCoding, ElementCoding, MessageFilter,
       MessageFilter_wire, Field, Text, Object, Pointer, MapTo, Utf8
  <2>4. FieldCoding(MessageFilter, MessageFilter_wire[2])
    BY ClassNames DEF FieldCoding, MemberCoding, ElementCoding, MessageFilter,
       MessageFilter_wire, Field, Text, Object, Pointer, MapTo, Utf8
  <2>5. FieldCoding(MessageFilter, MessageFilter_wire[3])
    BY ClassNames DEF FieldCoding, MemberCoding, ElementCoding, MessageFilter,
       MessageFilter_wire, Field, Text, Object, Pointer, MapTo, MessageFilter_FieldsEntry,
       Entry, Utf8, Msg
  <2>6. FieldCoding(MessageFilter, MessageFilter_wire[4])
    BY ClassNames DEF FieldCoding, MemberCoding, ElementCoding, MessageFilter,
       MessageFilter_wire, Field, Text, Object, Pointer, MapTo, Msg
  <2>7. "unknown_fields" \notin DOMAIN MessageFilter
    BY DEF MessageFilter
  <2>8. \A f \in DOMAIN MessageFilter : MemberOf(MessageFilter, MessageFilter_wire, f)
    BY <2>1 DEF MemberOf, MessageFilter, MessageFilter_wire, Field, Text, Object, Pointer,
       MapTo
  <2> QED
    BY <2>1, <2>2, <2>3, <2>4, <2>5, <2>6, <2>7, <2>8 DEF TableOf
<1>19. TableOf(DirectionCheckpoint, DirectionCheckpoint_wire)
  <2>1. Len(DirectionCheckpoint_wire) = 1 /\ DOMAIN DirectionCheckpoint_wire = 1 .. 1
    BY DEF DirectionCheckpoint_wire
  <2>2. /\ \A i \in DOMAIN DirectionCheckpoint_wire : DirectionCheckpoint_wire[i].number = i
        /\ \A i, j \in DOMAIN DirectionCheckpoint_wire : DirectionCheckpoint_wire[i].member = DirectionCheckpoint_wire[j].member => i = j
    BY <2>1 DEF DirectionCheckpoint_wire, Field
  <2>3. FieldCoding(DirectionCheckpoint, DirectionCheckpoint_wire[1])
    BY ClassNames DEF FieldCoding, MemberCoding, ElementCoding, DirectionCheckpoint,
       DirectionCheckpoint_wire, Field, Number, MapTo, DirectionToSequenceEntry, Entry, Varint
  <2>4. "unknown_fields" \notin DOMAIN DirectionCheckpoint
    BY DEF DirectionCheckpoint
  <2>5. \A f \in DOMAIN DirectionCheckpoint : MemberOf(DirectionCheckpoint, DirectionCheckpoint_wire, f)
    BY <2>1 DEF MemberOf, DirectionCheckpoint, DirectionCheckpoint_wire, Field, Number, MapTo
  <2> QED
    BY <2>1, <2>2, <2>3, <2>4, <2>5 DEF TableOf
<1>20. TableOf(Checkpoint, Checkpoint_wire)
  <2>1. Len(Checkpoint_wire) = 2 /\ DOMAIN Checkpoint_wire = 1 .. 2
    BY DEF Checkpoint_wire
  <2>2. /\ \A i \in DOMAIN Checkpoint_wire : Checkpoint_wire[i].number = i
        /\ \A i, j \in DOMAIN Checkpoint_wire : Checkpoint_wire[i].member = Checkpoint_wire[j].member => i = j
    BY <2>1 DEF Checkpoint_wire, Field
  <2>3. FieldCoding(Checkpoint, Checkpoint_wire[1])
    BY ClassNames DEF FieldCoding, MemberCoding, ElementCoding, Checkpoint, Checkpoint_wire,
       Field, Text, Object, MapTo, Utf8
  <2>4. FieldCoding(Checkpoint, Checkpoint_wire[2])
    BY ClassNames DEF FieldCoding, MemberCoding, ElementCoding, Checkpoint, Checkpoint_wire,
       Field, Text, Object, MapTo, SessionAliasToDirectionCheckpointEntry, Entry, Utf8, Msg
  <2>5. "unknown_fields" \notin DOMAIN Checkpoint
    BY DEF Checkpoint
  <2>6. \A f \in DOMAIN Checkpoint : MemberOf(Checkpoint, Checkpoint_wire, f)
    BY <2>1 DEF MemberOf, Checkpoint, Checkpoint_wire, Field, Text, Object, MapTo
  <2> QED
    BY <2>1, <2>2, <2>3, <2>4, <2>5, <2>6 DEF TableOf
<1>21. TableOf(EventID, EventID_wire)
  <2>1. Len(EventID_wire) = 1 /\ DOMAIN EventID_wire = 1 .. 1
    BY DEF EventID_wire
  <2>2. /\ \A i \in DOMAIN EventID_wire : EventID_wire[i].number = i
        /\ \A i, j \in DOMAIN EventID_wire : EventID_wire[i].member = EventID_wire[j].member => i = j
    BY <2>1 DEF EventID_wire, Field
  <2>3. FieldCoding(EventID, EventID_wire[1])
    BY ClassNames DEF FieldCoding, MemberCoding, ElementCoding, EventID, EventID_wire, Field,
       Text, Utf8
  <2>4. "unknown_fields" \notin DOMAIN EventID
    BY DEF EventID
  <2>5. \A f \in DOMAIN EventID : MemberOf(EventID, EventID_wire, f)
    BY <2>1 DEF MemberOf, EventID, EventID_wire, Field, Text
  <2> QED
    BY <2>1, <2>2, <2>3, <2>4, <2>5 DEF TableOf
<1>22. TableOf(Event, Event_wire)
  <2>1. Len(Event_wire) = 9 /\ DOMAIN Event_wire = 1 .. 9
    BY DEF Event_wire
  <2>2. /\ \A i \in DOMAIN Event_wire : Event_wire[i].number = i
        /\ \A i, j \in DOMAIN Event_wire : Event_wire[i].member = Event_wire[j].member => i = j
    BY <2>1 DEF Event_wire, Field
  <2>3. FieldCoding(Event, Event_wire[1])
    BY ClassNames DEF FieldCoding, MemberCoding, ElementCoding, Event, Event_wire, Field, Text,
       Number, Object, Pointer, Repeated, Msg
  <2>4. FieldCoding(Event, Event_wire[2])
    BY ClassNames DEF FieldCoding, MemberCoding, ElementCoding, Event, Event_wire, Field, Text,
       Number, Object, Pointer, Repeated, Msg
  <2>5. FieldCoding(Event, Event_wire[3])
    BY ClassNames DEF FieldCoding, MemberCoding, ElementCoding, Event, Event_wire, Field, Text,
       Number, Object, Pointer, Repeated, Msg
  <2>6. FieldCoding(Event, Event_wire[4])
    BY ClassNames DEF FieldCoding, MemberCoding, ElementCoding, Event, Event_wire, Field, Text,
       Number, Object, Pointer, Repeated, Msg
  <2>7. FieldCoding(Event, Event_wire[5])
    BY ClassNames DEF FieldCoding, MemberCoding, ElementCoding, Event, Event_wire, Field, Text,
       Number, Object, Pointer, Repeated, Varint
  <2>8. FieldCoding(Event, Event_wire[6])
    BY ClassNames DEF FieldCoding, MemberCoding, ElementCoding, Event, Event_wire, Field, Text,
       Number, Object, Pointer, Repeated, Utf8
  <2>9. FieldCoding(Event, Event_wire[7])
    BY ClassNames DEF FieldCoding, MemberCoding, ElementCoding, Event, Event_wire, Field, Text,
       Number, Object, Pointer, Repeated, Utf8
  <2>10. FieldCoding(Event, Event_wire[8])
    BY ClassNames DEF FieldCoding, MemberCoding, ElementCoding, Event, Event_wire, Field, Text,
       Number, Object, Pointer, Repeated, Bytes
  <2>11. FieldCoding(Event, Event_wire[9])
    BY ClassNames DEF FieldCoding, MemberCoding, ElementCoding, Event, Event_wire, Field, Text,
       Number, Object, Pointer, Repeated, Msg
  <2>12. "unknown_fields" \notin DOMAIN Event
    BY DEF Event
  <2>13. \A f \in DOMAIN Event : MemberOf(Event, Event_wire, f)
    BY <2>1 DEF MemberOf, Event, Event_wire, Field, Text, Number, Object, Pointer, Repeated
  <2> QED
    BY <2>1, <2>2, <2>3, <2>4, <2>5, <2>6, <2>7, <2>8, <2>9, <2>10, <2>11, <2>12, <2>13 DEF TableOf
<1>23. TableOf(EventBatch, EventBatch_wire)
  <2>1. Len(EventBatch_wire) = 2 /\ DOMAIN EventBatch_wire = 1 .. 2
    BY DEF EventBatch_wire
  <2>2. /\ \A i \in DOMAIN EventBatch_wire : EventBatch_wire[i].number = i
        /\ \A i, j \in DOMAIN EventBatch_wire : EventBatch_wire[i].member = EventBatch_wire[j].member => i = j
    BY <2>1 DEF EventBatch_wire, Field
  <2>3. FieldCoding(EventBatch, EventBatch_wire[1])
    BY ClassNames DEF FieldCoding, MemberCoding, ElementCoding, EventBatch, EventBatch_wire,
       Field, Object, Pointer, Repeated, Msg
  <2>4. FieldCoding(EventBatch, EventBatch_wire[2])
    BY ClassNames DEF FieldCoding, MemberCoding, ElementCoding, EventBatch, EventBatch_wire,
       Field, Object, Pointer, Repeated, Msg
  <2>5. "unknown_fields" \notin DOMAIN EventBatch
    BY DEF EventBatch
  <2>6. \A f \in DOMAIN EventBatch : MemberOf(EventBatch, EventBatch_wire, f)
    BY <2>1 DEF MemberOf, EventBatch, EventBatch_wire, Field, Object, Pointer, Repeated
  <2> QED
    BY <2>1, <2>2, <2>3, <2>4, <2>5, <2>6 DEF TableOf
<1>24. TableOf(Timestamp, Timestamp_wire)
  <2>1. Len(Timestamp_wire) = 2 /\ DOMAIN Timestamp_wire = 1 .. 2
    BY DEF Timestamp_wire
  <2>2. /\ \A i \in DOMAIN Timestamp_wire : Timestamp_wire[i].number = i
        /\ \A i, j \in DOMAIN Timestamp_wire : Timestamp_wire[i].member = Timestamp_wire[j].member => i = j
    BY <2>1 DEF Timestamp_wire, Field
  <2>3. FieldCoding(Timestamp, Timestamp_wire[1])
    BY ClassNames DEF FieldCoding, MemberCoding, ElementCoding, Timestamp, Timestamp_wire,
       Field, Number, Varint
  <2>4. FieldCoding(Timestamp, Timestamp_wire[2])
    BY ClassNames DEF FieldCoding, MemberCoding, ElementCoding, Timestamp, Timestamp_wire,
       Field, Number, Varint
  <2>5. "unknown_fields" \notin DOMAIN Timestamp
    BY DEF Timestamp
  <2>6. \A f \in DOMAIN Timestamp : MemberOf(Timestamp, Timestamp_wire, f)
    BY <2>1 DEF MemberOf, Timestamp, Timestamp_wire, Field, Number
  <2> QED
    BY <2>1, <2>2, <2>3, <2>4, <2>5, <2>6 DEF TableOf
<1> QED
  BY <1>1, <1>2, <1>3, <1>4, <1>5, <1>6, <1>7, <1>8, <1>9, <1>10, <1>11, <1>12, <1>13, <1>14, <1>15,
     <1>16, <1>17, <1>18, <1>19, <1>20, <1>21, <1>22, <1>23, <1>24

LEMMA Tables ==
  ASSUME NEW c \in Classes
  PROVE  TableOf(Cells[c], Wire[c])
BY TheTables, ClassNames DEF Cells, Wire

------------------------------------------------------------------------------
(* Induction and loops. *)

LEMMA LeastElement ==
  ASSUME NEW T, T \subseteq Nat, T # {}
  PROVE  \E x \in T : \A y \in T : x <= y
<1>1. PICK x \in T : \A y \in T : ~(<<y, x>> \in OpToRel(<, Nat))
  BY NatLessThanWellFounded, WFMin
<1>2. \A y \in T : ~(y < x)
  BY <1>1 DEF OpToRel
<1> QED
  BY <1>2

\* Induction, for a set of numbers in place of a predicate.
LEMMA Induction ==
  ASSUME NEW T, 0 \in T, \A n \in Nat : n \in T => n + 1 \in T
  PROVE  \A n \in Nat : n \in T
<1> SUFFICES ASSUME NEW k \in Nat, k \notin T PROVE FALSE
  OBVIOUS
<1>1. PICK X : X = {n \in Nat : n \notin T}
  OBVIOUS
<1>2. PICK n \in X : \A y \in X : n <= y
  BY <1>1, LeastElement
<1>3. n \in Nat /\ n # 0 /\ n \notin T
  BY <1>1, <1>2
<1>4. n - 1 \in Nat /\ n - 1 \notin X
  BY <1>2, <1>3
<1> QED
  BY <1>1, <1>3, <1>4

\* The same up to a bound.
LEMMA InductionTo ==
  ASSUME NEW n \in Nat, NEW T, 0 \in T, \A i \in 1 .. n : i - 1 \in T => i \in T
  PROVE  \A i \in 0 .. n : i \in T
<1>1. PICK X : X = {i \in Nat : i <= n => i \in T}
  OBVIOUS
<1>2. \A i \in Nat : i \in X => i + 1 \in X
  <2> SUFFICES ASSUME NEW i \in Nat, i \in X, i + 1 <= n PROVE i + 1 \in T
    BY <1>1
  <2>1. i + 1 \in 1 .. n /\ (i + 1) - 1 = i /\ i <= n
    OBVIOUS
  <2> QED
    BY <1>1, <2>1
<1>3. \A i \in Nat : i \in X
  BY <1>1, <1>2, Induction
<1> QED
  BY <1>1, <1>3

\* The states of a loop from its first to its last, if its step is a function.
Steps(n, V) == [(1 .. n) \X V -> V]
Loops(n, V, base, step) ==
  {f \in [0 .. n -> V] : f[0] = base /\ \A i \in 1 .. n : f[i] = step[<<i, f[i - 1]>>]}

LEMMA LoopExists ==
  ASSUME NEW n \in Nat, NEW V, NEW base \in V, NEW step \in Steps(n, V)
  PROVE  \E f : f \in Loops(n, V, base, step)
<1> USE DEF Steps
<1>1. PICK T : T = {k \in 0 .. n : \E f \in [0 .. k -> V] :
                      f[0] = base /\ \A i \in 1 .. k : f[i] = step[<<i, f[i - 1]>>]}
  OBVIOUS
<1>2. 0 \in T
  <2>1. PICK f : f = [i \in 0 .. 0 |-> base]
    OBVIOUS
  <2> QED
    BY <1>1, <2>1
<1>3. ASSUME NEW k \in 1 .. n, k - 1 \in T PROVE k \in T
  <2>1. PICK f \in [0 .. k - 1 -> V] :
          f[0] = base /\ \A i \in 1 .. k - 1 : f[i] = step[<<i, f[i - 1]>>]
    BY <1>1, <1>3
  <2>2. PICK g : g = [i \in 0 .. k |-> IF i = k THEN step[<<k, f[k - 1]>>] ELSE f[i]]
    OBVIOUS
  <2>3. k - 1 \in 0 .. k - 1 /\ f[k - 1] \in V /\ <<k, f[k - 1]>> \in (1 .. n) \X V
    BY <2>1
  <2>4. g \in [0 .. k -> V]
    <3>1. step[<<k, f[k - 1]>>] \in V
      BY <2>3
    <3>2. \A i \in 0 .. k : i # k => i \in 0 .. k - 1
      OBVIOUS
    <3> QED
      BY <2>1, <2>2, <3>1, <3>2
  <2>5. g[0] = base
    BY <2>1, <2>2
  <2>6. ASSUME NEW i \in 1 .. k PROVE g[i] = step[<<i, g[i - 1]>>]
    <3>1. i - 1 \in 0 .. k /\ i - 1 # k
      OBVIOUS
    <3>2. g[i - 1] = f[i - 1]
      BY <2>2, <3>1
    <3>3. CASE i = k
      <4>1. g[k] = step[<<k, f[k - 1]>>]
        BY <2>2
      <4>2. g[k - 1] = f[k - 1]
        BY <3>2, <3>3
      <4> QED
        BY <3>3, <4>1, <4>2
    <3>4. CASE i # k
      BY <2>1, <2>2, <3>2, <3>4
    <3> QED
      BY <3>3, <3>4
  <2> QED
    BY <1>1, <2>4, <2>5, <2>6
<1>4. n \in T
  BY <1>2, <1>3, InductionTo
<1> QED
  BY <1>1, <1>4 DEF Loops


\* A sum of numbers, from the first to the last.
LEMMA SumProperties ==
  ASSUME NEW n \in Nat, NEW s, \A i \in 1 .. n : s[i] \in Nat
  PROVE  /\ Sum(0, s) = 0
         /\ \A i \in 1 .. n : Sum(i, s) = Sum(i - 1, s) + s[i]
         /\ \A i \in 0 .. n : Sum(i, s) \in Nat
<1>1. PICK step : step = [p \in (1 .. n) \X Nat |-> p[2] + s[p[1]]]
  OBVIOUS
<1>2. step \in Steps(n, Nat) /\ 0 \in Nat
  <2>1. \A p \in (1 .. n) \X Nat : p[2] + s[p[1]] \in Nat
    OBVIOUS
  <2> QED
    BY <1>1, <2>1 DEF Steps
<1>3. PICK F \in [0 .. n -> Nat] : F[0] = 0 /\ \A i \in 1 .. n : F[i] = step[<<i, F[i - 1]>>]
  <2>1. PICK F : F \in Loops(n, Nat, 0, step)
    BY <1>2, LoopExists
  <2> QED
    BY <2>1 DEF Loops
<1>4. ASSUME NEW i \in 1 .. n PROVE F[i] = F[i - 1] + s[i]
  <2>1. F[i - 1] \in Nat /\ <<i, F[i - 1]>> \in (1 .. n) \X Nat
    BY <1>3
  <2> QED
    BY <1>1, <1>3, <2>1
<1>5. ASSUME NEW k \in 0 .. n PROVE Sum(k, s) = F[k]
  <2> DEFINE Loop(f) == f = [i \in 0 .. k |-> IF i = 0 THEN 0 ELSE f[i - 1] + s[i]]
  <2>1. PICK g : g = [i \in 0 .. k |-> F[i]]
    OBVIOUS
  <2>2. Loop(g)
    <3>1. \A i \in 0 .. k : i # 0 => i \in 1 .. n /\ i - 1 \in 0 .. k
      OBVIOUS
    <3>2. \A i \in 0 .. k : F[i] = IF i = 0 THEN 0 ELSE g[i - 1] + s[i]
      BY <1>3, <1>4, <2>1, <3>1
    <3> QED
      BY <2>1, <3>2
  <2>3. PICK f : f = CHOOSE h : Loop(h)
    OBVIOUS
  <2>4. Loop(f)
    BY <2>2, <2>3
  <2>5. \A i \in 0 .. k : f[i] = F[i]
    <3>1. PICK T : T = {i \in 0 .. k : f[i] = F[i]}
      OBVIOUS
    <3>2. 0 \in T
      BY <1>3, <2>4, <3>1
    <3>3. ASSUME NEW i \in 1 .. k, i - 1 \in T PROVE i \in T
      <4>1. i \in 1 .. n /\ i \in 0 .. k /\ i # 0 /\ f[i - 1] = F[i - 1]
        BY <3>1, <3>3
      <4>2. f[i] = f[i - 1] + s[i]
        BY <2>4, <4>1
      <4> QED
        BY <1>4, <3>1, <4>1, <4>2
    <3>4. k \in Nat
      OBVIOUS
    <3>5. \A i \in 0 .. k : i \in T
      BY <3>2, <3>3, <3>4, InductionTo
    <3> QED
      BY <3>1, <3>5
  <2>6. Sum(k, s) = f[k]
    BY <2>3 DEF Sum
  <2> QED
    BY <2>5, <2>6
<1>6. \A i \in 1 .. n : i - 1 \in 0 .. n /\ i \in 0 .. n
  OBVIOUS
<1> QED
  BY <1>3, <1>4, <1>5, <1>6

LEMMA SumCongruence ==
  ASSUME NEW n \in Nat, NEW s, NEW t, \A i \in 1 .. n : s[i] \in Nat /\ s[i] = t[i]
  PROVE  Sum(n, s) = Sum(n, t)
<1>1. PICK T : T = {i \in 0 .. n : Sum(i, s) = Sum(i, t)}
  OBVIOUS
<1>2. 0 \in T
  BY <1>1, SumProperties
<1>3. ASSUME NEW i \in 1 .. n, i - 1 \in T PROVE i \in T
  BY <1>1, <1>3, SumProperties
<1>4. n \in T
  BY <1>2, <1>3, InductionTo
<1> QED
  BY <1>1, <1>4

\* What is written of the known fields, member by member.
FieldsIn(S, c, m, n) == \A i \in 1 .. n : FieldsOf(c, m, i) \in Seq(S)
Written(S, c, m, n, F) ==
  /\ F \in [0 .. n -> Seq(S)] /\ F[0] = <<>>
  /\ \A i \in 1 .. n : F[i] = F[i - 1] \o FieldsOf(c, m, i)
  /\ KnownFields(c, m) = F[n]

LEMMA KnownFieldsLoop ==
  ASSUME NEW S, NEW c, NEW m, NEW n \in Nat, n = Len(Wire[c]), FieldsIn(S, c, m, n)
  PROVE  \E F : Written(S, c, m, n, F)
<1> USE DEF FieldsIn
<1>1. n = Len(Wire[c])
  OBVIOUS
<1>2. PICK step : step = [p \in (1 .. n) \X Seq(S) |-> p[2] \o FieldsOf(c, m, p[1])]
  OBVIOUS
<1>3. step \in Steps(n, Seq(S))
  <2>1. \A p \in (1 .. n) \X Seq(S) : p[2] \o FieldsOf(c, m, p[1]) \in Seq(S)
    BY <1>1, ConcatProperties
  <2> QED
    BY <1>2, <2>1 DEF Steps
<1>4. <<>> \in Seq(S)
  BY EmptySeq
<1>5. PICK F \in [0 .. n -> Seq(S)] : F[0] = <<>> /\ \A i \in 1 .. n : F[i] = step[<<i, F[i - 1]>>]
  <2>1. PICK F : F \in Loops(n, Seq(S), <<>>, step)
    BY <1>3, <1>4, LoopExists
  <2> QED
    BY <2>1 DEF Loops
<1>6. ASSUME NEW i \in 1 .. n PROVE F[i] = F[i - 1] \o FieldsOf(c, m, i)
  <2>1. F[i - 1] \in Seq(S) /\ <<i, F[i - 1]>> \in (1 .. n) \X Seq(S)
    <3>1. i - 1 \in 0 .. n
      OBVIOUS
    <3>2. F[i - 1] \in Seq(S)
      BY <1>5, <3>1
    <3> QED
      BY <3>2
  <2> QED
    BY <1>2, <1>5, <2>1
<1> DEFINE Loop(f) == f = [i \in 0 .. Len(Wire[c]) |->
                             IF i = 0 THEN <<>> ELSE f[i - 1] \o FieldsOf(c, m, i)]
<1>7. Loop(F)
  <2>1. \A i \in 0 .. n : F[i] = IF i = 0 THEN <<>> ELSE F[i - 1] \o FieldsOf(c, m, i)
    <3>1. \A i \in 0 .. n : i # 0 => i \in 1 .. n
      OBVIOUS
    <3> QED
      BY <1>5, <1>6, <3>1
  <2>2. F = [i \in 0 .. n |-> F[i]]
    BY <1>5
  <2> QED
    BY <1>1, <2>1, <2>2
<1>8. PICK f : f = CHOOSE h : Loop(h)
  OBVIOUS
<1>9. Loop(f)
  BY <1>7, <1>8
<1>10. \A i \in 0 .. n : f[i] = F[i]
  <2>1. PICK T : T = {i \in 0 .. n : f[i] = F[i]}
    OBVIOUS
  <2>2. 0 \in T
    BY <1>1, <1>5, <1>9, <2>1
  <2>3. ASSUME NEW i \in 1 .. n, i - 1 \in T PROVE i \in T
    <3>1. i \in 0 .. n /\ i # 0 /\ f[i - 1] = F[i - 1]
      BY <2>1, <2>3
    <3>2. f[i] = f[i - 1] \o FieldsOf(c, m, i)
      BY <1>1, <1>9, <3>1
    <3> QED
      BY <1>6, <2>1, <3>1, <3>2
  <2>4. \A i \in 0 .. n : i \in T
    BY <2>2, <2>3, InductionTo
  <2> QED
    BY <2>1, <2>4
<1>11. KnownFields(c, m) = f[n]
  BY <1>1, <1>8 DEF KnownFields
<1>12. KnownFields(c, m) = F[n]
  BY <1>10, <1>11
<1> QED
  BY <1>5, <1>6, <1>12 DEF Written

------------------------------------------------------------------------------
(* Objects: of nesting 0 there are none, and those of nesting d + 1 have    *)
(* objects of nesting d inside.  Of the fields that were not understood all *)
(* that is known is that they are in U; an object without any is whole.     *)

ElementsOf(below, cell) ==
  CASE cell.cell = "text"   -> Texts
    [] cell.cell = "number" -> Numbers
    [] OTHER                -> below[cell.of]

Maps(keys, elements) ==
  {map \in UNION {[K -> elements] : K \in SUBSET keys} : IsFiniteSet(DOMAIN map)}

Contents(below, cell) ==
  CASE cell.cell \in {"text", "number"} -> ElementsOf(below, cell)
    [] cell.cell = "pointer"  -> {<<>>} \cup {<<m>> : m \in below[cell.of]}
    [] cell.cell = "repeated" -> Seq(ElementsOf(below, cell.of))
    [] cell.cell = "map"      -> Maps(ElementsOf(below, cell.key), ElementsOf(below, cell.of))
    [] cell.cell = "choice"   ->
         {NOT_SET} \cup UNION {{[case |-> k, value |-> v] : v \in ElementsOf(below, cell.of[k])} :
                               k \in DOMAIN cell.of}

Members(c) == DOMAIN Cells[c] \cup {"unknown_fields"}

ObjectsOf(U, below, c) ==
  {m \in [Members(c) -> Seq(U) \cup UNION {Contents(below, Cells[c][f]) : f \in DOMAIN Cells[c]}] :
     /\ m["unknown_fields"] \in Seq(U)
     /\ \A f \in DOMAIN Cells[c] : m[f] \in Contents(below, Cells[c][f])}

Deeper(U, below) == [c \in Classes |-> ObjectsOf(U, below, c)]

Nested(U) ==
  LET nested[d \in Nat] == IF d = 0 THEN [c \in Classes |-> {}] ELSE Deeper(U, nested[d - 1])
  IN nested

Objects(U, d, c) == Nested(U)[d][c]
Whole(d, c) == Objects({}, d, c)

\* There is such a function, though its values are in no set known beforehand: there
\* is one up to every n, and only one.
UpTo(U, n, g) ==
  /\ DOMAIN g = 0 .. n /\ g[0] = [c \in Classes |-> {}]
  /\ \A i \in 1 .. n : g[i] = Deeper(U, g[i - 1])

LEMMA UpToExists ==
  ASSUME NEW U, NEW n \in Nat
  PROVE  \E g : UpTo(U, n, g)
<1>1. PICK T : T = {k \in Nat : \E g : UpTo(U, k, g)}
  OBVIOUS
<1>2. 0 \in T
  <2>1. PICK g : g = [i \in 0 .. 0 |-> [c \in Classes |-> {}]]
    OBVIOUS
  <2>2. DOMAIN g = 0 .. 0 /\ g[0] = [c \in Classes |-> {}]
    BY <2>1
  <2>3. 1 .. 0 = {}
    OBVIOUS
  <2> QED
    BY <1>1, <2>2, <2>3 DEF UpTo
<1>3. ASSUME NEW k \in Nat, k \in T PROVE k + 1 \in T
  <2>1. PICK g : UpTo(U, k, g)
    BY <1>1, <1>3
  <2>2. PICK h : h = [i \in 0 .. k + 1 |-> IF i = k + 1 THEN Deeper(U, g[k]) ELSE g[i]]
    OBVIOUS
  <2>3. \A i \in 0 .. k : h[i] = g[i]
    BY <2>2
  <2>4. ASSUME NEW i \in 1 .. k + 1 PROVE h[i] = Deeper(U, h[i - 1])
    <3>1. CASE i = k + 1
      <4>1. h[i] = Deeper(U, g[k]) /\ i - 1 = k /\ k \in 0 .. k
        BY <2>2, <3>1
      <4> QED
        BY <2>3, <4>1
    <3>2. CASE i # k + 1
      <4>1. i \in 1 .. k /\ i \in 0 .. k /\ i - 1 \in 0 .. k
        BY <3>2
      <4>2. g[i] = Deeper(U, g[i - 1])
        BY <2>1, <4>1 DEF UpTo
      <4> QED
        BY <2>3, <4>1, <4>2
    <3> QED
      BY <3>1, <3>2
  <2>5. h[0] = [c \in Classes |-> {}]
    <3>1. 0 \in 0 .. k
      OBVIOUS
    <3>2. g[0] = [c \in Classes |-> {}]
      BY <2>1 DEF UpTo
    <3> QED
      BY <2>3, <3>1, <3>2
  <2>6. DOMAIN h = 0 .. k + 1
    BY <2>2
  <2>7. UpTo(U, k + 1, h)
    BY <2>4, <2>5, <2>6 DEF UpTo
  <2> QED
    BY <1>1, <2>7
<1> QED
  BY <1>1, <1>2, <1>3, Induction

LEMMA UpToAgree ==
  ASSUME NEW U, NEW n \in Nat, NEW k \in Nat, n <= k, NEW g, NEW h, UpTo(U, n, g), UpTo(U, k, h)
  PROVE  g[n] = h[n]
<1>1. PICK T : T = {i \in 0 .. n : g[i] = h[i]}
  OBVIOUS
<1>2. 0 \in T
  <2>1. 0 \in 0 .. n
    OBVIOUS
  <2>2. g[0] = h[0]
    BY DEF UpTo
  <2> QED
    BY <1>1, <2>1, <2>2
<1>3. ASSUME NEW i \in 1 .. n, i - 1 \in T PROVE i \in T
  <2>1. i \in 1 .. k /\ i \in 0 .. n
    OBVIOUS
  <2>2. g[i] = Deeper(U, g[i - 1]) /\ h[i] = Deeper(U, h[i - 1])
    BY <2>1 DEF UpTo
  <2> QED
    BY <1>1, <1>3, <2>1, <2>2
<1>4. n \in T
  BY <1>2, <1>3, InductionTo
<1> QED
  BY <1>1, <1>4

LEMMA NestedIsNested ==
  ASSUME NEW U
  PROVE  /\ Nested(U)[0] = [c \in Classes |-> {}]
         /\ \A d \in Nat : Nested(U)[d + 1] = Deeper(U, Nested(U)[d])
<1> DEFINE Recursive(f) ==
      f = [d \in Nat |-> IF d = 0 THEN [c \in Classes |-> {}] ELSE Deeper(U, f[d - 1])]
<1>1. PICK f : f = [n \in Nat |-> (CHOOSE g : UpTo(U, n, g))[n]]
  OBVIOUS
<1>2. \A n \in Nat : \A g : UpTo(U, n, g) => f[n] = g[n]
  <2> SUFFICES ASSUME NEW n \in Nat, NEW g, UpTo(U, n, g) PROVE f[n] = g[n]
    OBVIOUS
  <2>1. PICK h : h = CHOOSE x : UpTo(U, n, x)
    OBVIOUS
  <2>2. UpTo(U, n, h)
    BY <2>1
  <2>3. h[n] = g[n]
    BY <2>2, UpToAgree
  <2> QED
    BY <1>1, <2>1, <2>3
<1>3. f[0] = [c \in Classes |-> {}]
  <2>1. PICK g : UpTo(U, 0, g)
    BY UpToExists
  <2> QED
    BY <1>2, <2>1 DEF UpTo
<1>4. \A d \in Nat : d # 0 => f[d] = Deeper(U, f[d - 1])
  <2> SUFFICES ASSUME NEW d \in Nat, d # 0 PROVE f[d] = Deeper(U, f[d - 1])
    OBVIOUS
  <2>1. PICK g : UpTo(U, d, g)
    BY UpToExists
  <2>2. d \in 1 .. d /\ d - 1 \in Nat /\ d - 1 <= d
    OBVIOUS
  <2>3. g[d] = Deeper(U, g[d - 1])
    BY <2>1, <2>2 DEF UpTo
  <2>4. PICK h : UpTo(U, d - 1, h)
    BY <2>2, UpToExists
  <2>5. h[d - 1] = g[d - 1]
    BY <2>1, <2>2, <2>4, UpToAgree
  <2>6. f[d] = g[d] /\ f[d - 1] = h[d - 1]
    BY <1>2, <2>1, <2>2, <2>4
  <2> QED
    BY <2>3, <2>5, <2>6
<1>5. Recursive(f)
  <2>1. \A d \in Nat : f[d] = IF d = 0 THEN [c \in Classes |-> {}] ELSE Deeper(U, f[d - 1])
    BY <1>3, <1>4
  <2>2. f = [d \in Nat |-> f[d]]
    BY <1>1
  <2> QED
    BY <2>1, <2>2
<1>6. PICK g : g = CHOOSE x : Recursive(x)
  OBVIOUS
<1>7. Recursive(g)
  BY <1>5, <1>6
<1>8. Nested(U) = g
  BY <1>6 DEF Nested
<1>9. \A d \in Nat : d + 1 # 0 /\ d + 1 \in Nat /\ (d + 1) - 1 = d
  OBVIOUS
<1> QED
  BY <1>7, <1>8, <1>9

\* What an object of nesting d + 1 is.
IsObject(U, d, c, m) ==
  /\ m = [f \in Members(c) |-> m[f]]
  /\ m["unknown_fields"] \in Seq(U)
  /\ \A f \in DOMAIN Cells[c] : m[f] \in Contents(Nested(U)[d], Cells[c][f])

LEMMA ObjectsByNesting ==
  ASSUME NEW U, NEW c \in Classes
  PROVE  /\ Objects(U, 0, c) = {}
         /\ \A d \in Nat : \A m : m \in Objects(U, d + 1, c) <=> IsObject(U, d, c, m)
<1>1. Objects(U, 0, c) = {}
  BY NestedIsNested DEF Objects
<1>2. ASSUME NEW d \in Nat, NEW m PROVE m \in Objects(U, d + 1, c) <=> IsObject(U, d, c, m)
  <2>1. Objects(U, d + 1, c) = ObjectsOf(U, Nested(U)[d], c)
    <3>1. Nested(U)[d + 1] = Deeper(U, Nested(U)[d])
      BY NestedIsNested
    <3> QED
      BY <3>1 DEF Objects, Deeper
  <2>2. ASSUME m \in Objects(U, d + 1, c) PROVE IsObject(U, d, c, m)
    BY <2>1, <2>2 DEF ObjectsOf, IsObject
  <2>3. ASSUME IsObject(U, d, c, m) PROVE m \in Objects(U, d + 1, c)
    <3>1. m["unknown_fields"] \in Seq(U)
      BY <2>3 DEF IsObject
    <3>2. \A f \in DOMAIN Cells[c] : m[f] \in Contents(Nested(U)[d], Cells[c][f])
      BY <2>3 DEF IsObject
    <3>3. \A f \in Members(c) : m[f] \in Seq(U) \cup UNION {Contents(Nested(U)[d], Cells[c][g]) : g \in DOMAIN Cells[c]}
      BY <3>1, <3>2 DEF Members
    <3>4. m = [f \in Members(c) |-> m[f]]
      BY <2>3 DEF IsObject
    <3> HIDE DEF Members
    <3>5. m \in [Members(c) -> Seq(U) \cup UNION {Contents(Nested(U)[d], Cells[c][f]) : f \in DOMAIN Cells[c]}]
      BY <3>3, <3>4
    <3> QED
      BY <2>1, <3>1, <3>2, <3>5 DEF ObjectsOf
  <2> QED
    BY <2>2, <2>3
<1> QED
  BY <1>1, <1>2

\* The sorts of elements and of members that classes have.
SoundElement(cell) ==
  \/ cell.cell \in {"text", "number"}
  \/ cell.cell = "object" /\ cell.of \in Classes

SoundCell(cell) ==
  \/ cell.cell \in {"text", "number"}
  \/ cell.cell = "pointer" /\ cell.of \in Classes
  \/ cell.cell = "repeated" /\ SoundElement(cell.of)
  \/ cell.cell = "map" /\ SoundElement(cell.key) /\ SoundElement(cell.of)
  \/ cell.cell = "choice" /\ \A k \in DOMAIN cell.of : k # "NOT_SET" /\ SoundElement(cell.of[k])

LEMMA WrittenIsSound ==
  ASSUME NEW cell, NEW coding, MemberCoding(cell, coding)
  PROVE  SoundCell(cell)
<1>1. \A x, y : ElementCoding(x, y) => SoundElement(x)
  BY DEF ElementCoding, SoundElement
<1>2. CASE cell.cell \in {"text", "number"} \/ (cell.cell = "pointer" /\ cell.of \in Classes)
  BY <1>2 DEF SoundCell
<1>3. CASE cell.cell = "repeated" /\ cell.of.cell = "number"
  <2>1. PICK x : x = cell.of
    OBVIOUS
  <2>2. SoundElement(x)
    BY <1>3, <2>1 DEF SoundElement
  <2> QED
    BY <1>3, <2>1, <2>2 DEF SoundCell
<1>4. CASE cell.cell = "repeated" /\ ElementCoding(cell.of, coding)
  BY <1>1, <1>4 DEF SoundCell
<1>5. CASE /\ cell.cell = "map"
           /\ ElementCoding(cell.key, coding.key) /\ ElementCoding(cell.of, coding.value)
  BY <1>1, <1>5 DEF SoundCell
<1> QED
  BY <1>2, <1>3, <1>4, <1>5 DEF MemberCoding

LEMMA CellsAreSound ==
  ASSUME NEW c \in Classes, NEW f \in DOMAIN Cells[c]
  PROVE  SoundCell(Cells[c][f])
<1>1. PICK cells : cells = Cells[c]
  OBVIOUS
<1>2. PICK wire : wire = Wire[c]
  OBVIOUS
<1>3. TableOf(cells, wire)
  BY <1>1, <1>2, Tables
<1>4. MemberOf(cells, wire, f)
  BY <1>1, <1>3 DEF TableOf
<1>5. \A cell, coding : ElementCoding(cell, coding) => SoundElement(cell)
  BY DEF ElementCoding, SoundElement
<1>6. \A i \in DOMAIN wire : FieldCoding(cells, wire[i])
  BY <1>3 DEF TableOf
<1>7. CASE cells[f].cell = "choice"
  <2>1. ASSUME NEW k \in DOMAIN cells[f].of
        PROVE  k # "NOT_SET" /\ SoundElement(cells[f].of[k])
    <3>1. f = "kind" /\ k # "NOT_SET" /\ k \notin DOMAIN cells
      BY <1>4, <1>7 DEF MemberOf
    <3>2. PICK i \in DOMAIN wire : wire[i].member = k
      BY <1>4, <1>7 DEF MemberOf
    <3>3. ElementCoding(cells[f].of[k], wire[i].coding)
      BY <1>6, <3>1, <3>2 DEF FieldCoding
    <3> QED
      BY <1>5, <3>1, <3>3
  <2> QED
    BY <1>1, <1>7, <2>1 DEF SoundCell
<1>8. CASE cells[f].cell # "choice"
  <2>1. PICK i \in DOMAIN wire : wire[i].member = f
    BY <1>4, <1>8 DEF MemberOf
  <2>2. f \in DOMAIN cells
    BY <1>1
  <2>3. MemberCoding(cells[f], wire[i].coding)
    BY <1>6, <2>1, <2>2 DEF FieldCoding
  <2> QED
    BY <1>1, <2>3, WrittenIsSound
<1> QED
  BY <1>7, <1>8

LEMMA ContentsGrow ==
  ASSUME NEW cell, SoundCell(cell), NEW fewer, NEW more,
         \A c \in Classes : fewer[c] \subseteq more[c]
  PROVE  Contents(fewer, cell) \subseteq Contents(more, cell)
<1>1. ASSUME NEW x, SoundElement(x) PROVE ElementsOf(fewer, x) \subseteq ElementsOf(more, x)
  BY <1>1 DEF SoundElement, ElementsOf
<1>2. CASE cell.cell \in {"text", "number"}
  BY <1>2 DEF Contents, ElementsOf
<1>3. CASE cell.cell = "pointer" /\ cell.of \in Classes
  BY <1>3 DEF Contents
<1>4. CASE cell.cell = "repeated" /\ SoundElement(cell.of)
  <2>1. ElementsOf(fewer, cell.of) \subseteq ElementsOf(more, cell.of)
    BY <1>1, <1>4
  <2>2. \A S, T : S \subseteq T => Seq(S) \subseteq Seq(T)
    OBVIOUS
  <2> QED
    BY <1>4, <2>1, <2>2 DEF Contents
<1>5. CASE cell.cell = "map" /\ SoundElement(cell.key) /\ SoundElement(cell.of)
  <2>1. PICK K : K = ElementsOf(fewer, cell.key)
    OBVIOUS
  <2>2. PICK L : L = ElementsOf(more, cell.key)
    OBVIOUS
  <2>3. PICK S : S = ElementsOf(fewer, cell.of)
    OBVIOUS
  <2>4. PICK T : T = ElementsOf(more, cell.of)
    OBVIOUS
  <2>5. K \subseteq L /\ S \subseteq T
    BY <1>1, <1>5, <2>1, <2>2, <2>3, <2>4
  <2>6. Maps(K, S) \subseteq Maps(L, T)
    <3> SUFFICES ASSUME NEW map \in Maps(K, S) PROVE map \in Maps(L, T)
      OBVIOUS
    <3>1. PICK D \in SUBSET K : map \in [D -> S] /\ IsFiniteSet(DOMAIN map)
      BY DEF Maps
    <3>2. D \in SUBSET L /\ map \in [D -> T]
      BY <2>5, <3>1
    <3> QED
      BY <3>1, <3>2 DEF Maps
  <2> QED
    BY <1>5, <2>1, <2>2, <2>3, <2>4, <2>6 DEF Contents
<1>6. CASE cell.cell = "choice" /\ \A k \in DOMAIN cell.of : SoundElement(cell.of[k])
  <2>1. \A k \in DOMAIN cell.of : ElementsOf(fewer, cell.of[k]) \subseteq ElementsOf(more, cell.of[k])
    BY <1>1, <1>6
  <2> QED
    BY <1>6, <2>1 DEF Contents
<1> QED
  BY <1>2, <1>3, <1>4, <1>5, <1>6 DEF SoundCell

\* What fits into a nesting fits into every deeper one.
LEMMA ObjectsGrow ==
  ASSUME NEW U, NEW d \in Nat, NEW c \in Classes
  PROVE  Objects(U, d, c) \subseteq Objects(U, d + 1, c)
<1>1. PICK T : T = {n \in Nat : \A x \in Classes : Objects(U, n, x) \subseteq Objects(U, n + 1, x)}
  OBVIOUS
<1>2. 0 \in T
  BY <1>1, ObjectsByNesting
<1>3. ASSUME NEW n \in Nat, n \in T PROVE n + 1 \in T
  <2> SUFFICES ASSUME NEW x \in Classes, NEW m \in Objects(U, n + 1, x)
               PROVE  m \in Objects(U, (n + 1) + 1, x)
    BY <1>1
  <2>1. IsObject(U, n, x, m)
    BY ObjectsByNesting
  <2>2. \A y \in Classes : Nested(U)[n][y] \subseteq Nested(U)[n + 1][y]
    BY <1>1, <1>3 DEF Objects
  <2>3. \A f \in DOMAIN Cells[x] :
          Contents(Nested(U)[n], Cells[x][f]) \subseteq Contents(Nested(U)[n + 1], Cells[x][f])
    BY <2>2, CellsAreSound, ContentsGrow
  <2>4. \A f \in DOMAIN Cells[x] : m[f] \in Contents(Nested(U)[n], Cells[x][f])
    BY <2>1 DEF IsObject
  <2>5. \A f \in DOMAIN Cells[x] : m[f] \in Contents(Nested(U)[n + 1], Cells[x][f])
    BY <2>3, <2>4
  <2>6. IsObject(U, n + 1, x, m)
    BY <2>1, <2>5 DEF IsObject
  <2>7. n + 1 \in Nat
    OBVIOUS
  <2> QED
    BY <2>6, <2>7, ObjectsByNesting
<1> QED
  BY <1>1, <1>2, <1>3, Induction

LEMMA ObjectsGrowTo ==
  ASSUME NEW U, NEW d \in Nat, NEW n \in Nat, d <= n, NEW c \in Classes
  PROVE  Objects(U, d, c) \subseteq Objects(U, n, c)
<1>1. PICK T : T = {k \in Nat : Objects(U, d, c) \subseteq Objects(U, d + k, c)}
  OBVIOUS
<1>2. 0 \in T
  BY <1>1
<1>3. ASSUME NEW k \in Nat, k \in T PROVE k + 1 \in T
  <2>1. Objects(U, d + k, c) \subseteq Objects(U, (d + k) + 1, c)
    BY ObjectsGrow
  <2>2. (d + k) + 1 = d + (k + 1)
    OBVIOUS
  <2> QED
    BY <1>1, <1>3, <2>1, <2>2
<1>4. \A k \in Nat : k \in T
  BY <1>2, <1>3, Induction
<1>5. n - d \in Nat /\ d + (n - d) = n
  OBVIOUS
<1> QED
  BY <1>1, <1>4, <1>5

\* A new object holds nothing, and fits everywhere.
LEMMA DefaultValues ==
  ASSUME NEW cell
  PROVE  /\ cell.cell = "text" => Default(cell) = EmptyString
         /\ cell.cell = "number" => Default(cell) = 0
         /\ cell.cell = "choice" => Default(cell) = NOT_SET
         /\ cell.cell \in {"pointer", "repeated", "map"} => Default(cell) = <<>>
<1>1. cell.cell = "text" => Default(cell) = EmptyString
  BY SMT DEF Default
<1>2. cell.cell = "number" => Default(cell) = 0
  BY SMT DEF Default
<1>3. cell.cell = "choice" => Default(cell) = NOT_SET
  BY SMT DEF Default
<1>4. /\ cell.cell = "pointer" => Default(cell) = <<>>
      /\ cell.cell = "repeated" => Default(cell) = <<>>
      /\ cell.cell = "map" => Default(cell) = <<>>
  BY SMT DEF Default
<1> QED
  BY <1>1, <1>2, <1>3, <1>4

LEMMA DefaultFits ==
  ASSUME NEW below, NEW cell, SoundCell(cell)
  PROVE  Default(cell) \in Contents(below, cell)
<1>1. CASE cell.cell \in {"text", "number"}
  <2>1. EmptyString \in Texts /\ 0 \in Numbers
    BY SMT, CodecAssumption
  <2> QED
    BY <1>1, <2>1, DefaultValues, SMT DEF Contents, ElementsOf
<1>2. CASE cell.cell \in {"pointer", "choice"}
  BY <1>2, DefaultValues DEF Contents
<1>3. CASE cell.cell = "repeated"
  <2>1. <<>> \in Seq(ElementsOf(below, cell.of))
    BY EmptySeq
  <2> QED
    BY <1>3, <2>1, DefaultValues DEF Contents
<1>4. CASE cell.cell = "map"
  <2>1. \A K, S : <<>> \in Maps(K, S)
    <3> SUFFICES ASSUME NEW K, NEW S PROVE <<>> \in Maps(K, S)
      OBVIOUS
    <3>1. {} \in SUBSET K /\ <<>> \in [{} -> S] /\ DOMAIN <<>> = {}
      OBVIOUS
    <3> QED
      BY <3>1, FS_EmptySet DEF Maps
  <2> QED
    BY <1>4, <2>1, DefaultValues DEF Contents
<1> QED
  BY <1>1, <1>2, <1>3, <1>4 DEF SoundCell

LEMMA NewIsObject ==
  ASSUME NEW U, NEW d \in Nat, d # 0, NEW c \in Classes
  PROVE  New(c) \in Objects(U, d, c)
<1>1. \A f \in DOMAIN Cells[c] : f # "unknown_fields"
  BY Tables DEF TableOf
<1>2. New(c)["unknown_fields"] = <<>> /\ \A f \in DOMAIN Cells[c] : New(c)[f] = Default(Cells[c][f])
  BY <1>1 DEF New
<1>3. New(c) = [f \in Members(c) |-> New(c)[f]]
  BY DEF New, Members
<1>4. <<>> \in Seq(U)
  BY EmptySeq
<1>5. d - 1 \in Nat /\ (d - 1) + 1 = d
  OBVIOUS
<1>6. IsObject(U, d - 1, c, New(c))
  BY <1>2, <1>3, <1>4, CellsAreSound, DefaultFits DEF IsObject
<1> QED
  BY <1>5, <1>6, ObjectsByNesting

------------------------------------------------------------------------------
(* The methods on an object are those on the objects inside.  The constants *)
(* Inner_... are what a method calls for them, and for an object of any     *)
(* nesting that is the method itself: there is one solution to these        *)
(* equations, by recursion over the nesting (over depth and the length for  *)
(* a reader), and it is the value that the configurations give to them.     *)

InnerMergeFrom ==
  \A d \in Nat : \A c \in Classes : \A to : \A m \in Whole(d, c) :
    Inner_MergeFrom(c, to, m) = MergeFrom(c, to, m)

InnerAccessed ==
  \A d \in Nat : \A c \in Classes : \A m \in Whole(d, c) : Inner_Accessed(c, m) = Accessed(c, m)

\* MergeFrom and CopyFrom.
LEMMA ChoiceContents ==
  ASSUME NEW below, NEW cell, cell.cell = "choice", NEW v \in Contents(below, cell), v # NOT_SET
  PROVE  \E k \in DOMAIN cell.of : \E x \in ElementsOf(below, cell.of[k]) :
            v = [case |-> k, value |-> x]
BY DEF Contents

LEMMA ContentsOfChoice ==
  ASSUME NEW below, NEW cell, cell.cell = "choice", NEW k \in DOMAIN cell.of,
         NEW x \in ElementsOf(below, cell.of[k])
  PROVE  [case |-> k, value |-> x] \in Contents(below, cell)
BY DEF Contents

LEMMA PointerContents ==
  ASSUME NEW below, NEW cell, cell.cell = "pointer", NEW v \in Contents(below, cell), v # <<>>
  PROVE  \E m \in below[cell.of] : v = <<m>>
BY DEF Contents

LEMMA MergeIntoDefault ==
  ASSUME InnerMergeFrom, NEW d \in Nat, NEW cell, SoundCell(cell),
         NEW v \in Contents(Nested({})[d], cell),
         \A c \in Classes : \A m \in Whole(d, c) : MergeFrom(c, New(c), m) = m
  PROVE  MergeMember(cell, Default(cell), v) = v
<1>1. CASE cell.cell \in {"text", "number"}
  BY <1>1, SMT DEF MergeMember
<1>2. CASE cell.cell = "repeated"
  <2>1. v \in Seq(ElementsOf(Nested({})[d], cell.of))
    BY <1>2 DEF Contents
  <2>2. <<>> \o v = v
    BY <2>1, ConcatEmptySeq
  <2> QED
    BY <1>2, <2>2, DefaultValues DEF MergeMember
<1>3. CASE cell.cell = "map"
  <2>1. v \in Maps(ElementsOf(Nested({})[d], cell.key), ElementsOf(Nested({})[d], cell.of))
    BY <1>3 DEF Contents
  <2>2. v = [k \in DOMAIN v |-> v[k]]
    BY <2>1 DEF Maps
  <2>3. Over(v, <<>>) = v
    BY <2>2 DEF Over
  <2> QED
    BY <1>3, <2>3, DefaultValues DEF MergeMember
<1>4. CASE cell.cell = "choice"
  <2>1. Default(cell) = NOT_SET
    BY <1>4, DefaultValues
  <2>2. MergeMember(cell, NOT_SET, v) = MergeKind(cell, NOT_SET, v)
    BY <1>4 DEF MergeMember
  <2>3. CASE v = NOT_SET
    BY <2>1, <2>2, <2>3 DEF MergeKind
  <2>4. CASE v # NOT_SET
    <3>1. PICK k \in DOMAIN cell.of : \E x \in ElementsOf(Nested({})[d], cell.of[k]) :
            v = [case |-> k, value |-> x]
      BY <1>4, <2>4, ChoiceContents
    <3>2. PICK x \in ElementsOf(Nested({})[d], cell.of[k]) : v = [case |-> k, value |-> x]
      BY <3>1
    <3>3. k # "NOT_SET" /\ SoundElement(cell.of[k])
      BY <1>4 DEF SoundCell
    <3>4. v.case = k /\ v.value = x /\ NOT_SET.case = "NOT_SET"
      BY <3>2 DEF NOT_SET
    <3>5. CASE cell.of[k].cell # "object"
      BY <2>1, <2>2, <2>4, <3>4, <3>5 DEF MergeKind
    <3>6. CASE cell.of[k].cell = "object"
      <4>1. PICK c : c = cell.of[k].of
        OBVIOUS
      <4>2. c \in Classes /\ x \in Whole(d, c)
        BY <3>3, <3>6, <4>1 DEF SoundElement, ElementsOf, Whole, Objects
      <4>3. Inner_MergeFrom(c, New(c), x) = x
        BY <4>2 DEF InnerMergeFrom
      <4>4. MergeKind(cell, NOT_SET, v) = [v EXCEPT !.value = Inner_MergeFrom(c, New(c), x)]
        BY <2>4, <3>3, <3>4, <3>6, <4>1 DEF MergeKind
      <4>5. [v EXCEPT !.value = x] = v
        BY <3>2
      <4> QED
        BY <2>1, <2>2, <4>3, <4>4, <4>5
    <3> QED
      BY <3>5, <3>6
  <2> QED
    BY <2>3, <2>4
<1>5. CASE cell.cell = "pointer"
  <2>1. Default(cell) = <<>>
    BY <1>5, DefaultValues
  <2>2. CASE v = <<>>
    BY <1>5, <2>1, <2>2 DEF MergeMember
  <2>3. CASE v # <<>>
    <3>1. PICK m \in Nested({})[d][cell.of] : v = <<m>>
      BY <1>5, <2>3, PointerContents
    <3>2. cell.of \in Classes /\ m \in Whole(d, cell.of) /\ v[1] = m
      BY <1>5, <3>1 DEF SoundCell, Whole, Objects
    <3>3. Inner_MergeFrom(cell.of, New(cell.of), m) = m
      BY <3>2 DEF InnerMergeFrom
    <3>4. MergeMember(cell, <<>>, v) = <<Inner_MergeFrom(cell.of, New(cell.of), v[1])>>
      BY <1>5, <2>3 DEF MergeMember
    <3> QED
      BY <2>1, <3>1, <3>2, <3>3, <3>4
  <2> QED
    BY <2>2, <2>3
<1> QED
  BY <1>1, <1>2, <1>3, <1>4, <1>5 DEF SoundCell

LEMMA NewMembers ==
  ASSUME NEW c \in Classes
  PROVE  /\ New(c) = [f \in Members(c) |-> New(c)[f]] /\ DOMAIN New(c) = Members(c)
         /\ New(c)["unknown_fields"] = <<>>
         /\ \A f \in DOMAIN Cells[c] : f # "unknown_fields" /\ New(c)[f] = Default(Cells[c][f])
<1>1. \A f \in DOMAIN Cells[c] : f # "unknown_fields"
  BY Tables DEF TableOf
<1> QED
  BY <1>1 DEF New, Members

\* The parts of an object of nesting d + 1 that is whole.
LEMMA WholeParts ==
  ASSUME NEW d \in Nat, NEW c \in Classes, NEW m \in Whole(d + 1, c)
  PROVE  /\ m = [f \in Members(c) |-> m[f]] /\ DOMAIN m = Members(c)
         /\ m["unknown_fields"] = <<>> /\ m.unknown_fields = <<>>
         /\ \A f \in DOMAIN Cells[c] : f # "unknown_fields" /\ m[f] \in Contents(Nested({})[d], Cells[c][f])
<1>1. IsObject({}, d, c, m)
  BY ObjectsByNesting DEF Whole
<1>2. m = [f \in Members(c) |-> m[f]] /\ m["unknown_fields"] \in Seq({})
  BY <1>1 DEF IsObject
<1>3. \A s \in Seq({}) : s = <<>>
  <2> SUFFICES ASSUME NEW s \in Seq({}) PROVE s = <<>>
    OBVIOUS
  <2>1. Len(s) = 0
    <3> SUFFICES ASSUME Len(s) # 0 PROVE FALSE
      OBVIOUS
    <3>1. 1 \in 1 .. Len(s) /\ s \in [1 .. Len(s) -> {}]
      BY LenProperties
    <3> QED
      BY <3>1
  <2> QED
    BY <2>1, EmptySeq
<1>4. \A f \in DOMAIN Cells[c] : f # "unknown_fields"
  BY NewMembers
<1> QED
  BY <1>1, <1>2, <1>3, <1>4 DEF IsObject

\* An object is equal to what a new one becomes that it is merged into.
LEMMA MergeIntoNew ==
  ASSUME InnerMergeFrom, NEW d \in Nat, NEW c \in Classes, NEW m \in Whole(d, c)
  PROVE  MergeFrom(c, New(c), m) = m
<1>1. PICK T : T = {n \in Nat : \A x \in Classes : \A o \in Whole(n, x) : MergeFrom(x, New(x), o) = o}
  OBVIOUS
<1>2. 0 \in T
  BY <1>1, ObjectsByNesting DEF Whole
<1>3. ASSUME NEW n \in Nat, n \in T PROVE n + 1 \in T
  <2> SUFFICES ASSUME NEW x \in Classes, NEW o \in Whole(n + 1, x)
               PROVE  MergeFrom(x, New(x), o) = o
    BY <1>1
  <2>1. /\ o = [f \in Members(x) |-> o[f]] /\ o["unknown_fields"] = <<>>
        /\ \A f \in DOMAIN Cells[x] : f # "unknown_fields" /\ o[f] \in Contents(Nested({})[n], Cells[x][f])
    BY WholeParts
  <2>2. \A f \in DOMAIN Cells[x] : MergeMember(Cells[x][f], New(x)[f], o[f]) = o[f]
    BY <1>1, <1>3, <2>1, NewMembers, CellsAreSound, MergeIntoDefault
  <2>3. MergeFrom(x, New(x), o) =
          [f \in Members(x) |-> IF f = "unknown_fields" THEN <<>> \o <<>>
                                ELSE MergeMember(Cells[x][f], New(x)[f], o[f])]
    BY <2>1, NewMembers DEF MergeFrom
  <2>4. \A f \in Members(x) : f # "unknown_fields" => f \in DOMAIN Cells[x]
    BY DEF Members
  <2>5. \A f \in Members(x) : o[f] = IF f = "unknown_fields" THEN <<>> \o <<>>
                                     ELSE MergeMember(Cells[x][f], New(x)[f], o[f])
    <3>1. <<>> \o <<>> = <<>>
      OBVIOUS
    <3> QED
      BY <2>1, <2>2, <2>4, <3>1
  <2> QED
    BY <2>1, <2>3, <2>5
<1>4. \A n \in Nat : n \in T
  BY <1>2, <1>3, Induction
<1> QED
  BY <1>1, <1>4

\* What is merged into a whole object leaves it whole.
LEMMA MergeFits ==
  ASSUME InnerMergeFrom, NEW d \in Nat, NEW cell, SoundCell(cell),
         NEW v \in Contents(Nested({})[d], cell), NEW w \in Contents(Nested({})[d], cell),
         \A c \in Classes : \A o, p \in Whole(d, c) : MergeFrom(c, o, p) \in Whole(d, c)
  PROVE  MergeMember(cell, v, w) \in Contents(Nested({})[d], cell)
<1>1. CASE cell.cell \in {"text", "number"}
  BY <1>1, SMT DEF MergeMember
<1>2. CASE cell.cell = "repeated"
  <2>1. PICK S : S = ElementsOf(Nested({})[d], cell.of)
    OBVIOUS
  <2>2. v \in Seq(S) /\ w \in Seq(S)
    BY <1>2, <2>1 DEF Contents
  <2>3. v \o w \in Seq(S)
    BY <2>2, ConcatProperties
  <2> QED
    BY <1>2, <2>1, <2>3 DEF MergeMember, Contents
<1>3. CASE cell.cell = "map"
  <2>1. PICK K : K = ElementsOf(Nested({})[d], cell.key)
    OBVIOUS
  <2>2. PICK S : S = ElementsOf(Nested({})[d], cell.of)
    OBVIOUS
  <2>3. v \in Maps(K, S) /\ w \in Maps(K, S)
    BY <1>3, <2>1, <2>2 DEF Contents
  <2>4. PICK D : D = DOMAIN w \cup DOMAIN v
    OBVIOUS
  <2>5. D \in SUBSET K /\ IsFiniteSet(D)
    BY <2>3, <2>4, FS_Union DEF Maps
  <2>6. Over(w, v) \in [D -> S]
    <3>1. \A k \in DOMAIN w : w[k] \in S
      BY <2>3 DEF Maps
    <3>2. \A k \in DOMAIN v : v[k] \in S
      BY <2>3 DEF Maps
    <3> QED
      BY <2>4, <3>1, <3>2 DEF Over
  <2>7. Over(w, v) \in Maps(K, S)
    BY <2>5, <2>6 DEF Maps
  <2> QED
    BY <1>3, <2>1, <2>2, <2>7 DEF MergeMember, Contents
<1>4. ASSUME NEW c \in Classes, NEW o \in Nested({})[d][c]
      PROVE  New(c) \in Whole(d, c) /\ o \in Whole(d, c)
  <2>1. o \in Whole(d, c) /\ d # 0
    BY <1>4, ObjectsByNesting DEF Whole, Objects
  <2> QED
    BY <2>1, NewIsObject DEF Whole
<1>5. ASSUME NEW c \in Classes, NEW o \in Whole(d, c), NEW p \in Whole(d, c)
      PROVE  Inner_MergeFrom(c, o, p) \in Nested({})[d][c]
  BY <1>5 DEF InnerMergeFrom, Whole, Objects
<1>6. CASE cell.cell = "choice"
  <2>1. MergeMember(cell, v, w) = MergeKind(cell, v, w)
    BY <1>6 DEF MergeMember
  <2>2. CASE w = NOT_SET
    BY <2>1, <2>2 DEF MergeKind
  <2>3. CASE w # NOT_SET
    <3>1. PICK k \in DOMAIN cell.of : \E x \in ElementsOf(Nested({})[d], cell.of[k]) :
            w = [case |-> k, value |-> x]
      BY <1>6, <2>3, ChoiceContents
    <3>2. PICK x \in ElementsOf(Nested({})[d], cell.of[k]) : w = [case |-> k, value |-> x]
      BY <3>1
    <3>3. k # "NOT_SET" /\ SoundElement(cell.of[k])
      BY <1>6 DEF SoundCell
    <3>4. w.case = k /\ w.value = x /\ NOT_SET.case = "NOT_SET"
      BY <3>2 DEF NOT_SET
    <3>5. CASE cell.of[k].cell # "object"
      BY <2>1, <2>3, <3>4, <3>5 DEF MergeKind
    <3>6. CASE cell.of[k].cell = "object"
      <4>1. PICK c : c = cell.of[k].of
        OBVIOUS
      <4>2. c \in Classes /\ ElementsOf(Nested({})[d], cell.of[k]) = Nested({})[d][c]
        BY <3>3, <3>6, <4>1 DEF SoundElement, ElementsOf
      <4>3. PICK old : old = IF v.case = w.case THEN v.value ELSE New(c)
        OBVIOUS
      <4>4. old \in Whole(d, c)
        <5>1. CASE v.case # k
          BY <1>4, <3>4, <4>2, <4>3, <5>1
        <5>2. CASE v.case = k
          <6>1. v # NOT_SET
            BY <3>3, <3>4, <5>2
          <6>2. PICK j \in DOMAIN cell.of : \E y \in ElementsOf(Nested({})[d], cell.of[j]) :
                  v = [case |-> j, value |-> y]
            BY <1>6, <6>1, ChoiceContents
          <6>3. PICK y \in ElementsOf(Nested({})[d], cell.of[j]) : v = [case |-> j, value |-> y]
            BY <6>2
          <6>4. j = k /\ v.value = y
            BY <5>2, <6>3
          <6>5. y \in Nested({})[d][c]
            BY <4>2, <6>3, <6>4
          <6> QED
            BY <1>4, <3>4, <4>2, <4>3, <5>2, <6>4, <6>5
        <5> QED
          BY <5>1, <5>2
      <4>5. x \in Whole(d, c)
        BY <1>4, <4>2
      <4>6. MergeKind(cell, v, w) = [w EXCEPT !.value = Inner_MergeFrom(c, old, x)]
        BY <2>3, <3>4, <3>6, <4>1, <4>3 DEF MergeKind
      <4>7. Inner_MergeFrom(c, old, x) \in ElementsOf(Nested({})[d], cell.of[k])
        BY <1>5, <4>2, <4>4, <4>5
      <4>8. PICK z : z = Inner_MergeFrom(c, old, x)
        OBVIOUS
      <4>9. [w EXCEPT !.value = z] = [case |-> k, value |-> z]
        BY <3>2
      <4>10. [case |-> k, value |-> z] \in Contents(Nested({})[d], cell)
        BY <1>6, <4>7, <4>8, ContentsOfChoice
      <4> QED
        BY <2>1, <4>6, <4>8, <4>9, <4>10
    <3> QED
      BY <3>5, <3>6
  <2> QED
    BY <2>2, <2>3
<1>7. CASE cell.cell = "pointer"
  <2>1. CASE w = <<>>
    BY <1>7, <2>1 DEF MergeMember
  <2>2. CASE w # <<>>
    <3>1. PICK m \in Nested({})[d][cell.of] : w = <<m>>
      BY <1>7, <2>2, PointerContents
    <3>2. PICK c : c = cell.of
      OBVIOUS
    <3>3. c \in Classes /\ m \in Whole(d, c) /\ w[1] = m
      BY <1>4, <1>7, <3>1, <3>2 DEF SoundCell
    <3>4. PICK old : old = IF v = <<>> THEN New(c) ELSE v[1]
      OBVIOUS
    <3>5. old \in Whole(d, c)
      <4>1. CASE v = <<>>
        BY <1>4, <3>1, <3>2, <3>3, <3>4, <4>1
      <4>2. CASE v # <<>>
        <5>1. PICK o \in Nested({})[d][cell.of] : v = <<o>>
          BY <1>7, <4>2, PointerContents
        <5> QED
          BY <1>4, <3>2, <3>3, <3>4, <4>2, <5>1
      <4> QED
        BY <4>1, <4>2
    <3>6. MergeMember(cell, v, w) = <<Inner_MergeFrom(c, old, m)>>
      BY <1>7, <2>2, <3>2, <3>3, <3>4 DEF MergeMember
    <3>7. Inner_MergeFrom(c, old, m) \in Nested({})[d][c]
      BY <1>5, <3>3, <3>5
    <3> QED
      BY <1>7, <3>2, <3>6, <3>7 DEF Contents
  <2> QED
    BY <2>1, <2>2
<1> QED
  BY <1>1, <1>2, <1>3, <1>6, <1>7 DEF SoundCell

LEMMA MergeKeepsWhole ==
  ASSUME InnerMergeFrom, NEW d \in Nat, NEW c \in Classes, NEW t \in Whole(d, c), NEW m \in Whole(d, c)
  PROVE  MergeFrom(c, t, m) \in Whole(d, c)
<1>1. PICK T : T = {n \in Nat : \A x \in Classes : \A o, p \in Whole(n, x) : MergeFrom(x, o, p) \in Whole(n, x)}
  OBVIOUS
<1>2. 0 \in T
  BY <1>1, ObjectsByNesting DEF Whole
<1>3. ASSUME NEW n \in Nat, n \in T PROVE n + 1 \in T
  <2> SUFFICES ASSUME NEW x \in Classes, NEW o \in Whole(n + 1, x), NEW p \in Whole(n + 1, x)
               PROVE  MergeFrom(x, o, p) \in Whole(n + 1, x)
    BY <1>1
  <2>1. PICK r : r = MergeFrom(x, o, p)
    OBVIOUS
  <2>2. r = [f \in Members(x) |-> IF f = "unknown_fields" THEN o[f] \o p[f]
                                  ELSE MergeMember(Cells[x][f], o[f], p[f])]
    BY <2>1, WholeParts DEF MergeFrom
  <2>3. r = [f \in Members(x) |-> r[f]]
    BY <2>2
  <2>4. "unknown_fields" \in Members(x) /\ \A f \in DOMAIN Cells[x] : f \in Members(x)
    BY DEF Members
  <2>5. r["unknown_fields"] \in Seq({})
    <3>1. r["unknown_fields"] = <<>> \o <<>>
      BY <2>2, <2>4, WholeParts
    <3> QED
      BY <3>1, EmptySeq
  <2>6. ASSUME NEW f \in DOMAIN Cells[x] PROVE r[f] \in Contents(Nested({})[n], Cells[x][f])
    <3>1. o[f] \in Contents(Nested({})[n], Cells[x][f]) /\ p[f] \in Contents(Nested({})[n], Cells[x][f])
          /\ f # "unknown_fields"
      BY WholeParts
    <3>2. SoundCell(Cells[x][f])
      BY CellsAreSound
    <3>3. MergeMember(Cells[x][f], o[f], p[f]) \in Contents(Nested({})[n], Cells[x][f])
      BY <1>1, <1>3, <3>1, <3>2, MergeFits
    <3> QED
      BY <2>2, <2>4, <3>1, <3>3
  <2>7. IsObject({}, n, x, r)
    BY <2>3, <2>5, <2>6 DEF IsObject
  <2> QED
    BY <2>1, <2>7, ObjectsByNesting DEF Whole
<1>4. \A n \in Nat : n \in T
  BY <1>2, <1>3, Induction
<1> QED
  BY <1>1, <1>4

\* The accessors: what they leave has at most one nesting more.
LEMMA PutIsMap ==
  ASSUME NEW K, NEW S, NEW map \in Maps(K, S), NEW k \in K, NEW v \in S
  PROVE  Put(map, k, v) \in Maps(K, S)
<1>1. PICK D : D = DOMAIN map \cup {k}
  OBVIOUS
<1>2. D \in SUBSET K /\ IsFiniteSet(D) /\ \A j \in DOMAIN map : map[j] \in S
  BY <1>1, FS_AddElement DEF Maps
<1>3. Put(map, k, v) \in [D -> S]
  BY <1>1, <1>2 DEF Put
<1> QED
  BY <1>2, <1>3 DEF Maps

LEMMA FreshFits ==
  ASSUME NEW d \in Nat, NEW cell, SoundElement(cell)
  PROVE  Fresh(cell) \subseteq ElementsOf(Nested({})[d + 1], cell)
<1>1. CASE cell.cell = "text"
  BY <1>1 DEF Fresh, ElementsOf
<1>2. CASE cell.cell = "number"
  BY <1>2 DEF Fresh, NumbersOf, ElementsOf
<1>3. CASE cell.cell = "object" /\ cell.of \in Classes
  <2>1. New(cell.of) \in Objects({}, d + 1, cell.of)
    BY <1>3, NewIsObject
  <2>2. Fresh(cell) = {New(cell.of)}
    BY <1>3 DEF Fresh
  <2>3. ElementsOf(Nested({})[d + 1], cell) = Nested({})[d + 1][cell.of]
    BY <1>3 DEF ElementsOf
  <2> QED
    BY <2>1, <2>2, <2>3 DEF Objects
<1> QED
  BY <1>1, <1>2, <1>3 DEF SoundElement

\* Of a member, the least that must be known of its elements.
LEMMA AccessFits ==
  ASSUME NEW d \in Nat, NEW cell, SoundCell(cell),
         NEW v \in Contents(Nested({})[d], cell),
         \A c \in Classes : \A o \in Whole(d, c) : Inner_Accessed(c, o) \subseteq Whole(d + 1, c)
  PROVE  AccessedMember(cell, v) \subseteq Contents(Nested({})[d + 1], cell)
<1>1. v \in Contents(Nested({})[d + 1], cell)
  <2>1. \A c \in Classes : Nested({})[d][c] \subseteq Nested({})[d + 1][c]
    BY ObjectsGrow DEF Objects
  <2> QED
    BY <2>1, ContentsGrow
<1>2. ASSUME NEW x, SoundElement(x) PROVE Fresh(x) \subseteq ElementsOf(Nested({})[d + 1], x)
  BY <1>2, FreshFits
<1>3. ASSUME NEW x, SoundElement(x), NEW e \in ElementsOf(Nested({})[d], x)
      PROVE  Changed(x, e) \subseteq ElementsOf(Nested({})[d + 1], x)
  <2>1. CASE x.cell = "object"
    <3>1. x.of \in Classes
      BY <1>3, <2>1 DEF SoundElement
    <3>2. e \in Whole(d, x.of)
      BY <1>3, <2>1 DEF ElementsOf, Whole, Objects
    <3>3. Inner_Accessed(x.of, e) \subseteq Whole(d + 1, x.of)
      BY <3>1, <3>2
    <3>4. ElementsOf(Nested({})[d + 1], x) = Whole(d + 1, x.of)
      BY <2>1 DEF ElementsOf, Whole, Objects
    <3> QED
      BY <2>1, <3>3, <3>4 DEF Changed
  <2>2. CASE x.cell # "object"
    BY <1>2, <1>3, <2>2 DEF Changed
  <2> QED
    BY <2>1, <2>2
<1>4. CASE cell.cell \in {"text", "number"}
  <2>1. Contents(Nested({})[d + 1], cell) = ElementsOf(Nested({})[d + 1], cell) /\ SoundElement(cell)
    BY <1>4 DEF Contents, SoundElement
  <2>2. AccessedMember(cell, v) = Fresh(cell)
    BY <1>4 DEF AccessedMember
  <2> QED
    BY <1>2, <2>1, <2>2
<1>5. CASE cell.cell = "pointer"
  <2>1. PICK c : c = cell.of /\ c \in Classes
    BY <1>5 DEF SoundCell
  <2>2. Contents(Nested({})[d + 1], cell) = {<<>>} \cup {<<m>> : m \in Whole(d + 1, c)}
    BY <1>5, <2>1 DEF Contents, Whole, Objects
  <2>3. CASE v = <<>>
    <3>1. New(c) \in Whole(d + 1, c)
      BY <2>1, NewIsObject DEF Whole
    <3>2. AccessedMember(cell, v) = {<<New(c)>>}
      BY <1>5, <2>1, <2>3 DEF AccessedMember
    <3> QED
      BY <2>2, <3>1, <3>2
  <2>4. CASE v # <<>>
    <3>1. PICK o \in Nested({})[d][c] : v = <<o>>
      BY <1>5, <2>1, <2>4, PointerContents
    <3>2. Inner_Accessed(c, o) \subseteq Whole(d + 1, c) /\ v[1] = o
      BY <2>1, <3>1 DEF Whole, Objects
    <3>3. AccessedMember(cell, v) = {<<>>} \cup {<<new>> : new \in Inner_Accessed(c, v[1])}
      BY <1>5, <2>1, <2>4 DEF AccessedMember
    <3> QED
      BY <2>2, <3>2, <3>3
  <2> QED
    BY <2>3, <2>4
<1>6. CASE cell.cell = "repeated"
  <2>1. PICK x : x = cell.of /\ SoundElement(x)
    BY <1>6 DEF SoundCell
  <2>2. PICK S : S = ElementsOf(Nested({})[d + 1], x)
    OBVIOUS
  <2>3. Contents(Nested({})[d + 1], cell) = Seq(S)
    BY <1>6, <2>1, <2>2 DEF Contents
  <2>4. v \in Seq(S)
    BY <1>1, <2>3
  <2>5. \A e \in S : Append(v, e) \in Seq(S)
    BY <2>4, AppendProperties
  <2>6. \A i \in DOMAIN v : Changed(x, v[i]) \subseteq S
    <3> SUFFICES ASSUME NEW i \in DOMAIN v PROVE Changed(x, v[i]) \subseteq S
      OBVIOUS
    <3>1. v \in Seq(ElementsOf(Nested({})[d], x))
      BY <1>6, <2>1 DEF Contents
    <3>2. v[i] \in ElementsOf(Nested({})[d], x)
      BY <3>1
    <3> QED
      BY <1>3, <2>1, <2>2, <3>2
  <2>7. \A i \in DOMAIN v : \A e \in S : [v EXCEPT ![i] = e] \in Seq(S)
    BY <2>4
  <2>8. <<>> \in Seq(S)
    BY EmptySeq
  <2>9. Fresh(x) \subseteq S
    BY <1>2, <2>1, <2>2
  <2>10. AccessedMember(cell, v) =
           {<<>>}
           \cup {Append(v, new) : new \in IF Len(v) < MaxRepeated THEN Fresh(x) ELSE {}}
           \cup UNION {{[v EXCEPT ![i] = new] : new \in Changed(x, v[i])} : i \in DOMAIN v}
    BY <1>6, <2>1 DEF AccessedMember
  <2>11. ASSUME NEW y \in AccessedMember(cell, v) PROVE y \in Seq(S)
    <3>1. \/ y = <<>>
          \/ \E new \in Fresh(x) : y = Append(v, new)
          \/ \E i \in DOMAIN v : \E new \in Changed(x, v[i]) : y = [v EXCEPT ![i] = new]
      BY <2>10, <2>11
    <3> QED
      BY <2>5, <2>6, <2>7, <2>8, <2>9, <3>1
  <2> QED
    BY <2>3, <2>11
<1>7. CASE cell.cell = "map"
  <2>1. PICK x : x = cell.of /\ SoundElement(x)
    BY <1>7 DEF SoundCell
  <2>2. PICK y : y = cell.key /\ SoundElement(y)
    BY <1>7 DEF SoundCell
  <2>3. PICK S : S = ElementsOf(Nested({})[d + 1], x)
    OBVIOUS
  <2>4. PICK K : K = ElementsOf(Nested({})[d + 1], y)
    OBVIOUS
  <2>5. Contents(Nested({})[d + 1], cell) = Maps(K, S)
    BY <1>7, <2>1, <2>2, <2>3, <2>4 DEF Contents
  <2>6. v \in Maps(K, S)
    BY <1>1, <2>5
  <2>7. Fresh(x) \subseteq S /\ Fresh(y) \subseteq K
    BY <1>2, <2>1, <2>2, <2>3, <2>4
  <2>8. \A k \in DOMAIN v : Changed(x, v[k]) \subseteq S
    <3> SUFFICES ASSUME NEW k \in DOMAIN v PROVE Changed(x, v[k]) \subseteq S
      OBVIOUS
    <3>1. v \in Maps(ElementsOf(Nested({})[d], y), ElementsOf(Nested({})[d], x))
      BY <1>7, <2>1, <2>2 DEF Contents
    <3>2. v[k] \in ElementsOf(Nested({})[d], x)
      BY <3>1 DEF Maps
    <3> QED
      BY <1>3, <2>1, <2>3, <3>2
  <2>9. \A k \in DOMAIN v : \A e \in S : [v EXCEPT ![k] = e] \in Maps(K, S)
    BY <2>6 DEF Maps
  <2>10. <<>> \in Maps(K, S)
    <3>1. Default(cell) = <<>>
      BY <1>7, DefaultValues
    <3> QED
      BY <2>5, <3>1, DefaultFits
  <2>11. AccessedMember(cell, v) =
           {<<>>}
           \cup {Put(v, key, new) : key \in Fresh(y) \ DOMAIN v,
                                    new \in IF Cardinality(DOMAIN v) < MaxRepeated
                                            THEN Fresh(x) ELSE {}}
           \cup UNION {{[v EXCEPT ![key] = new] : new \in Changed(x, v[key])} : key \in DOMAIN v}
    BY <1>7, <2>1, <2>2 DEF AccessedMember
  <2>12. ASSUME NEW z \in AccessedMember(cell, v) PROVE z \in Maps(K, S)
    <3>1. \/ z = <<>>
          \/ \E key \in Fresh(y) : \E new \in Fresh(x) : z = Put(v, key, new)
          \/ \E key \in DOMAIN v : \E new \in Changed(x, v[key]) : z = [v EXCEPT ![key] = new]
      BY <2>11, <2>12
    <3> QED
      BY <2>6, <2>7, <2>8, <2>9, <2>10, <3>1, PutIsMap
  <2> QED
    BY <2>5, <2>12
<1>8. CASE cell.cell = "choice"
  <2> SUFFICES ASSUME NEW y \in AccessedMember(cell, v)
               PROVE  y \in Contents(Nested({})[d + 1], cell)
    OBVIOUS
  <2>1. \A k \in DOMAIN cell.of : k # "NOT_SET" /\ SoundElement(cell.of[k])
    BY <1>8 DEF SoundCell
  <2>2. AccessedMember(cell, v) =
          {NOT_SET} \cup
          UNION {{[case |-> k, value |-> new] :
                    new \in IF v.case = k THEN Changed(cell.of[k], v.value) ELSE Fresh(cell.of[k])} :
                 k \in DOMAIN cell.of}
    BY <1>8 DEF AccessedMember
  <2>3. CASE y = NOT_SET
    BY <1>8, <2>3 DEF Contents
  <2>4. CASE y # NOT_SET
    <3>1. PICK k \in DOMAIN cell.of :
            \E new \in IF v.case = k THEN Changed(cell.of[k], v.value) ELSE Fresh(cell.of[k]) :
              y = [case |-> k, value |-> new]
      BY <2>2, <2>4
    <3>2. PICK new \in IF v.case = k THEN Changed(cell.of[k], v.value) ELSE Fresh(cell.of[k]) :
            y = [case |-> k, value |-> new]
      BY <3>1
    <3>3. new \in ElementsOf(Nested({})[d + 1], cell.of[k])
      <4>1. CASE v.case # k
        BY <1>2, <2>1, <3>2, <4>1
      <4>2. CASE v.case = k
        <5>1. v # NOT_SET
          BY <2>1, <4>2 DEF NOT_SET
        <5>2. PICK j \in DOMAIN cell.of : \E e \in ElementsOf(Nested({})[d], cell.of[j]) :
                v = [case |-> j, value |-> e]
          BY <1>8, <5>1, ChoiceContents
        <5>3. PICK e \in ElementsOf(Nested({})[d], cell.of[j]) : v = [case |-> j, value |-> e]
          BY <5>2
        <5>4. j = k /\ v.value = e
          BY <4>2, <5>3
        <5> QED
          BY <1>3, <2>1, <3>2, <4>2, <5>3, <5>4
      <4> QED
        BY <4>1, <4>2
    <3>4. [case |-> k, value |-> new] \in Contents(Nested({})[d + 1], cell)
      BY <1>8, <3>3, ContentsOfChoice
    <3> QED
      BY <3>2, <3>4
  <2> QED
    BY <2>3, <2>4
<1> QED
  BY <1>4, <1>5, <1>6, <1>7, <1>8 DEF SoundCell

LEMMA AccessedFits ==
  ASSUME InnerAccessed, NEW d \in Nat, NEW c \in Classes, NEW m \in Whole(d, c)
  PROVE  Accessed(c, m) \subseteq Whole(d + 1, c)
<1>1. PICK T : T = {n \in Nat : \A x \in Classes : \A o \in Whole(n, x) : Accessed(x, o) \subseteq Whole(n + 1, x)}
  OBVIOUS
<1>2. 0 \in T
  BY <1>1, ObjectsByNesting DEF Whole
<1>3. ASSUME NEW n \in Nat, n \in T PROVE n + 1 \in T
  <2> SUFFICES ASSUME NEW x \in Classes, NEW o \in Whole(n + 1, x), NEW r \in Accessed(x, o)
               PROVE  r \in Whole((n + 1) + 1, x)
    BY <1>1
  <2>1. \A y \in Classes : \A p \in Whole(n, y) : Inner_Accessed(y, p) \subseteq Whole(n + 1, y)
    BY <1>1, <1>3 DEF InnerAccessed
  <2>2. PICK f \in DOMAIN Cells[x] : \E v \in AccessedMember(Cells[x][f], o[f]) : r = [o EXCEPT ![f] = v]
    BY DEF Accessed
  <2>3. PICK v \in AccessedMember(Cells[x][f], o[f]) : r = [o EXCEPT ![f] = v]
    BY <2>2
  <2>4. /\ o = [g \in Members(x) |-> o[g]] /\ o["unknown_fields"] = <<>>
        /\ \A g \in DOMAIN Cells[x] : g # "unknown_fields" /\ o[g] \in Contents(Nested({})[n], Cells[x][g])
    BY WholeParts
  <2>5. v \in Contents(Nested({})[n + 1], Cells[x][f])
    <3>1. o[f] \in Contents(Nested({})[n], Cells[x][f])
      BY <2>4
    <3>2. AccessedMember(Cells[x][f], o[f]) \subseteq Contents(Nested({})[n + 1], Cells[x][f])
      BY <2>1, <3>1, CellsAreSound, AccessFits
    <3> QED
      BY <2>3, <3>2
  <2>6. o \in Whole((n + 1) + 1, x)
    BY ObjectsGrow DEF Whole
  <2>7. n + 1 \in Nat
    OBVIOUS
  <2>8. IsObject({}, n + 1, x, o)
    BY <2>6, <2>7, ObjectsByNesting DEF Whole
  <2>9. r = [g \in Members(x) |-> r[g]]
    BY <2>3, <2>4
  <2>10. r["unknown_fields"] \in Seq({})
    <3>1. r["unknown_fields"] = o["unknown_fields"]
      BY <2>3, <2>4 DEF Members
    <3> QED
      BY <2>8, <3>1 DEF IsObject
  <2>11. \A g \in DOMAIN Cells[x] : r[g] \in Contents(Nested({})[n + 1], Cells[x][g])
    <3> SUFFICES ASSUME NEW g \in DOMAIN Cells[x]
                 PROVE  r[g] \in Contents(Nested({})[n + 1], Cells[x][g])
      OBVIOUS
    <3>1. r[g] = IF g = f THEN v ELSE o[g]
      BY <2>3, <2>4 DEF Members
    <3>2. o[g] \in Contents(Nested({})[n + 1], Cells[x][g])
      BY <2>8 DEF IsObject
    <3> QED
      BY <2>5, <3>1, <3>2
  <2>12. IsObject({}, n + 1, x, r)
    BY <2>9, <2>10, <2>11 DEF IsObject
  <2> QED
    BY <2>7, <2>12, ObjectsByNesting DEF Whole
<1>4. \A n \in Nat : n \in T
  BY <1>2, <1>3, Induction
<1> QED
  BY <1>1, <1>4

------------------------------------------------------------------------------
(* What an object holds for a field. *)

ElementValues(below, coding) ==
  CASE coding.coding = "varint"            -> Numbers
    [] coding.coding \in {"utf8", "bytes"} -> Texts
    [] coding.coding = "message"           -> below[coding.of]

FieldValues(below, coding) ==
  CASE coding.coding = "packed" -> Seq(Numbers)
    [] coding.coding = "entry"  -> ElementValues(below, coding.key) \X ElementValues(below, coding.value)
    [] OTHER                    -> ElementValues(below, coding)

ElementaryCoding(coding) ==
  \/ coding.coding \in {"varint", "utf8", "bytes"}
  \/ coding.coding = "message" /\ coding.of \in Classes

SoundCoding(coding) ==
  \/ ElementaryCoding(coding)
  \/ coding.coding = "packed"
  \/ coding.coding = "entry" /\ ElementaryCoding(coding.key) /\ ElementaryCoding(coding.value)

LEMMA CodingNames ==
  /\ Varint.coding = "varint" /\ Utf8.coding = "utf8" /\ Bytes.coding = "bytes"
  /\ Packed.coding = "packed"
  /\ \A c : Msg(c).coding = "message" /\ Msg(c).of = c
  /\ \A x, y : Entry(x, y).coding = "entry" /\ Entry(x, y).key = x /\ Entry(x, y).value = y
BY DEF Varint, Utf8, Bytes, Packed, Msg, Entry

LEMMA ElementIsWritten ==
  ASSUME NEW below, NEW cell, NEW coding, ElementCoding(cell, coding)
  PROVE  /\ ElementaryCoding(coding)
         /\ ElementsOf(below, cell) = ElementValues(below, coding)
<1>1. CASE cell.cell = "text" /\ coding \in {Utf8, Bytes}
  <2>1. coding.coding \in {"utf8", "bytes"}
    BY <1>1, CodingNames
  <2> QED
    BY <1>1, <2>1 DEF ElementaryCoding, ElementsOf, ElementValues
<1>2. CASE cell.cell = "number" /\ coding = Varint
  <2>1. coding.coding = "varint"
    BY <1>2, CodingNames
  <2> QED
    BY <1>2, <2>1 DEF ElementaryCoding, ElementsOf, ElementValues
<1>3. CASE cell.cell = "object" /\ cell.of \in Classes /\ coding = Msg(cell.of)
  <2>1. coding.coding = "message" /\ coding.of = cell.of
    BY <1>3, CodingNames
  <2> QED
    BY <1>3, <2>1 DEF ElementaryCoding, ElementsOf, ElementValues
<1> QED
  BY <1>1, <1>2, <1>3 DEF ElementCoding

LEMMA ElementaryValues ==
  ASSUME NEW below, NEW coding, ElementaryCoding(coding)
  PROVE  /\ FieldValues(below, coding) = ElementValues(below, coding)
         /\ coding.coding # "packed" /\ coding.coding # "entry"
BY DEF ElementaryCoding, FieldValues

\* The keys of a finite map, each of them.
LEMMA IteratedKeys ==
  ASSUME NEW map, IsFiniteSet(DOMAIN map)
  PROVE  \E n \in Nat : /\ Iterated(map) \in [1 .. n -> DOMAIN map]
                        /\ \A k \in DOMAIN map : \E i \in 1 .. n : Iterated(map)[i] = k
<1>1. PICK D : D = DOMAIN map
  OBVIOUS
<1>2. PICK n \in Nat : n = Cardinality(D) /\ ExistsBijection(1 .. n, D)
  BY <1>1, FS_CardinalityType
<1>3. PICK g \in Bijection(1 .. n, D) : TRUE
  BY <1>2 DEF ExistsBijection
<1>4. g \in [1 .. n -> D] /\ \A k \in D : \E i \in DOMAIN g : g[i] = k
  BY <1>3 DEF Bijection, Surjection, Injection
<1>5. PICK f : f = CHOOSE keys \in [1 .. n -> D] : \A k \in D : \E i \in DOMAIN keys : keys[i] = k
  OBVIOUS
<1>6. f \in [1 .. n -> D] /\ \A k \in D : \E i \in DOMAIN f : f[i] = k
  BY <1>4, <1>5
<1>7. Iterated(map) = f
  BY <1>1, <1>2, <1>5 DEF Iterated
<1>8. DOMAIN f = 1 .. n
  BY <1>6
<1> QED
  BY <1>1, <1>6, <1>7, <1>8

LEMMA EntriesOf ==
  ASSUME NEW K, NEW S, NEW map \in Maps(K, S), NEW cell, cell.cell = "map"
  PROVE  Unpack(cell, map) \in Seq(K \X S)
<1>1. IsFiniteSet(DOMAIN map) /\ \A k \in DOMAIN map : k \in K /\ map[k] \in S
  BY DEF Maps
<1>2. PICK n \in Nat : Iterated(map) \in [1 .. n -> DOMAIN map]
  BY <1>1, IteratedKeys
<1>3. PICK keys : keys = Iterated(map)
  OBVIOUS
<1>4. Unpack(cell, map) = [i \in DOMAIN keys |-> <<keys[i], map[keys[i]]>>]
  BY <1>3, SMT DEF Unpack
<1>5. DOMAIN keys = 1 .. n /\ \A i \in 1 .. n : keys[i] \in DOMAIN map
  BY <1>2, <1>3
<1>6. [i \in 1 .. n |-> <<keys[i], map[keys[i]]>>] \in [1 .. n -> K \X S]
  BY <1>1, <1>5
<1>7. [i \in 1 .. n |-> <<keys[i], map[keys[i]]>>] \in Seq(K \X S)
  BY <1>6, IsASeq
<1> QED
  BY <1>4, <1>5, <1>7

\* Either a member of its own or what the oneof may hold.
LEMMA FieldOfMember ==
  ASSUME NEW c \in Classes, NEW i \in DOMAIN Wire[c], NEW field, field = Wire[c][i]
  PROVE  \/ /\ field.member \in DOMAIN Cells[c] /\ InMember(c, field)
            /\ MemberCoding(Cells[c][field.member], field.coding)
         \/ /\ ~InMember(c, field) /\ "kind" \in DOMAIN Cells[c] /\ Cells[c]["kind"].cell = "choice"
            /\ field.member \in DOMAIN Cells[c]["kind"].of
            /\ ElementCoding(Cells[c]["kind"].of[field.member], field.coding)
<1>1. PICK cells : cells = Cells[c]
  OBVIOUS
<1>2. FieldCoding(cells, field)
  BY <1>1, Tables DEF TableOf
<1> QED
  BY <1>1, <1>2 DEF FieldCoding, InMember

LEMMA OneIsSeq ==
  ASSUME NEW S, NEW x \in S
  PROVE  <<x>> \in Seq(S)
OBVIOUS

LEMMA MemberHeld ==
  ASSUME NEW below, NEW cell, NEW coding, MemberCoding(cell, coding), NEW v \in Contents(below, cell)
  PROVE  /\ SoundCoding(coding)
         /\ coding.coding # "packed" => Unpack(cell, v) \in Seq(FieldValues(below, coding))
         /\ coding.coding = "packed" => v \in Seq(Numbers) /\ FieldValues(below, coding) = Seq(Numbers)
<1>1. CASE cell.cell \in {"text", "number"} /\ ElementCoding(cell, coding)
  <2>1. ElementaryCoding(coding) /\ ElementsOf(below, cell) = ElementValues(below, coding)
    BY <1>1, ElementIsWritten
  <2>2. v \in FieldValues(below, coding) /\ coding.coding # "packed"
    BY <1>1, <2>1, ElementaryValues DEF Contents
  <2>3. Unpack(cell, v) \in {<<>>, <<v>>}
    BY <1>1, SMT DEF Unpack
  <2>4. <<>> \in Seq(FieldValues(below, coding)) /\ <<v>> \in Seq(FieldValues(below, coding))
    BY <2>2, EmptySeq
  <2> QED
    BY <2>1, <2>2, <2>3, <2>4 DEF SoundCoding
<1>2. CASE cell.cell = "pointer" /\ cell.of \in Classes /\ coding = Msg(cell.of)
  <2>1. coding.coding = "message" /\ coding.of = cell.of
    BY <1>2, CodingNames
  <2>2. ElementaryCoding(coding) /\ FieldValues(below, coding) = below[cell.of]
    BY <1>2, <2>1, ElementaryValues DEF ElementaryCoding, ElementValues
  <2>3. Unpack(cell, v) = v
    BY <1>2, SMT DEF Unpack
  <2>4. v \in Seq(below[cell.of])
    <3>1. CASE v = <<>>
      BY <3>1, EmptySeq
    <3>2. CASE v # <<>>
      <4>1. PICK m \in below[cell.of] : v = <<m>>
        BY <1>2, <3>2, PointerContents
      <4> QED
        BY <4>1, OneIsSeq
    <3> QED
      BY <3>1, <3>2
  <2> QED
    BY <2>1, <2>2, <2>3, <2>4 DEF SoundCoding
<1>3. CASE cell.cell = "repeated" /\ cell.of.cell = "number" /\ coding = Packed
  <2>1. coding.coding = "packed"
    BY <1>3, CodingNames
  <2>2. ElementsOf(below, cell.of) = Numbers
    BY <1>3 DEF ElementsOf
  <2>3. v \in Seq(Numbers)
    BY <1>3, <2>2 DEF Contents
  <2> QED
    BY <2>1, <2>3 DEF FieldValues, SoundCoding
<1>4. CASE cell.cell = "repeated" /\ ElementCoding(cell.of, coding)
  <2>1. ElementaryCoding(coding) /\ ElementsOf(below, cell.of) = ElementValues(below, coding)
    BY <1>4, ElementIsWritten
  <2>2. Unpack(cell, v) = v
    BY <1>4, SMT DEF Unpack
  <2>3. v \in Seq(ElementsOf(below, cell.of))
    BY <1>4 DEF Contents
  <2> QED
    BY <2>1, <2>2, <2>3, ElementaryValues DEF SoundCoding
<1>5. CASE /\ cell.cell = "map" /\ coding = Entry(coding.key, coding.value)
           /\ ElementCoding(cell.key, coding.key) /\ ElementCoding(cell.of, coding.value)
  <2>1. coding.coding = "entry"
    BY <1>5, CodingNames
  <2>2. ElementaryCoding(coding.key) /\ ElementsOf(below, cell.key) = ElementValues(below, coding.key)
    BY <1>5, ElementIsWritten
  <2>3. ElementaryCoding(coding.value) /\ ElementsOf(below, cell.of) = ElementValues(below, coding.value)
    BY <1>5, ElementIsWritten
  <2>4. v \in Maps(ElementsOf(below, cell.key), ElementsOf(below, cell.of))
    BY <1>5 DEF Contents
  <2>5. Unpack(cell, v) \in Seq(ElementsOf(below, cell.key) \X ElementsOf(below, cell.of))
    BY <1>5, <2>4, EntriesOf
  <2>6. FieldValues(below, coding) = ElementValues(below, coding.key) \X ElementValues(below, coding.value)
    BY <2>1 DEF FieldValues
  <2> QED
    BY <2>1, <2>2, <2>3, <2>5, <2>6 DEF SoundCoding
<1> QED
  BY <1>1, <1>2, <1>3, <1>4, <1>5 DEF MemberCoding

\* A sequence of values of the field's coding.
LEMMA HeldValues ==
  ASSUME NEW U, NEW d \in Nat, NEW c \in Classes, NEW m \in Objects(U, d + 1, c),
         NEW i \in DOMAIN Wire[c]
  PROVE  /\ SoundCoding(Wire[c][i].coding)
         /\ Held(c, m, Wire[c][i]) \in Seq(FieldValues(Nested(U)[d], Wire[c][i].coding))
<1>1. PICK field : field = Wire[c][i]
  OBVIOUS
<1>2. PICK coding : coding = field.coding
  OBVIOUS
<1>3. PICK below : below = Nested(U)[d]
  OBVIOUS
<1>4. \A f \in DOMAIN Cells[c] : m[f] \in Contents(below, Cells[c][f])
  BY <1>3, ObjectsByNesting DEF IsObject
<1>5. CASE /\ field.member \in DOMAIN Cells[c] /\ InMember(c, field)
           /\ MemberCoding(Cells[c][field.member], coding)
  <2>1. PICK cell : cell = Cells[c][field.member]
    OBVIOUS
  <2>2. PICK v : v = m[field.member] /\ v \in Contents(below, cell)
    BY <1>4, <1>5, <2>1
  <2>3. /\ SoundCoding(coding)
        /\ coding.coding # "packed" => Unpack(cell, v) \in Seq(FieldValues(below, coding))
        /\ coding.coding = "packed" => v \in Seq(Numbers) /\ FieldValues(below, coding) = Seq(Numbers)
    BY <1>5, <2>1, <2>2, MemberHeld
  <2>4. CASE coding.coding = "packed"
    <3>1. Held(c, m, field) = IF v = <<>> THEN <<>> ELSE <<v>>
      BY <1>2, <1>5, <2>2, <2>4 DEF Held
    <3>2. <<>> \in Seq(FieldValues(below, coding)) /\ <<v>> \in Seq(FieldValues(below, coding))
      BY <2>3, <2>4, EmptySeq
    <3> QED
      BY <1>1, <1>2, <1>3, <2>3, <3>1, <3>2
  <2>5. CASE coding.coding # "packed"
    <3>1. Held(c, m, field) = Unpack(cell, v)
      BY <1>2, <1>5, <2>1, <2>2, <2>5 DEF Held
    <3> QED
      BY <1>1, <1>2, <1>3, <2>3, <2>5, <3>1
  <2> QED
    BY <2>4, <2>5
<1>6. CASE /\ ~InMember(c, field) /\ "kind" \in DOMAIN Cells[c] /\ Cells[c]["kind"].cell = "choice"
           /\ field.member \in DOMAIN Cells[c]["kind"].of
           /\ ElementCoding(Cells[c]["kind"].of[field.member], coding)
  <2>1. PICK cell : cell = Cells[c]["kind"]
    OBVIOUS
  <2>2. PICK v : v = m["kind"] /\ v \in Contents(below, cell)
    BY <1>4, <1>6, <2>1
  <2>3. /\ ElementaryCoding(coding) /\ FieldValues(below, coding) = ElementsOf(below, cell.of[field.member])
        /\ SoundCoding(coding)
    BY <1>6, <2>1, ElementIsWritten, ElementaryValues DEF SoundCoding
  <2>4. <<>> \in Seq(FieldValues(below, coding))
    BY EmptySeq
  <2>5. Held(c, m, field) = IF v.case # field.member THEN <<>> ELSE <<v.value>>
    <3>1. Held(c, m, field) = IF m.kind.case # field.member THEN <<>>
                              ELSE UnpackKind(Cells[c].kind.of[field.member], m.kind.value)
      <4>1. field.coding.coding # "packed"
        BY <1>2, <2>3, ElementaryValues
      <4> QED
        BY <1>6, <4>1, SMT DEF Held
    <3> QED
      BY <2>2, <3>1 DEF UnpackKind
  <2>6. CASE v.case # field.member
    BY <1>1, <1>2, <1>3, <2>3, <2>4, <2>5, <2>6
  <2>7. CASE v.case = field.member
    <3>1. v # NOT_SET
      <4>1. SoundCell(cell)
        BY <1>6, <2>1, CellsAreSound
      <4>2. field.member # "NOT_SET"
        BY <1>6, <2>1, <4>1 DEF SoundCell
      <4> QED
        BY <2>7, <4>2 DEF NOT_SET
    <3>2. PICK k \in DOMAIN cell.of : \E x \in ElementsOf(below, cell.of[k]) : v = [case |-> k, value |-> x]
      <4>1. cell.cell = "choice" /\ v \in Contents(below, cell) /\ v # NOT_SET
        BY <1>6, <2>1, <2>2, <3>1
      <4>2. \E k \in DOMAIN cell.of : \E x \in ElementsOf(below, cell.of[k]) : v = [case |-> k, value |-> x]
        BY ONLY <4>1, ChoiceContents
      <4> QED
        BY <4>2
    <3>3. PICK x \in ElementsOf(below, cell.of[k]) : v = [case |-> k, value |-> x]
      BY <3>2
    <3>4. v.value \in FieldValues(below, coding)
      BY <2>3, <2>7, <3>3
    <3>5. <<v.value>> \in Seq(FieldValues(below, coding))
      BY <3>4
    <3> QED
      BY <1>1, <1>2, <1>3, <2>3, <2>5, <2>7, <3>5
  <2> QED
    BY <2>6, <2>7
<1> QED
  BY <1>1, <1>2, <1>5, <1>6, FieldOfMember

------------------------------------------------------------------------------
(* Sizes. *)

InnerSerialize ==
  \A U : \A d \in Nat : \A c \in Classes : \A m \in Objects(U, d, c) :
    Inner_Serialize(c, m) = Serialize(c, m)

InnerByteSizeLong ==
  \A d \in Nat : \A c \in Classes : \A m \in Whole(d, c) : Inner_ByteSizeLong(c, m) = ByteSizeLong(c, m)

\* Of what is written of an object, and of an entry.
Entries(c, m, i) ==
  IF Wire[c][i].coding.coding # "entry" THEN {}
  ELSE {EncodeField(Wire[c][i], v).fields : v \in Range(Held(c, m, Wire[c][i]))}

InnerSizeOf ==
  \A d \in Nat : \A c \in Classes : \A m \in Whole(d, c) :
    /\ Inner_SizeOf(Serialize(c, m)) = SizeOf(Serialize(c, m))
    /\ \A i \in DOMAIN Wire[c] : \A fields \in Entries(c, m, i) : Inner_SizeOf(fields) = SizeOf(fields)

LEMMA SizeOfConcat ==
  ASSUME NEW S, \A x \in S : PayloadSize(x) \in Nat, NEW s \in Seq(S), NEW t \in Seq(S)
  PROVE  SizeOf(s \o t) = SizeOf(s) + SizeOf(t)
<1> DEFINE Sizes(x) == [i \in DOMAIN x |-> 1 + PayloadSize(x[i])]
<1>1. PICK n \in Nat : n = Len(s) /\ DOMAIN s = 1 .. n
  BY LenProperties
<1>2. PICK k \in Nat : k = Len(t) /\ DOMAIN t = 1 .. k
  BY LenProperties
<1>3. PICK u \in Seq(S) : u = s \o t
  BY ConcatProperties
<1>4. Len(u) = n + k /\ DOMAIN u = 1 .. n + k
  BY <1>1, <1>2, <1>3, ConcatProperties, LenProperties
<1>5. (\A i \in 1 .. n : u[i] = s[i]) /\ \A j \in 1 .. k : u[n + j] = t[j]
  BY <1>1, <1>2, <1>3
<1>6. \A x \in Seq(S) : \A i \in DOMAIN x : Sizes(x)[i] \in Nat
  <2> SUFFICES ASSUME NEW x \in Seq(S), NEW i \in DOMAIN x PROVE Sizes(x)[i] \in Nat
    OBVIOUS
  <2>1. x[i] \in S
    OBVIOUS
  <2> QED
    BY <2>1
<1>7. PICK ss : ss = Sizes(s)
  OBVIOUS
<1>8. PICK st : st = Sizes(t)
  OBVIOUS
<1>9. PICK su : su = Sizes(u)
  OBVIOUS
<1>10. (\A i \in 1 .. n : ss[i] \in Nat) /\ (\A j \in 1 .. k : st[j] \in Nat) /\ \A i \in 1 .. n + k : su[i] \in Nat
  BY <1>1, <1>2, <1>4, <1>6, <1>7, <1>8, <1>9
<1>11. \A i \in 1 .. n : su[i] \in Nat /\ su[i] = ss[i]
  <2> SUFFICES ASSUME NEW i \in 1 .. n PROVE su[i] = ss[i] /\ su[i] \in Nat
    OBVIOUS
  <2>1. i \in 1 .. n + k
    OBVIOUS
  <2>2. su[i] = 1 + PayloadSize(u[i]) /\ ss[i] = 1 + PayloadSize(s[i])
    BY <1>1, <1>4, <1>7, <1>9, <2>1
  <2> QED
    BY <1>5, <1>10, <2>1, <2>2
<1>12. \A j \in 1 .. k : su[n + j] = st[j]
  <2> SUFFICES ASSUME NEW j \in 1 .. k PROVE su[n + j] = st[j]
    OBVIOUS
  <2>1. n + j \in 1 .. n + k
    OBVIOUS
  <2>2. su[n + j] = 1 + PayloadSize(u[n + j]) /\ st[j] = 1 + PayloadSize(t[j])
    BY <1>2, <1>4, <1>8, <1>9, <2>1
  <2> QED
    BY <1>5, <2>2
<1> HIDE DEF Sizes
<1>13. PICK T : T = {j \in 0 .. k : Sum(n + j, su) = Sum(n, ss) + Sum(j, st)}
  OBVIOUS
<1>14. Sum(n, ss) \in Nat /\ \A j \in 0 .. k : Sum(j, st) \in Nat
  <2>1. n \in 0 .. n
    OBVIOUS
  <2>2. Sum(n, ss) \in Nat
    BY <1>10, <2>1, SumProperties
  <2>3. \A j \in 0 .. k : Sum(j, st) \in Nat
    BY <1>10, SumProperties
  <2> QED
    BY <2>2, <2>3
<1>15. 0 \in T
  <2>1. Sum(n, su) = Sum(n, ss)
    BY <1>11, SumCongruence
  <2>2. Sum(0, st) = 0
    BY <1>10, SumProperties
  <2> QED
    BY <1>13, <1>14, <2>1, <2>2
<1>16. ASSUME NEW j \in 1 .. k, j - 1 \in T PROVE j \in T
  <2>1. n + j \in 1 .. n + k /\ (n + j) - 1 = n + (j - 1) /\ n + k \in Nat
    OBVIOUS
  <2>2. Sum(n + j, su) = Sum((n + j) - 1, su) + su[n + j]
    BY <1>10, <2>1, SumProperties
  <2>3. Sum(j, st) = Sum(j - 1, st) + st[j]
    BY <1>10, SumProperties
  <2>4. Sum(n + (j - 1), su) = Sum(n, ss) + Sum(j - 1, st)
    BY <1>13, <1>16
  <2>5. st[j] \in Nat /\ Sum(j - 1, st) \in Nat
    <3>1. j - 1 \in 0 .. k
      OBVIOUS
    <3> QED
      BY <1>10, <1>14, <3>1
  <2> QED
    BY <1>12, <1>13, <1>14, <2>1, <2>2, <2>3, <2>4, <2>5, SMTT(30)
<1>17. Sum(n + k, su) = Sum(n, ss) + Sum(k, st)
  <2>1. \A j \in 0 .. k : j \in T
    BY <1>15, <1>16, InductionTo
  <2>2. k \in 0 .. k
    OBVIOUS
  <2> QED
    BY <1>13, <2>1, <2>2
<1> USE DEF Sizes
<1>18. SizeOf(s) = Sum(n, ss) /\ SizeOf(t) = Sum(k, st) /\ SizeOf(u) = Sum(n + k, su)
  BY <1>1, <1>2, <1>4, <1>7, <1>8, <1>9 DEF SizeOf
<1> QED
  BY <1>3, <1>17, <1>18

LEMMA SizeOfNat ==
  ASSUME NEW S, \A x \in S : PayloadSize(x) \in Nat, NEW s \in Seq(S)
  PROVE  SizeOf(s) \in Nat
<1>1. PICK n \in Nat : n = Len(s) /\ DOMAIN s = 1 .. n
  BY LenProperties
<1>2. PICK f : f = [i \in DOMAIN s |-> 1 + PayloadSize(s[i])]
  OBVIOUS
<1>3. \A i \in 1 .. n : f[i] \in Nat
  <2> SUFFICES ASSUME NEW i \in 1 .. n PROVE f[i] \in Nat
    OBVIOUS
  <2>1. s[i] \in S
    BY <1>1
  <2> QED
    BY <1>1, <1>2, <2>1
<1>4. SizeOf(s) = Sum(n, f)
  BY <1>1, <1>2 DEF SizeOf
<1>5. n \in 0 .. n
  OBVIOUS
<1> QED
  BY <1>3, <1>4, <1>5, SumProperties

LEMMA SizeOfNone == SizeOf(<<>>) = 0
<1>1. PICK f : f = [i \in DOMAIN <<>> |-> 1 + PayloadSize(<<>>[i])]
  OBVIOUS
<1>2. SizeOf(<<>>) = Sum(0, f)
  BY <1>1 DEF SizeOf
<1>3. \A i \in 1 .. 0 : f[i] \in Nat
  OBVIOUS
<1> QED
  BY <1>2, <1>3, SumProperties

LEMMA SizeOfTwo ==
  ASSUME NEW x, NEW y, PayloadSize(x) \in Nat, PayloadSize(y) \in Nat
  PROVE  SizeOf(<<x, y>>) = 2 + PayloadSize(x) + PayloadSize(y)
<1>1. PICK f : f = [i \in 1 .. 2 |-> 1 + PayloadSize(<<x, y>>[i])]
  OBVIOUS
<1>2. f[1] = 1 + PayloadSize(x) /\ f[2] = 1 + PayloadSize(y)
  BY <1>1
<1>3. \A i \in 1 .. 2 : f[i] \in Nat
  BY <1>2
<1>4. Sum(0, f) = 0 /\ Sum(1, f) = Sum(1 - 1, f) + f[1] /\ Sum(2, f) = Sum(2 - 1, f) + f[2]
  BY <1>3, SumProperties
<1>5. SizeOf(<<x, y>>) = Sum(2, f)
  BY <1>1 DEF SizeOf
<1> QED
  BY <1>2, <1>4, <1>5

LEMMA SizesNat ==
  /\ \A n \in Int : VarintSize(n) \in Nat
  /\ \A n \in Nat : LengthDelimited(n) \in Nat
  /\ \A text \in Texts : TextLength[text] \in Nat
  /\ \A n \in Numbers : n \in Int
<1>1. \A n \in Int : VarintSize(n) \in Nat
  BY DEF VarintSize
<1>2. \A n \in Nat : LengthDelimited(n) \in Nat
  BY <1>1 DEF LengthDelimited
<1> QED
  BY <1>1, <1>2, CodecAssumption

LEMMA PayloadOf ==
  ASSUME NEW number, NEW v
  PROVE  /\ PayloadSize([number |-> number, int |-> v]) = VarintSize(v)
         /\ PayloadSize([number |-> number, text |-> v]) = LengthDelimited(TextLength[v])
         /\ PayloadSize([number |-> number, ints |-> v]) = PackedSize(v)
         /\ PayloadSize([number |-> number, fields |-> v]) = LengthDelimited(Inner_SizeOf(v))
<1>1. PayloadSize([number |-> number, int |-> v]) = VarintSize(v)
  BY SMT DEF PayloadSize
<1>2. PayloadSize([number |-> number, text |-> v]) = LengthDelimited(TextLength[v])
  BY SMT DEF PayloadSize
<1>3. PayloadSize([number |-> number, ints |-> v]) = PackedSize(v)
  <2>1. PICK x : x = [number |-> number, ints |-> v]
    OBVIOUS
  <2>2. /\ "int" \notin DOMAIN x /\ "text" \notin DOMAIN x /\ "ints" \in DOMAIN x
        /\ "fields" \notin DOMAIN x /\ x.ints = v
    BY <2>1
  <2>3. PayloadSize(x) = LengthDelimited(Sum(Len(x.ints), [j \in DOMAIN x.ints |-> VarintSize(x.ints[j])]))
    BY <2>2, SMT DEF PayloadSize
  <2> QED
    BY <2>1, <2>2, <2>3 DEF PackedSize
<1>4. PayloadSize([number |-> number, fields |-> v]) = LengthDelimited(Inner_SizeOf(v))
  BY SMT DEF PayloadSize
<1> QED
  BY <1>1, <1>2, <1>3, <1>4

LEMMA PackedSizeNat ==
  ASSUME NEW v \in Seq(Numbers)
  PROVE  PackedSize(v) \in Nat
<1>1. PICK n \in Nat : n = Len(v) /\ DOMAIN v = 1 .. n
  BY LenProperties
<1>2. PICK f : f = [i \in DOMAIN v |-> VarintSize(v[i])]
  OBVIOUS
<1>3. \A i \in 1 .. n : f[i] \in Nat
  <2> SUFFICES ASSUME NEW i \in 1 .. n PROVE f[i] \in Nat
    OBVIOUS
  <2>1. v[i] \in Numbers
    BY <1>1
  <2> QED
    BY <1>1, <1>2, <2>1, SizesNat
<1>4. n \in 0 .. n
  OBVIOUS
<1>5. Sum(n, f) \in Nat
  BY <1>3, <1>4, SumProperties
<1>6. PackedSize(v) = LengthDelimited(Sum(n, f))
  BY <1>1, <1>2 DEF PackedSize
<1> QED
  BY <1>5, <1>6, SizesNat

\* An element takes as many bytes as were counted for it.
LEMMA ElementSize ==
  ASSUME InnerByteSizeLong, InnerSerialize, InnerSizeOf,
         NEW d \in Nat, NEW coding, ElementaryCoding(coding),
         NEW v \in ElementValues(Nested({})[d], coding), NEW number,
         \A c \in Classes : \A o \in Whole(d, c) :
           ByteSizeLong(c, o) \in Nat /\ ByteSizeLong(c, o) = SizeOf(Serialize(c, o))
  PROVE  /\ ValueSize(coding, v) \in Nat
         /\ PayloadSize(Encode(number, coding, v)) = ValueSize(coding, v)
<1>1. CASE coding.coding = "varint"
  <2>1. v \in Numbers
    BY <1>1 DEF ElementValues
  <2>2. ValueSize(coding, v) = VarintSize(v)
    BY <1>1, SMT DEF ValueSize
  <2>3. Encode(number, coding, v) = [number |-> number, int |-> v]
    BY <1>1, SMT DEF Encode
  <2> QED
    BY <2>1, <2>2, <2>3, PayloadOf, SizesNat
<1>2. CASE coding.coding \in {"utf8", "bytes"}
  <2>1. v \in Texts
    BY <1>2 DEF ElementValues
  <2>2. ValueSize(coding, v) = LengthDelimited(TextLength[v])
    BY <1>2, SMT DEF ValueSize
  <2>3. Encode(number, coding, v) = [number |-> number, text |-> v]
    BY <1>2, SMT DEF Encode
  <2> QED
    BY <2>1, <2>2, <2>3, PayloadOf, SizesNat
<1>3. CASE coding.coding = "message" /\ coding.of \in Classes
  <2>1. PICK c \in Classes : c = coding.of
    BY <1>3
  <2>2. v \in Whole(d, c)
    BY <1>3, <2>1 DEF ElementValues, Whole, Objects
  <2>3. ValueSize(coding, v) = LengthDelimited(Inner_ByteSizeLong(c, v))
    BY <1>3, <2>1, SMT DEF ValueSize
  <2>4. Inner_ByteSizeLong(c, v) = ByteSizeLong(c, v)
    BY <2>2 DEF InnerByteSizeLong
  <2>5. Encode(number, coding, v) = [number |-> number, fields |-> Inner_Serialize(c, v)]
    BY <1>3, <2>1, SMT DEF Encode
  <2>6. Inner_Serialize(c, v) = Serialize(c, v)
    BY <2>2 DEF InnerSerialize, Whole
  <2>7. Inner_SizeOf(Serialize(c, v)) = SizeOf(Serialize(c, v))
    BY <2>2 DEF InnerSizeOf
  <2>8. PayloadSize([number |-> number, fields |-> Serialize(c, v)]) = LengthDelimited(Inner_SizeOf(Serialize(c, v)))
    BY PayloadOf
  <2>9. ByteSizeLong(c, v) \in Nat /\ ByteSizeLong(c, v) = SizeOf(Serialize(c, v))
    BY <2>2
  <2>10. LengthDelimited(ByteSizeLong(c, v)) \in Nat
    BY <2>9, SizesNat
  <2> QED
    BY <2>3, <2>4, <2>5, <2>6, <2>7, <2>8, <2>9, <2>10
<1> QED
  BY <1>1, <1>2, <1>3 DEF ElementaryCoding

LEMMA CodingSize ==
  ASSUME InnerByteSizeLong, InnerSerialize, InnerSizeOf,
         NEW d \in Nat, NEW field, SoundCoding(field.coding),
         NEW v \in FieldValues(Nested({})[d], field.coding),
         field.coding.coding = "entry" =>
           Inner_SizeOf(EncodeField(field, v).fields) = SizeOf(EncodeField(field, v).fields),
         \A c \in Classes : \A o \in Whole(d, c) :
           ByteSizeLong(c, o) \in Nat /\ ByteSizeLong(c, o) = SizeOf(Serialize(c, o))
  PROVE  /\ FieldSize(field.coding, v) \in Nat /\ PayloadSize(EncodeField(field, v)) \in Nat
         /\ FieldSize(field.coding, v) = 1 + PayloadSize(EncodeField(field, v))
<1>1. PICK coding : coding = field.coding
  OBVIOUS
<1>2. CASE ElementaryCoding(coding)
  <2>1. v \in ElementValues(Nested({})[d], coding) /\ coding.coding # "entry"
    BY <1>1, <1>2, ElementaryValues
  <2>2. /\ ValueSize(coding, v) \in Nat
        /\ PayloadSize(Encode(field.number, coding, v)) = ValueSize(coding, v)
    BY <1>2, <2>1, ElementSize
  <2>3. FieldSize(coding, v) = 1 + ValueSize(coding, v)
    BY <2>1 DEF FieldSize
  <2>4. EncodeField(field, v) = Encode(field.number, coding, v)
    BY <1>1, <2>1 DEF EncodeField
  <2> QED
    BY <1>1, <2>2, <2>3, <2>4
<1>3. CASE coding.coding = "packed"
  <2>1. v \in Seq(Numbers)
    BY <1>1, <1>3 DEF FieldValues
  <2>2. ValueSize(coding, v) = PackedSize(v)
    BY <1>3, SMT DEF ValueSize
  <2>3. Encode(field.number, coding, v) = [number |-> field.number, ints |-> v]
    BY <1>3, SMT DEF Encode
  <2>4. FieldSize(coding, v) = 1 + ValueSize(coding, v)
    BY <1>3 DEF FieldSize
  <2>5. EncodeField(field, v) = Encode(field.number, coding, v)
    BY <1>1, <1>3 DEF EncodeField
  <2>6. PackedSize(v) \in Nat
    BY <2>1, PackedSizeNat
  <2>7. PayloadSize(EncodeField(field, v)) = PackedSize(v)
    BY <2>3, <2>5, PayloadOf
  <2> QED
    BY <1>1, <2>2, <2>4, <2>6, <2>7
<1>4. CASE coding.coding = "entry" /\ ElementaryCoding(coding.key) /\ ElementaryCoding(coding.value)
  <2>1. v[1] \in ElementValues(Nested({})[d], coding.key) /\ v[2] \in ElementValues(Nested({})[d], coding.value)
    BY <1>1, <1>4 DEF FieldValues
  <2>2. PICK x : x = Encode(1, coding.key, v[1])
    OBVIOUS
  <2>3. PICK y : y = Encode(2, coding.value, v[2])
    OBVIOUS
  <2>4. ValueSize(coding.key, v[1]) \in Nat /\ PayloadSize(x) = ValueSize(coding.key, v[1])
    BY <1>4, <2>1, <2>2, ElementSize
  <2>5. ValueSize(coding.value, v[2]) \in Nat /\ PayloadSize(y) = ValueSize(coding.value, v[2])
    BY <1>4, <2>1, <2>3, ElementSize
  <2>6. EncodeField(field, v) = [number |-> field.number, fields |-> <<x, y>>]
    BY <1>1, <1>4, <2>2, <2>3 DEF EncodeField
  <2>7. EncodeField(field, v).fields = <<x, y>>
    BY <2>6
  <2>8. Inner_SizeOf(<<x, y>>) = SizeOf(<<x, y>>)
    BY <1>1, <1>4, <2>7
  <2>9. SizeOf(<<x, y>>) = 2 + PayloadSize(x) + PayloadSize(y)
    BY <2>4, <2>5, SizeOfTwo
  <2>10. PayloadSize(EncodeField(field, v)) = LengthDelimited(2 + PayloadSize(x) + PayloadSize(y))
    BY <2>6, <2>8, <2>9, PayloadOf
  <2>11. FieldSize(coding, v) = 1 + LengthDelimited(2 + ValueSize(coding.key, v[1]) + ValueSize(coding.value, v[2]))
    BY <1>4 DEF FieldSize
  <2>12. PICK n \in Nat : n = 2 + PayloadSize(x) + PayloadSize(y)
    BY <2>4, <2>5
  <2>13. LengthDelimited(n) \in Nat
    BY SizesNat
  <2> QED
    BY <1>1, <2>4, <2>5, <2>10, <2>11, <2>12, <2>13
<1> QED
  BY <1>1, <1>2, <1>3, <1>4 DEF SoundCoding

\* What is written of a field, as a sequence.
LEMMA FieldsOfSeq ==
  ASSUME NEW S, NEW c, NEW m, NEW i, Held(c, m, Wire[c][i]) \in Seq(S)
  PROVE  /\ Len(FieldsOf(c, m, i)) = Len(Held(c, m, Wire[c][i]))
         /\ DOMAIN FieldsOf(c, m, i) = 1 .. Len(Held(c, m, Wire[c][i]))
         /\ \A j \in 1 .. Len(Held(c, m, Wire[c][i])) :
              FieldsOf(c, m, i)[j] = EncodeField(Wire[c][i], Held(c, m, Wire[c][i])[j])
         /\ FieldsOf(c, m, i) \in Seq(Range(FieldsOf(c, m, i)))
<1>1. PICK held \in Seq(S) : held = Held(c, m, Wire[c][i])
  OBVIOUS
<1>2. PICK n \in Nat : n = Len(held) /\ DOMAIN held = 1 .. n
  BY LenProperties
<1>3. PICK r : r = FieldsOf(c, m, i)
  OBVIOUS
<1>4. r = [j \in 1 .. n |-> EncodeField(Wire[c][i], held[j])]
  BY <1>1, <1>2, <1>3 DEF FieldsOf
<1>5. DOMAIN r = 1 .. n
  BY <1>4
<1>6. r \in [1 .. n -> Range(r)]
  <2>1. \A j \in 1 .. n : r[j] \in Range(r)
    BY <1>5 DEF Range
  <2> QED
    BY <1>4, <2>1
<1>7. r \in Seq(Range(r)) /\ Len(r) = n
  BY <1>5, <1>6, IsASeq, LenProperties
<1> QED
  BY <1>1, <1>2, <1>3, <1>4, <1>5, <1>7

\* A member takes as many bytes as were counted for it.
LEMMA MemberSizeIsExact ==
  ASSUME InnerByteSizeLong, InnerSerialize, InnerSizeOf,
         NEW d \in Nat, NEW c \in Classes, NEW m \in Whole(d + 1, c), NEW i \in DOMAIN Wire[c],
         \A x \in Classes : \A o \in Whole(d, x) :
           ByteSizeLong(x, o) \in Nat /\ ByteSizeLong(x, o) = SizeOf(Serialize(x, o))
  PROVE  /\ MemberSize(c, m, i) \in Nat /\ MemberSize(c, m, i) = SizeOf(FieldsOf(c, m, i))
         /\ \A x \in Range(FieldsOf(c, m, i)) : PayloadSize(x) \in Nat
<1>1. PICK field : field = Wire[c][i]
  OBVIOUS
<1>2. PICK S : S = FieldValues(Nested({})[d], field.coding)
  OBVIOUS
<1>3. PICK held \in Seq(S) : held = Held(c, m, field)
  BY <1>1, <1>2, HeldValues DEF Whole
<1>4. SoundCoding(field.coding)
  BY <1>1, HeldValues DEF Whole
<1>5. PICK n \in Nat : n = Len(held) /\ DOMAIN held = 1 .. n
  BY LenProperties
<1>6. PICK r : r = FieldsOf(c, m, i)
  OBVIOUS
<1>7. DOMAIN r = 1 .. n /\ Len(r) = n /\ \A j \in 1 .. n : r[j] = EncodeField(field, held[j])
  BY <1>1, <1>3, <1>5, <1>6, FieldsOfSeq
<1>8. ASSUME NEW j \in 1 .. n
      PROVE  /\ FieldSize(field.coding, held[j]) \in Nat /\ PayloadSize(r[j]) \in Nat
             /\ FieldSize(field.coding, held[j]) = 1 + PayloadSize(r[j])
  <2>1. PICK v : v = held[j]
    OBVIOUS
  <2>2. v \in FieldValues(Nested({})[d], field.coding) /\ v \in Range(held)
    BY <1>2, <1>5, <2>1 DEF Range
  <2>3. field.coding.coding = "entry" =>
           Inner_SizeOf(EncodeField(field, v).fields) = SizeOf(EncodeField(field, v).fields)
    <3> SUFFICES ASSUME field.coding.coding = "entry"
                 PROVE  Inner_SizeOf(EncodeField(field, v).fields) = SizeOf(EncodeField(field, v).fields)
      OBVIOUS
    <3>1. EncodeField(field, v).fields \in Entries(c, m, i)
      BY <1>1, <1>3, <2>2 DEF Entries
    <3>2. d + 1 \in Nat
      OBVIOUS
    <3> QED
      BY <3>1, <3>2 DEF InnerSizeOf
  <2>4. r[j] = EncodeField(field, v)
    BY <1>7, <2>1
  <2>5. /\ FieldSize(field.coding, v) \in Nat /\ PayloadSize(EncodeField(field, v)) \in Nat
        /\ FieldSize(field.coding, v) = 1 + PayloadSize(EncodeField(field, v))
    BY <1>4, <2>2, <2>3, CodingSize
  <2> QED
    BY <2>1, <2>4, <2>5
<1>9. PICK f : f = [j \in DOMAIN held |-> FieldSize(field.coding, held[j])]
  OBVIOUS
<1>10. PICK g : g = [j \in DOMAIN r |-> 1 + PayloadSize(r[j])]
  OBVIOUS
<1>11. MemberSize(c, m, i) = Sum(n, f)
  BY <1>1, <1>3, <1>5, <1>9 DEF MemberSize
<1>12. SizeOf(r) = Sum(n, g)
  BY <1>7, <1>10 DEF SizeOf
<1>13. \A j \in 1 .. n : f[j] \in Nat /\ f[j] = g[j]
  BY <1>5, <1>7, <1>8, <1>9, <1>10
<1>14. Sum(n, f) = Sum(n, g)
  BY <1>13, SumCongruence
<1>15. Sum(n, f) \in Nat
  <2>1. n \in 0 .. n
    OBVIOUS
  <2> QED
    BY <1>13, <2>1, SumProperties
<1>16. \A x \in Range(r) : PayloadSize(x) \in Nat
  BY <1>7, <1>8 DEF Range
<1> QED
  BY <1>6, <1>11, <1>12, <1>14, <1>15, <1>16

\* And so does a whole object.
LEMMA WholeSizeIsExact ==
  ASSUME InnerByteSizeLong, InnerSerialize, InnerSizeOf,
         NEW d \in Nat, NEW c \in Classes, NEW m \in Whole(d + 1, c),
         \A x \in Classes : \A o \in Whole(d, x) :
           ByteSizeLong(x, o) \in Nat /\ ByteSizeLong(x, o) = SizeOf(Serialize(x, o))
  PROVE  ByteSizeLong(c, m) \in Nat /\ ByteSizeLong(c, m) = SizeOf(Serialize(c, m))
<1>1. PICK n \in Nat : n = Len(Wire[c]) /\ DOMAIN Wire[c] = 1 .. n
  BY Tables DEF TableOf
<1>2. \A i \in 1 .. n : /\ MemberSize(c, m, i) \in Nat /\ MemberSize(c, m, i) = SizeOf(FieldsOf(c, m, i))
                        /\ \A x \in Range(FieldsOf(c, m, i)) : PayloadSize(x) \in Nat
  BY <1>1, MemberSizeIsExact
<1>3. PICK S : S = UNION {Range(FieldsOf(c, m, i)) : i \in 1 .. n}
  OBVIOUS
<1>4. \A x \in S : PayloadSize(x) \in Nat
  BY <1>2, <1>3
<1>5. \A i \in 1 .. n : FieldsOf(c, m, i) \in Seq(S)
  <2> SUFFICES ASSUME NEW i \in 1 .. n PROVE FieldsOf(c, m, i) \in Seq(S)
    OBVIOUS
  <2>1. FieldsOf(c, m, i) \in Seq(Range(FieldsOf(c, m, i)))
    BY <1>1, HeldValues, FieldsOfSeq, ZenonT(40) DEF Whole
  <2>2. Range(FieldsOf(c, m, i)) \subseteq S
    BY <1>3
  <2> QED
    BY <2>1, <2>2
<1>6. PICK F \in [0 .. n -> Seq(S)] :
        /\ F[0] = <<>> /\ \A i \in 1 .. n : F[i] = F[i - 1] \o FieldsOf(c, m, i)
        /\ KnownFields(c, m) = F[n]
  <2>1. FieldsIn(S, c, m, n)
    BY <1>5 DEF FieldsIn
  <2>2. PICK F : Written(S, c, m, n, F)
    BY <1>1, <2>1, KnownFieldsLoop
  <2> QED
    BY <2>2 DEF Written
<1>7. PICK sizes : sizes = [i \in DOMAIN Wire[c] |-> MemberSize(c, m, i)]
  OBVIOUS
<1>8. \A i \in 1 .. n : sizes[i] \in Nat /\ sizes[i] = SizeOf(FieldsOf(c, m, i))
  BY <1>1, <1>2, <1>7
<1>9. \A i \in 0 .. n : SizeOf(F[i]) = Sum(i, sizes)
  <2>1. PICK T : T = {i \in 0 .. n : SizeOf(F[i]) = Sum(i, sizes)}
    OBVIOUS
  <2>2. 0 \in T
    <3>1. \A i \in 1 .. n : sizes[i] \in Nat
      BY <1>8
    <3>2. Sum(0, sizes) = 0
      BY <3>1, SumProperties
    <3>3. 0 \in 0 .. n
      OBVIOUS
    <3> QED
      BY <1>6, <2>1, <3>2, <3>3, SizeOfNone
  <2>3. ASSUME NEW i \in 1 .. n, i - 1 \in T PROVE i \in T
    <3>1. i - 1 \in 0 .. n /\ i \in 0 .. n
      OBVIOUS
    <3>2. F[i - 1] \in Seq(S) /\ FieldsOf(c, m, i) \in Seq(S)
      BY <1>5, <1>6, <3>1
    <3>3. SizeOf(F[i - 1] \o FieldsOf(c, m, i)) = SizeOf(F[i - 1]) + SizeOf(FieldsOf(c, m, i))
      BY <1>4, <3>2, SizeOfConcat
    <3>4. Sum(i, sizes) = Sum(i - 1, sizes) + sizes[i]
      BY <1>8, SumProperties
    <3> QED
      BY <1>6, <1>8, <2>1, <2>3, <3>1, <3>3, <3>4
  <2>4. \A i \in 0 .. n : i \in T
    BY <2>2, <2>3, InductionTo
  <2> QED
    BY <2>1, <2>4
<1>10. SizeOf(KnownFields(c, m)) = Sum(n, sizes) /\ KnownFields(c, m) \in Seq(S)
  <2>1. n \in 0 .. n
    OBVIOUS
  <2> QED
    BY <1>6, <1>9, <2>1
<1>11. m.unknown_fields = <<>>
  BY WholeParts
<1>12. Serialize(c, m) = KnownFields(c, m)
  BY <1>10, <1>11, ConcatEmptySeq DEF Serialize
<1>13. Sum(n, sizes) \in Nat
  BY <1>4, <1>10, SizeOfNat
<1>14. ByteSizeLong(c, m) = 0 + Sum(n, sizes)
  BY <1>1, <1>7, <1>11, SizeOfNone DEF ByteSizeLong
<1> QED
  BY <1>10, <1>12, <1>13, <1>14

LEMMA SizesAgree ==
  ASSUME InnerByteSizeLong, InnerSerialize, InnerSizeOf,
         NEW d \in Nat, NEW c \in Classes, NEW m \in Whole(d, c)
  PROVE  ByteSizeLong(c, m) \in Nat /\ ByteSizeLong(c, m) = SizeOf(Serialize(c, m))
<1>1. PICK T : T = {n \in Nat : \A x \in Classes : \A o \in Whole(n, x) :
                      ByteSizeLong(x, o) \in Nat /\ ByteSizeLong(x, o) = SizeOf(Serialize(x, o))}
  OBVIOUS
<1>2. 0 \in T
  BY <1>1, ObjectsByNesting DEF Whole
<1>3. ASSUME NEW n \in Nat, n \in T PROVE n + 1 \in T
  <2>1. \A x \in Classes : \A o \in Whole(n, x) :
          ByteSizeLong(x, o) \in Nat /\ ByteSizeLong(x, o) = SizeOf(Serialize(x, o))
    BY <1>1, <1>3
  <2>2. \A x \in Classes : \A o \in Whole(n + 1, x) :
          ByteSizeLong(x, o) \in Nat /\ ByteSizeLong(x, o) = SizeOf(Serialize(x, o))
    BY <2>1, WholeSizeIsExact
  <2> QED
    BY <1>1, <2>2
<1>4. \A n \in Nat : n \in T
  BY <1>2, <1>3, Induction
<1> QED
  BY <1>1, <1>4

------------------------------------------------------------------------------
(* Reading. *)

InnerParse ==
  \A c \in Classes : \A t, S : \A fields \in Seq(S) : \A depth \in Nat : \A hidden :
    Inner_Parse(c, t, fields, depth, hidden) = Parse(c, t, fields, depth, hidden)

InnerReadable ==
  \A d \in Nat : \A c \in Classes : \A m \in Whole(d, c) : \A depth \in Nat :
    Inner_Readable(c, m, depth) = Readable(c, m, depth)

LEMMA ParseNone ==
  ASSUME NEW c, NEW t, NEW depth, NEW hidden
  PROVE  Parse(c, t, <<>>, depth, hidden) = <<t>>
BY DEF Parse

\* The first field and then the others.
ParsesFirst(c, t, s, x, rest, depth, hidden) ==
  Parse(c, t, s, depth, hidden) =
    IF ParseField(c, t, x, depth, hidden) = <<>> THEN <<>>
    ELSE Parse(c, ParseField(c, t, x, depth, hidden)[1], rest, depth, hidden)

LEMMA ParseSome ==
  ASSUME InnerParse, NEW c \in Classes, NEW t, NEW S, NEW s \in Seq(S), s # <<>>, NEW depth \in Nat, NEW hidden
  PROVE  ParsesFirst(c, t, s, Head(s), Tail(s), depth, hidden)
<1>1. PICK read : read = ParseField(c, t, Head(s), depth, hidden)
  OBVIOUS
<1>2. Tail(s) \in Seq(S)
  BY HeadTailProperties
<1>3. Inner_Parse(c, read[1], Tail(s), depth, hidden) = Parse(c, read[1], Tail(s), depth, hidden)
  BY <1>2 DEF InnerParse
<1> QED
  BY <1>1, <1>3 DEF Parse, ParsesFirst

LEMMA ParseOne ==
  ASSUME InnerParse, NEW c \in Classes, NEW t, NEW x, NEW depth \in Nat, NEW hidden,
         NEW ok, NEW r, ParseField(c, t, x, depth, hidden) = IF ok THEN <<r>> ELSE <<>>
  PROVE  Parse(c, t, <<x>>, depth, hidden) = IF ok THEN <<r>> ELSE <<>>
<1>1. PICK s : s = <<x>>
  OBVIOUS
<1>2. s \in Seq({x}) /\ s # <<>> /\ Head(s) = x /\ Tail(s) = <<>>
  BY <1>1
<1>4. ParsesFirst(c, t, s, Head(s), Tail(s), depth, hidden)
  BY <1>2, ParseSome
<1>5. ParsesFirst(c, t, <<x>>, x, <<>>, depth, hidden)
  BY <1>1, <1>2, <1>4
<1>3. <<r>> # <<>> /\ <<r>>[1] = r
  OBVIOUS
<1> QED
  BY <1>3, <1>5, ParseNone DEF ParsesFirst

\* Fields after fields.
ParsesInTurn(c, s, u, depth, hidden) ==
  \A t : Parse(c, t, s \o u, depth, hidden) =
           IF Parse(c, t, s, depth, hidden) = <<>> THEN <<>>
           ELSE Parse(c, Parse(c, t, s, depth, hidden)[1], u, depth, hidden)

LEMMA ParseConcat ==
  ASSUME InnerParse, NEW c \in Classes, NEW S, NEW s \in Seq(S), NEW u \in Seq(S),
         NEW depth \in Nat, NEW hidden
  PROVE  ParsesInTurn(c, s, u, depth, hidden)
<1>1. PICK T : T = {n \in Nat : \A x \in Seq(S) : Len(x) = n => ParsesInTurn(c, x, u, depth, hidden)}
  OBVIOUS
<1>2. 0 \in T
  <2> SUFFICES ASSUME NEW x \in Seq(S), Len(x) = 0, NEW t
               PROVE  Parse(c, t, x \o u, depth, hidden) =
                        IF Parse(c, t, x, depth, hidden) = <<>> THEN <<>>
                        ELSE Parse(c, Parse(c, t, x, depth, hidden)[1], u, depth, hidden)
    BY <1>1 DEF ParsesInTurn
  <2>1. x = <<>> /\ x \o u = u
    BY EmptySeq, ConcatEmptySeq
  <2>2. Parse(c, t, x, depth, hidden) = <<t>>
    BY <2>1, ParseNone
  <2> QED
    BY <2>1, <2>2
<1>3. ASSUME NEW n \in Nat, n \in T PROVE n + 1 \in T
  <2> SUFFICES ASSUME NEW x \in Seq(S), Len(x) = n + 1, NEW t
               PROVE  Parse(c, t, x \o u, depth, hidden) =
                        IF Parse(c, t, x, depth, hidden) = <<>> THEN <<>>
                        ELSE Parse(c, Parse(c, t, x, depth, hidden)[1], u, depth, hidden)
    BY <1>1 DEF ParsesInTurn
  <2>1. x # <<>> /\ Tail(x) \in Seq(S) /\ Len(Tail(x)) = n
    BY HeadTailProperties, EmptySeq
  <2>2. x \o u \in Seq(S) /\ x \o u # <<>> /\ Head(x \o u) = Head(x) /\ Tail(x \o u) = Tail(x) \o u
    <3>1. Len(x \o u) = Len(x) + Len(u) /\ x \o u \in Seq(S)
      BY ConcatProperties
    <3>2. Len(u) \in Nat /\ Len(x) \in Nat
      BY LenProperties
    <3>3. x \o u # <<>>
      BY <3>1, <3>2, EmptySeq
    <3>4. Head(x \o u) = Head(x)
      BY <2>1, <3>1, <3>3
    <3>5. Tail(x \o u) = Tail(x) \o u
      BY <2>1, <3>1, <3>3
    <3> QED
      BY <3>1, <3>3, <3>4, <3>5
  <2>3. PICK read : read = ParseField(c, t, Head(x), depth, hidden)
    OBVIOUS
  <2>4. Parse(c, t, x \o u, depth, hidden) =
          IF read = <<>> THEN <<>> ELSE Parse(c, read[1], Tail(x) \o u, depth, hidden)
    <3>1. PICK y : y = x \o u
      OBVIOUS
    <3>2. ParsesFirst(c, t, y, Head(y), Tail(y), depth, hidden)
      BY <2>2, <3>1, ParseSome
    <3>3. ParsesFirst(c, t, x \o u, Head(x), Tail(x) \o u, depth, hidden)
      BY <2>2, <3>1, <3>2
    <3> QED
      BY <2>3, <3>3 DEF ParsesFirst
  <2>5. Parse(c, t, x, depth, hidden) = IF read = <<>> THEN <<>> ELSE Parse(c, read[1], Tail(x), depth, hidden)
    <3>1. ParsesFirst(c, t, x, Head(x), Tail(x), depth, hidden)
      BY <2>1, ParseSome
    <3> QED
      BY <2>3, <3>1 DEF ParsesFirst
  <2>6. ParsesInTurn(c, Tail(x), u, depth, hidden)
    BY <1>1, <1>3, <2>1
  <2>7. Parse(c, read[1], Tail(x) \o u, depth, hidden) =
          IF Parse(c, read[1], Tail(x), depth, hidden) = <<>> THEN <<>>
          ELSE Parse(c, Parse(c, read[1], Tail(x), depth, hidden)[1], u, depth, hidden)
    BY <2>6 DEF ParsesInTurn
  <2> QED
    BY <2>4, <2>5, <2>7
<1>4. \A n \in Nat : n \in T
  BY <1>2, <1>3, Induction
<1>5. Len(s) \in Nat
  BY LenProperties
<1> QED
  BY <1>1, <1>4, <1>5

\* Chunk after chunk: G[1], G[2] and so on, F[i] being what there is up to the i-th, X[i]
\* the object after it, and R the chunks that can be read.
Chunks(S, n, F, G) ==
  /\ F[0] = <<>> /\ \A i \in 0 .. n : F[i] \in Seq(S)
  /\ \A i \in 1 .. n : G[i] \in Seq(S) /\ F[i] = F[i - 1] \o G[i]

ReadsChunks(c, n, G, X, R, depth, hidden) ==
  \A i \in 1 .. n : Parse(c, X[i - 1], G[i], depth, hidden) = IF i \in R THEN <<X[i]>> ELSE <<>>

LEMMA ParseChunks ==
  ASSUME InnerParse, NEW c \in Classes, NEW S, NEW n \in Nat, NEW F, NEW G, NEW X, NEW R,
         NEW depth \in Nat, NEW hidden,
         Chunks(S, n, F, G), ReadsChunks(c, n, G, X, R, depth, hidden)
  PROVE  Parse(c, X[0], F[n], depth, hidden) = IF 1 .. n \subseteq R THEN <<X[n]>> ELSE <<>>
<1>1. PICK T : T = {k \in 0 .. n : Parse(c, X[0], F[k], depth, hidden) = IF 1 .. k \subseteq R THEN <<X[k]>> ELSE <<>>}
  OBVIOUS
<1>2. 0 \in T
  <2>1. F[0] = <<>> /\ 1 .. 0 = {} /\ 0 \in 0 .. n
    BY DEF Chunks
  <2> QED
    BY <1>1, <2>1, ParseNone
<1>3. ASSUME NEW k \in 1 .. n, k - 1 \in T PROVE k \in T
  <2>1. k - 1 \in 0 .. n /\ k \in 0 .. n
    OBVIOUS
  <2>2. F[k - 1] \in Seq(S) /\ G[k] \in Seq(S) /\ F[k] = F[k - 1] \o G[k]
    BY <2>1 DEF Chunks
  <2>3. ParsesInTurn(c, F[k - 1], G[k], depth, hidden)
    BY <2>2, ParseConcat
  <2>4. Parse(c, X[0], F[k], depth, hidden) =
          IF Parse(c, X[0], F[k - 1], depth, hidden) = <<>> THEN <<>>
          ELSE Parse(c, Parse(c, X[0], F[k - 1], depth, hidden)[1], G[k], depth, hidden)
    BY <2>2, <2>3 DEF ParsesInTurn
  <2>5. Parse(c, X[k - 1], G[k], depth, hidden) = IF k \in R THEN <<X[k]>> ELSE <<>>
    BY DEF ReadsChunks
  <2>6. Parse(c, X[0], F[k - 1], depth, hidden) = IF 1 .. k - 1 \subseteq R THEN <<X[k - 1]>> ELSE <<>>
    BY <1>1, <1>3
  <2>7. 1 .. k \subseteq R <=> 1 .. k - 1 \subseteq R /\ k \in R
    BY SMT
  <2>8. \A y : <<y>> # <<>> /\ <<y>>[1] = y
    OBVIOUS
  <2>9. Parse(c, X[0], F[k], depth, hidden) = IF 1 .. k \subseteq R THEN <<X[k]>> ELSE <<>>
    <3>1. CASE 1 .. k - 1 \subseteq R
      BY <2>4, <2>5, <2>6, <2>7, <2>8, <3>1
    <3>2. CASE ~(1 .. k - 1 \subseteq R)
      BY <2>4, <2>6, <2>7, <3>2
    <3> QED
      BY <3>1, <3>2
  <2> QED
    BY <1>1, <2>1, <2>9
<1>4. \A k \in 0 .. n : k \in T
  BY <1>2, <1>3, InductionTo
<1>5. n \in 0 .. n
  OBVIOUS
<1> QED
  BY <1>1, <1>4, <1>5

\* Field after field.
FieldsRead(c, n, s, X, R, depth, hidden) ==
  \A i \in 1 .. n : ParseField(c, X[i - 1], s[i], depth, hidden) = IF i \in R THEN <<X[i]>> ELSE <<>>

LEMMA ParseFields ==
  ASSUME InnerParse, NEW c \in Classes, NEW S, NEW n \in Nat, NEW s \in Seq(S), Len(s) = n, NEW X, NEW R,
         NEW depth \in Nat, NEW hidden, FieldsRead(c, n, s, X, R, depth, hidden)
  PROVE  Parse(c, X[0], s, depth, hidden) = IF 1 .. n \subseteq R THEN <<X[n]>> ELSE <<>>
<1>1. PICK F : F = [i \in 0 .. n |-> SubSeq(s, 1, i)]
  OBVIOUS
<1>2. PICK G : G = [i \in 1 .. n |-> <<s[i]>>]
  OBVIOUS
<1>3. Chunks(S, n, F, G)
  <2>1. \A i \in 0 .. n : SubSeq(s, 1, i) \in Seq(S) /\ Len(SubSeq(s, 1, i)) = i
    BY SubSeqProperties, LenProperties
  <2>2. \A i \in 0 .. n : F[i] \in Seq(S)
    BY <1>1, <2>1
  <2>3. F[0] = <<>>
    <3>1. 0 \in 0 .. n
      OBVIOUS
    <3> QED
      BY <1>1, <2>1, <3>1, EmptySeq
  <2>4. ASSUME NEW i \in 1 .. n PROVE G[i] \in Seq(S) /\ F[i] = F[i - 1] \o G[i]
    <3>1. s[i] \in S /\ i - 1 \in 0 .. n /\ i \in 0 .. n
      OBVIOUS
    <3>2. SubSeq(s, 1, i) = SubSeq(s, 1, i - 1) \o <<s[i]>>
      <4>1. 1 \in 1 .. Len(s) /\ i \in 1 .. Len(s) /\ s \in Seq(S)
        OBVIOUS
      <4>2. \A k \in 1 .. Len(s) : SubSeq(s, 1, k) = SubSeq(s, 1, k - 1) \o <<s[k]>>
        <5> SUFFICES ASSUME NEW k \in 1 .. Len(s) PROVE SubSeq(s, 1, k) = SubSeq(s, 1, k - 1) \o <<s[k]>>
          OBVIOUS
        <5>1. 1 \in 1 .. Len(s) /\ k \in 1 .. Len(s) /\ s \in Seq(S)
          OBVIOUS
        <5> QED
          BY <5>1, SubSeqRecursiveSecond, ZenonT(30)
      <4> QED
        BY <4>1, <4>2
    <3>3. F[i] = SubSeq(s, 1, i) /\ F[i - 1] = SubSeq(s, 1, i - 1) /\ G[i] = <<s[i]>>
      BY <1>1, <1>2, <3>1
    <3>4. <<s[i]>> \in Seq(S)
      BY <3>1
    <3> QED
      BY <3>2, <3>3, <3>4
  <2> QED
    BY <2>2, <2>3, <2>4 DEF Chunks
<1>4. ReadsChunks(c, n, G, X, R, depth, hidden)
  <2> SUFFICES ASSUME NEW i \in 1 .. n
               PROVE  Parse(c, X[i - 1], G[i], depth, hidden) = IF i \in R THEN <<X[i]>> ELSE <<>>
    BY DEF ReadsChunks
  <2>1. G[i] = <<s[i]>>
    BY <1>2
  <2>2. ParseField(c, X[i - 1], s[i], depth, hidden) = IF i \in R THEN <<X[i]>> ELSE <<>>
    BY DEF FieldsRead
  <2>3. PICK y, r, x, ok : y = X[i - 1] /\ r = X[i] /\ x = s[i] /\ ok = (i \in R)
    OBVIOUS
  <2>4. ParseField(c, y, x, depth, hidden) = IF ok THEN <<r>> ELSE <<>>
    BY <2>2, <2>3
  <2>5. Parse(c, y, <<x>>, depth, hidden) = IF ok THEN <<r>> ELSE <<>>
    BY <2>4, ParseOne
  <2> QED
    BY <2>1, <2>3, <2>5
<1>5. F[n] = s
  <2>1. n \in 0 .. n
    OBVIOUS
  <2>2. SubSeq(s, 1, n) = s
    OBVIOUS
  <2> QED
    BY <1>1, <2>1, <2>2
<1> QED
  BY <1>3, <1>4, <1>5, ParseChunks

\* What is written of an object is a sequence, member by member, and so is the whole.
LEMMA KnownFieldsSeq ==
  ASSUME NEW U, NEW d \in Nat, NEW c \in Classes, NEW m \in Objects(U, d + 1, c),
         NEW n \in Nat, n = Len(Wire[c])
  PROVE  \E S : FieldsIn(S, c, m, n) /\ U \subseteq S
<1>1. DOMAIN Wire[c] = 1 .. n
  BY Tables DEF TableOf
<1>2. PICK S : S = U \cup UNION {Range(FieldsOf(c, m, i)) : i \in 1 .. n}
  OBVIOUS
<1>3. ASSUME NEW i \in 1 .. n PROVE FieldsOf(c, m, i) \in Seq(S)
  <2>1. FieldsOf(c, m, i) \in Seq(Range(FieldsOf(c, m, i)))
    <3>1. PICK V : V = FieldValues(Nested(U)[d], Wire[c][i].coding)
      OBVIOUS
    <3>2. Held(c, m, Wire[c][i]) \in Seq(V)
      BY <1>1, <3>1, HeldValues
    <3> QED
      BY <3>2, FieldsOfSeq
  <2>2. Range(FieldsOf(c, m, i)) \subseteq S
    BY <1>2
  <2> QED
    BY <2>1, <2>2
<1> QED
  BY <1>2, <1>3 DEF FieldsIn

LEMMA SerializeSeq ==
  ASSUME NEW U, NEW d \in Nat, NEW c \in Classes, NEW m \in Objects(U, d, c)
  PROVE  \E S : Serialize(c, m) \in Seq(S)
<1>1. d # 0
  BY ObjectsByNesting
<1>2. PICK e \in Nat : d = e + 1
  <2>1. d - 1 \in Nat /\ d = (d - 1) + 1
    BY <1>1
  <2> QED
    BY <2>1
<1>3. PICK n \in Nat : n = Len(Wire[c])
  BY Tables DEF TableOf
<1>4. m \in Objects(U, e + 1, c)
  BY <1>2
<1>5. PICK S : FieldsIn(S, c, m, n) /\ U \subseteq S
  BY <1>3, <1>4, KnownFieldsSeq
<1>6. PICK F : Written(S, c, m, n, F)
  BY <1>3, <1>5, KnownFieldsLoop
<1>7. KnownFields(c, m) \in Seq(S)
  <2>1. n \in 0 .. n
    OBVIOUS
  <2> QED
    BY <1>6, <2>1 DEF Written
<1>8. m.unknown_fields \in Seq(S)
  <2>1. m["unknown_fields"] \in Seq(U)
    BY <1>4, ObjectsByNesting DEF IsObject
  <2> QED
    BY <1>5, <2>1
<1> QED
  BY <1>7, <1>8, ConcatProperties DEF Serialize

\* Reading what was written of v, with old for the object that it is read into, gives r.
\* A reader that lacks fields may overlook what cannot be read: it is only told to read
\* what can be.
ReadsAs(hidden, coding, old, v, r) ==
  IF coding.coding # "message" THEN r = v
  ELSE \A depth \in Nat : hidden = {} \/ Readable(coding.of, v, depth) =>
         Parse(coding.of, old, Serialize(coding.of, v), depth, hidden) =
           IF Readable(coding.of, v, depth) THEN <<r>> ELSE <<>>

LEMMA ElementRead ==
  ASSUME InnerParse, InnerSerialize, InnerReadable,
         NEW d \in Nat, NEW coding, ElementaryCoding(coding),
         NEW v \in ElementValues(Nested({})[d], coding), NEW number, NEW hidden, NEW old, NEW r,
         ReadsAs(hidden, coding, old, v, r), NEW depth \in Nat,
         hidden = {} \/ ReadableValue(coding, v, depth)
  PROVE  Decode(coding, old, Encode(number, coding, v), depth, hidden) =
           IF ReadableValue(coding, v, depth) THEN <<r>> ELSE <<>>
<1>1. PICK x : x = Encode(number, coding, v)
  OBVIOUS
<1>2. CASE coding.coding = "varint"
  <2>1. x = [number |-> number, int |-> v]
    BY <1>1, <1>2, SMT DEF Encode
  <2>2. Decode(coding, old, x, depth, hidden) = <<x.int>> /\ ReadableValue(coding, v, depth)
    BY <1>2, SMT DEF Decode, ReadableValue
  <2>3. r = v
    BY <1>2 DEF ReadsAs
  <2> QED
    BY <1>1, <2>1, <2>2, <2>3
<1>3. CASE coding.coding = "utf8"
  <2>1. x = [number |-> number, text |-> v]
    BY <1>1, <1>3, SMT DEF Encode
  <2>2. /\ Decode(coding, old, x, depth, hidden) = IF x.text \notin NotUtf8 THEN <<x.text>> ELSE <<>>
        /\ (ReadableValue(coding, v, depth) <=> v \notin NotUtf8)
    BY <1>3, SMT DEF Decode, ReadableValue, VerifyUTF8
  <2>3. r = v
    <3>1. coding.coding # "message"
      BY <1>3
    <3> QED
      BY <3>1 DEF ReadsAs
  <2> QED
    BY <1>1, <2>1, <2>2, <2>3
<1>4. CASE coding.coding = "bytes"
  <2>1. x = [number |-> number, text |-> v]
    BY <1>1, <1>4, SMT DEF Encode
  <2>2. Decode(coding, old, x, depth, hidden) = <<x.text>> /\ ReadableValue(coding, v, depth)
    BY <1>4, SMT DEF Decode, ReadableValue
  <2>3. r = v
    BY <1>4 DEF ReadsAs
  <2> QED
    BY <1>1, <2>1, <2>2, <2>3
<1>5. CASE coding.coding = "message" /\ coding.of \in Classes
  <2>1. PICK c \in Classes : c = coding.of
    BY <1>5
  <2>2. v \in Whole(d, c)
    BY <1>5, <2>1 DEF ElementValues, Whole, Objects
  <2>3. x = [number |-> number, fields |-> Inner_Serialize(c, v)]
    BY <1>1, <1>5, <2>1, SMT DEF Encode
  <2>4. Inner_Serialize(c, v) = Serialize(c, v)
    BY <2>2 DEF InnerSerialize, Whole
  <2>5. x.fields = Serialize(c, v)
    BY <2>3, <2>4
  <2>6. /\ Decode(coding, old, x, depth, hidden) =
             IF depth = 0 THEN <<>> ELSE Inner_Parse(c, old, Serialize(c, v), depth - 1, hidden)
        /\ ReadableValue(coding, v, depth) <=> (depth > 0 /\ Inner_Readable(c, v, depth - 1))
    <3>1. PICK fields : fields = x.fields
      OBVIOUS
    <3>2. Decode(coding, old, x, depth, hidden) =
             IF depth = 0 THEN <<>> ELSE Inner_Parse(coding.of, old, fields, depth - 1, hidden)
      BY <1>5, <3>1, SMT DEF Decode
    <3>3. ReadableValue(coding, v, depth) <=> (depth > 0 /\ Inner_Readable(coding.of, v, depth - 1))
      BY <1>5, SMT DEF ReadableValue
    <3> QED
      BY <2>1, <2>5, <3>1, <3>2, <3>3
  <2>7. CASE depth = 0
    BY <1>1, <2>6, <2>7
  <2>8. CASE depth # 0
    <3>1. PICK e \in Nat : e = depth - 1
      BY <2>8
    <3>2. PICK S : Serialize(c, v) \in Seq(S)
      BY <2>2, SerializeSeq DEF Whole
    <3>3. Inner_Parse(c, old, Serialize(c, v), e, hidden) = Parse(c, old, Serialize(c, v), e, hidden)
      BY <3>2 DEF InnerParse
    <3>4. Inner_Readable(c, v, e) = Readable(c, v, e)
      BY <2>2 DEF InnerReadable
    <3>5. Parse(c, old, Serialize(c, v), e, hidden) = IF Readable(c, v, e) THEN <<r>> ELSE <<>>
      <4>1. hidden = {} \/ Readable(c, v, e)
        BY <2>6, <3>1, <3>4
      <4> QED
        BY <1>5, <2>1, <4>1 DEF ReadsAs
    <3>6. depth > 0
      BY <2>8
    <3> QED
      BY <1>1, <2>6, <2>8, <3>1, <3>3, <3>4, <3>5, <3>6
  <2> QED
    BY <2>7, <2>8
<1> QED
  BY <1>2, <1>3, <1>4, <1>5 DEF ElementaryCoding

\* The same of a field: of an entry it is the value that is read into something.
FieldReadsAs(hidden, coding, old, v, r) ==
  IF coding.coding = "packed" THEN r = v
  ELSE IF coding.coding = "entry" THEN ReadsAs(hidden, coding.value, New(coding.value.of), v[2], r)
  ELSE ReadsAs(hidden, coding, old, v, r)

\* The member that a field is read into, what its value is read into if the member is w,
\* and what the member is then, if it was read as r.
MemberName(c, field) == IF InMember(c, field) THEN field.member ELSE "kind"

TargetIn(c, field, w) ==
  IF InMember(c, field)
  THEN IF Cells[c][field.member].cell = "pointer" /\ w # <<>> THEN w[1] ELSE New(field.coding.of)
  ELSE IF w.case = field.member THEN w.value ELSE New(field.coding.of)

Taken(c, field, w, v, r) ==
  IF ~InMember(c, field) THEN [case |-> field.member, value |-> r]
  ELSE CASE Cells[c][field.member].cell \in {"text", "number"} -> r
         [] Cells[c][field.member].cell = "pointer"  -> <<r>>
         [] Cells[c][field.member].cell = "repeated" ->
              IF field.coding.coding = "packed" THEN w \o r ELSE Append(w, r)
         [] Cells[c][field.member].cell = "map"      -> Put(w, v[1], r)

LEMMA TargetIsIn ==
  ASSUME NEW c, NEW X, NEW field
  PROVE  Target(c, X, field) = TargetIn(c, field, X[MemberName(c, field)])
<1>1. CASE InMember(c, field)
  <2>1. MemberName(c, field) = field.member
    BY <1>1 DEF MemberName
  <2>2. CASE Cells[c][field.member].cell = "pointer" /\ X[field.member] # <<>>
    BY <1>1, <2>1, <2>2, SMT DEF Target, TargetIn
  <2>3. CASE ~(Cells[c][field.member].cell = "pointer" /\ X[field.member] # <<>>)
    BY <1>1, <2>1, <2>3, SMT DEF Target, TargetIn
  <2> QED
    BY <2>2, <2>3
<1>2. CASE ~InMember(c, field)
  <2>1. MemberName(c, field) = "kind"
    BY <1>2 DEF MemberName
  <2>2. CASE X.kind.case = field.member
    BY <1>2, <2>1, <2>2, SMT DEF Target, TargetIn
  <2>3. CASE X.kind.case # field.member
    BY <1>2, <2>1, <2>3, SMT DEF Target, TargetIn
  <2> QED
    BY <2>2, <2>3
<1> QED
  BY <1>1, <1>2

\* Of each sort of member: what it may hold, what of it is written, what merging makes of
\* it, and what taking a value in.
LEMMA SortOfMember ==
  ASSUME NEW below, NEW cell
  PROVE  /\ cell.cell \in {"text", "number"} => Contents(below, cell) = ElementsOf(below, cell)
         /\ cell.cell = "repeated" => Contents(below, cell) = Seq(ElementsOf(below, cell.of))
         /\ cell.cell = "map" => Contents(below, cell) = Maps(ElementsOf(below, cell.key), ElementsOf(below, cell.of))
<1>1. CASE cell.cell \in {"text", "number"}
  BY <1>1, SMT DEF Contents
<1>2. CASE cell.cell = "repeated"
  BY <1>2, SMT DEF Contents
<1>3. CASE cell.cell = "map"
  BY <1>3, SMT DEF Contents
<1> QED
  BY <1>1, <1>2, <1>3

LEMMA SortOfMerging ==
  ASSUME NEW cell, NEW w, NEW v
  PROVE  /\ cell.cell \in {"text", "number"} /\ v = Default(cell) => MergeMember(cell, w, v) = w
         /\ cell.cell \in {"text", "number"} /\ v # Default(cell) => MergeMember(cell, w, v) = v
         /\ cell.cell = "map" => MergeMember(cell, w, v) = Over(v, w)
         /\ cell.cell = "choice" => MergeMember(cell, w, v) = MergeKind(cell, w, v)
         /\ cell.cell = "pointer" /\ v = <<>> => MergeMember(cell, w, v) = w
         /\ cell.cell = "pointer" /\ v # <<>> =>
              MergeMember(cell, w, v) = <<Inner_MergeFrom(cell.of, IF w = <<>> THEN New(cell.of) ELSE w[1], v[1])>>
<1>1. CASE cell.cell = "text"
  BY <1>1, SMT DEF MergeMember
<1>2. CASE cell.cell = "number"
  BY <1>2, SMT DEF MergeMember
<1>3. CASE cell.cell = "map"
  BY <1>3, SMT DEF MergeMember
<1>4. CASE cell.cell = "choice"
  BY <1>4, SMT DEF MergeMember
<1>5. CASE cell.cell = "pointer"
  BY <1>5, SMT DEF MergeMember
<1> QED
  BY <1>1, <1>2, <1>3, <1>4, <1>5

LEMMA SortOfUnpacking ==
  ASSUME NEW cell, NEW v
  PROVE  /\ cell.cell \in {"text", "number"} /\ v = Default(cell) => Unpack(cell, v) = <<>>
         /\ cell.cell \in {"text", "number"} /\ v # Default(cell) => Unpack(cell, v) = <<v>>
         /\ cell.cell \in {"pointer", "repeated"} => Unpack(cell, v) = v
<1>1. CASE cell.cell = "text"
  BY <1>1, SMT DEF Unpack
<1>2. CASE cell.cell = "number"
  BY <1>2, SMT DEF Unpack
<1>3. CASE cell.cell = "pointer"
  BY <1>3, SMT DEF Unpack
<1>4. CASE cell.cell = "repeated"
  BY <1>4, SMT DEF Unpack
<1> QED
  BY <1>1, <1>2, <1>3, <1>4

LEMMA SortOfTaking ==
  ASSUME NEW c, NEW field, NEW cell, cell = Cells[c][field.member], NEW w, NEW v, NEW r
  PROVE  /\ ~InMember(c, field) => Taken(c, field, w, v, r) = [case |-> field.member, value |-> r]
         /\ InMember(c, field) =>
              /\ cell.cell \in {"text", "number"} => Taken(c, field, w, v, r) = r
              /\ cell.cell = "pointer" => Taken(c, field, w, v, r) = <<r>>
              /\ cell.cell = "map" => Taken(c, field, w, v, r) = Put(w, v[1], r)
<1>1. CASE ~InMember(c, field)
  BY <1>1, SMT DEF Taken
<1>2. CASE InMember(c, field) /\ cell.cell \in {"text", "number"}
  BY <1>2, SMT DEF Taken
<1>3. CASE InMember(c, field) /\ cell.cell = "pointer"
  BY <1>3, SMT DEF Taken
<1>4. CASE InMember(c, field) /\ cell.cell = "map"
  BY <1>4, SMT DEF Taken
<1> QED
  BY <1>1, <1>2, <1>3, <1>4

LEMMA RepeatedMerging ==
  ASSUME NEW cell, cell.cell = "repeated", NEW w, NEW v
  PROVE  MergeMember(cell, w, v) = w \o v
BY SMT DEF MergeMember

LEMMA RepeatedTaking ==
  ASSUME NEW c, NEW field, InMember(c, field), Cells[c][field.member].cell = "repeated", NEW w, NEW v, NEW r
  PROVE  /\ field.coding.coding = "packed" => Taken(c, field, w, v, r) = w \o r
         /\ field.coding.coding # "packed" => Taken(c, field, w, v, r) = Append(w, r)
BY SMT DEF Taken

\* An object with another value of a member.
With(X, name, w) == [X EXCEPT ![name] = w]

\* What is written of a field has the number of the field, which a reader knows unless
\* it is hidden.
LEMMA NumberWritten ==
  ASSUME NEW field, NEW v, SoundCoding(field.coding)
  PROVE  EncodeField(field, v).number = field.number
<1>1. PICK coding : coding = field.coding
  OBVIOUS
<1>2. CASE coding.coding = "entry"
  BY <1>1, <1>2 DEF EncodeField
<1>3. CASE coding.coding # "entry"
  <2>1. EncodeField(field, v) = Encode(field.number, coding, v)
    BY <1>1, <1>3 DEF EncodeField
  <2>2. coding.coding \in {"varint", "utf8", "bytes", "message", "packed"}
    BY <1>1, <1>3 DEF SoundCoding, ElementaryCoding
  <2>3. CASE coding.coding = "varint"
    BY <1>1, <2>1, <2>3, SMT DEF Encode
  <2>4. CASE coding.coding \in {"utf8", "bytes"}
    BY <1>1, <2>1, <2>4, SMT DEF Encode
  <2>5. CASE coding.coding = "message"
    BY <1>1, <2>1, <2>5, SMT DEF Encode
  <2>6. CASE coding.coding = "packed"
    BY <1>1, <2>1, <2>6, SMT DEF Encode
  <2> QED
    BY <2>2, <2>3, <2>4, <2>5, <2>6
<1> QED
  BY <1>2, <1>3

LEMMA KnownField ==
  ASSUME NEW c \in Classes, NEW i \in DOMAIN Wire[c], NEW hidden
  PROVE  Known(c, i, hidden) = IF <<c, i>> \in hidden THEN {} ELSE {Wire[c][i]}
<1>1. \A k \in DOMAIN Wire[c] : Wire[c][k].number = k
  BY Tables DEF TableOf
<1> QED
  BY <1>1 DEF Known

Keeps(c, X, x, depth, hidden) ==
  ParseField(c, X, x, depth, hidden) = <<With(X, "unknown_fields", Append(X["unknown_fields"], x))>>

LEMMA HiddenIsKept ==
  ASSUME NEW c \in Classes, NEW i \in DOMAIN Wire[c], NEW field, field = Wire[c][i], NEW hidden,
         <<c, i>> \in hidden, SoundCoding(field.coding), NEW X, NEW v, NEW depth
  PROVE  Keeps(c, X, EncodeField(field, v), depth, hidden)
<1>1. PICK x : x = EncodeField(field, v)
  OBVIOUS
<1>2. field.number = i
  BY Tables DEF TableOf
<1>3. x.number = i
  BY <1>1, <1>2, NumberWritten
<1>4. Known(c, x.number, hidden) = {}
  BY <1>3, KnownField
<1> QED
  BY <1>1, <1>4 DEF ParseField, With, Keeps

LEMMA KnownIsParsed ==
  ASSUME NEW c \in Classes, NEW i \in DOMAIN Wire[c], NEW field, field = Wire[c][i], NEW hidden,
         <<c, i>> \notin hidden, SoundCoding(field.coding), NEW X, NEW v, NEW depth
  PROVE  ParseField(c, X, EncodeField(field, v), depth, hidden) =
           ParseKnown(c, X, field, EncodeField(field, v), depth, hidden)
<1>1. PICK x : x = EncodeField(field, v)
  OBVIOUS
<1>2. field.number = i
  BY Tables DEF TableOf
<1>3. x.number = i
  BY <1>1, <1>2, NumberWritten
<1>4. PICK known : known = Known(c, x.number, hidden)
  OBVIOUS
<1>5. known = {field}
  BY <1>3, <1>4, KnownField
<1>6. PICK f : f = CHOOSE g \in known : TRUE
  OBVIOUS
<1>7. known # {} /\ f = field
  BY <1>5, <1>6
<1>8. ParseField(c, X, x, depth, hidden) = ParseKnown(c, X, f, x, depth, hidden)
  BY <1>4, <1>6, <1>7, Zenon DEF ParseField
<1> QED
  BY <1>1, <1>7, <1>8

LEMMA ValueIsStored ==
  ASSUME NEW c, NEW X, NEW field, field.coding.coding # "entry", NEW x, NEW depth, NEW hidden,
         NEW read, read = Decode(field.coding, Target(c, X, field), x, depth, hidden)
  PROVE  ParseKnown(c, X, field, x, depth, hidden) =
           IF read = <<>> THEN <<>> ELSE <<Store(c, X, field, read[1])>>
BY DEF ParseKnown

\* The sort of a member and the way it is written.
LEMMA SortOfCoding ==
  ASSUME NEW cell, NEW coding, MemberCoding(cell, coding)
  PROVE  /\ coding.coding # "entry" => cell.cell \in {"text", "number", "pointer", "repeated"}
         /\ cell.cell = "map" => coding.coding = "entry"
<1>1. CASE cell.cell = "map"
  <2>1. coding = Entry(coding.key, coding.value)
    BY <1>1 DEF MemberCoding
  <2>2. coding.coding = "entry"
    BY <2>1, CodingNames
  <2> QED
    BY <1>1, <2>2
<1>2. CASE cell.cell # "map"
  BY <1>2 DEF MemberCoding
<1> QED
  BY <1>1, <1>2

\* A value is put where it belongs.
LEMMA StoredIsTaken ==
  ASSUME NEW c \in Classes, NEW i \in DOMAIN Wire[c], NEW field, field = Wire[c][i],
         field.coding.coding # "entry", NEW X, NEW v, NEW r, NEW name, name = MemberName(c, field)
  PROVE  Store(c, X, field, r) = With(X, name, Taken(c, field, X[name], v, r))
<1>1. PICK coding : coding = field.coding
  OBVIOUS
<1>2. field = Wire[c][i] /\ name = MemberName(c, field)
  OBVIOUS
<1>3. CASE ~InMember(c, field)
  BY <1>2, <1>3 DEF Store, Taken, MemberName, With
<1>4. CASE InMember(c, field) /\ MemberCoding(Cells[c][field.member], coding)
  <2>1. PICK cell : cell = Cells[c][field.member]
    OBVIOUS
  <2>2. name = field.member
    BY <1>2, <1>4 DEF MemberName
  <2>3. CASE cell.cell \in {"text", "number"}
    <3>1. PICK old : old = X[name]
      OBVIOUS
    <3>2. Store(c, X, field, r) = [X EXCEPT ![name] = r]
      <4>1. CASE cell.cell = "text"
        BY <1>4, <2>1, <2>2, <4>1, SMT DEF Store
      <4>2. CASE cell.cell = "number"
        BY <1>4, <2>1, <2>2, <4>2, SMT DEF Store
      <4> QED
        BY <2>3, <4>1, <4>2
    <3>3. Taken(c, field, old, v, r) = r
      BY <1>4, <2>1, <2>3, SortOfTaking
    <3> QED
      BY <3>1, <3>2, <3>3 DEF With
  <2>4. CASE cell.cell = "pointer"
    <3>1. Store(c, X, field, r) = [X EXCEPT ![name] = <<r>>]
      BY <1>4, <2>1, <2>2, <2>4, SMT DEF Store
    <3>2. Taken(c, field, X[name], v, r) = <<r>>
      BY <1>4, <2>1, <2>2, <2>4, SortOfTaking
    <3> QED
      BY <3>1, <3>2 DEF With
  <2>5. CASE cell.cell = "repeated"
    <3>1. coding = Packed <=> coding.coding = "packed"
      <4>1. CASE cell.of.cell = "number"
        BY <1>4, <2>1, <2>5, <4>1, CodingNames DEF MemberCoding
      <4>2. CASE cell.of.cell # "number"
        <5>1. ElementCoding(cell.of, coding)
          BY <1>4, <2>1, <2>5, <4>2 DEF MemberCoding
        <5>2. coding.coding # "packed"
          BY <5>1, ElementIsWritten, ElementaryValues
        <5> QED
          BY <5>2, CodingNames
      <4> QED
        BY <4>1, <4>2
    <3>2. Store(c, X, field, r) =
            [X EXCEPT ![name] = IF field.coding = Packed THEN X[name] \o r ELSE Append(X[name], r)]
      BY <1>4, <2>1, <2>2, <2>5, SMT DEF Store
    <3>3. Taken(c, field, X[name], v, r) =
            IF coding.coding = "packed" THEN X[name] \o r ELSE Append(X[name], r)
      <4>1. CASE coding.coding = "packed"
        BY <1>1, <1>4, <2>1, <2>5, <4>1, RepeatedTaking
      <4>2. CASE coding.coding # "packed"
        BY <1>1, <1>4, <2>1, <2>5, <4>2, RepeatedTaking
      <4> QED
        BY <4>1, <4>2
    <3> QED
      BY <1>1, <3>1, <3>2, <3>3 DEF With
  <2>6. cell.cell \in {"text", "number", "pointer", "repeated"}
    BY <1>1, <1>4, <2>1, SortOfCoding
  <2> QED
    BY <2>3, <2>4, <2>5, <2>6
<1> QED
  BY <1>1, <1>2, <1>3, <1>4, FieldOfMember

\* The keys of a map can be read alone.
LEMMA EntryKey ==
  ASSUME NEW c \in Classes, NEW i \in DOMAIN Wire[c], Wire[c][i].coding.coding = "entry"
  PROVE  /\ InMember(c, Wire[c][i]) /\ Cells[c][Wire[c][i].member].cell = "map"
         /\ ElementaryCoding(Wire[c][i].coding.key) /\ ElementaryCoding(Wire[c][i].coding.value)
         /\ Wire[c][i].coding.key.coding # "message"
<1>1. PICK field : field = Wire[c][i]
  OBVIOUS
<1>2. PICK coding : coding = field.coding
  OBVIOUS
<1>3. CASE InMember(c, field) /\ MemberCoding(Cells[c][field.member], coding)
  <2>1. PICK cell : cell = Cells[c][field.member]
    OBVIOUS
  <2>2. \A x : ~ElementCoding(x, coding)
    BY <1>1, <1>2, ElementIsWritten, ElementaryValues
  <2>3. /\ cell.cell = "map"
        /\ ElementCoding(cell.key, coding.key) /\ cell.key.cell # "object"
        /\ ElementCoding(cell.of, coding.value)
    BY <1>1, <1>2, <1>3, <2>1, <2>2, CodingNames DEF MemberCoding
  <2>4. ElementaryCoding(coding.key) /\ ElementaryCoding(coding.value)
    BY <2>3, ElementIsWritten
  <2>5. coding.key.coding # "message"
    BY <2>3, CodingNames DEF ElementCoding
  <2> QED
    BY <1>1, <1>2, <1>3, <2>1, <2>3, <2>4, <2>5
<1>4. CASE ~InMember(c, field) /\ ElementCoding(Cells[c]["kind"].of[field.member], coding)
  BY <1>1, <1>2, <1>4, ElementIsWritten, ElementaryValues
<1> QED
  BY <1>1, <1>2, <1>3, <1>4, FieldOfMember

\* One field.
ReadsField(c, field, X, name, v, r, depth, hidden) ==
  ParseField(c, X, EncodeField(field, v), depth, hidden) =
    IF ReadableField(field.coding, v, depth)
    THEN <<With(X, name, Taken(c, field, X[name], v, r))>> ELSE <<>>

LEMMA FieldRead ==
  ASSUME InnerParse, InnerSerialize, InnerReadable,
         NEW d \in Nat, NEW c \in Classes, NEW i \in DOMAIN Wire[c], NEW field, field = Wire[c][i],
         NEW hidden, <<c, i>> \notin hidden, SoundCoding(field.coding),
         NEW v \in FieldValues(Nested({})[d], field.coding), NEW X, NEW name, name = MemberName(c, field),
         NEW r, FieldReadsAs(hidden, field.coding, TargetIn(c, field, X[name]), v, r),
         NEW depth \in Nat, hidden = {} \/ ReadableField(field.coding, v, depth)
  PROVE  ReadsField(c, field, X, name, v, r, depth, hidden)
<1> USE DEF ReadsField
<1>1. PICK coding : coding = field.coding
  OBVIOUS
<1>2. PICK x : x = EncodeField(field, v)
  OBVIOUS
<1>3. ParseField(c, X, x, depth, hidden) = ParseKnown(c, X, field, x, depth, hidden)
  <2>1. ParseField(c, X, EncodeField(field, v), depth, hidden) =
          ParseKnown(c, X, field, EncodeField(field, v), depth, hidden)
    BY KnownIsParsed
  <2> QED
    BY <1>2, <2>1
<1>4. PICK old : old = TargetIn(c, field, X[name])
  OBVIOUS
<1>5. Target(c, X, field) = old
  BY <1>4, TargetIsIn
<1>6. \A y : <<y>> # <<>> /\ <<y>>[1] = y
  OBVIOUS
<1>7. CASE ElementaryCoding(coding)
  <2>1. coding.coding # "entry" /\ coding.coding # "packed" /\ v \in ElementValues(Nested({})[d], coding)
    BY <1>1, <1>7, ElementaryValues
  <2>2. ReadsAs(hidden, coding, old, v, r)
    BY <1>1, <1>4, <2>1 DEF FieldReadsAs
  <2>3. x = Encode(field.number, coding, v)
    BY <1>1, <1>2, <2>1 DEF EncodeField
  <2>4. ReadableField(coding, v, depth) <=> ReadableValue(coding, v, depth)
    BY <2>1 DEF ReadableField
  <2>5. Decode(coding, old, x, depth, hidden) = IF ReadableValue(coding, v, depth) THEN <<r>> ELSE <<>>
    <3>1. hidden = {} \/ ReadableValue(coding, v, depth)
      BY <1>1, <2>4
    <3> QED
      BY <1>7, <2>1, <2>2, <2>3, <3>1, ElementRead
  <2>6. PICK read : read = Decode(coding, old, x, depth, hidden)
    OBVIOUS
  <2>8. ParseKnown(c, X, field, x, depth, hidden) =
          IF read = <<>> THEN <<>> ELSE <<Store(c, X, field, read[1])>>
    <3>1. read = Decode(field.coding, Target(c, X, field), x, depth, hidden)
      BY <1>1, <1>5, <2>6
    <3>2. field.coding.coding # "entry"
      BY <1>1, <2>1
    <3> QED
      BY <3>1, <3>2, ValueIsStored
  <2>7. Store(c, X, field, r) = With(X, name, Taken(c, field, X[name], v, r))
    <3>1. field.coding.coding # "entry"
      BY <1>1, <2>1
    <3> QED
      BY <3>1, StoredIsTaken
  <2> QED
    BY <1>1, <1>2, <1>3, <1>6, <2>4, <2>5, <2>6, <2>7, <2>8
<1>8. CASE coding.coding = "packed"
  <2>1. r = v
    BY <1>1, <1>8 DEF FieldReadsAs
  <2>2. x = [number |-> field.number, ints |-> v]
    <3>1. x = Encode(field.number, coding, v)
      BY <1>1, <1>2, <1>8 DEF EncodeField
    <3> QED
      BY <1>8, <3>1, SMT DEF Encode
  <2>3. Decode(coding, old, x, depth, hidden) = <<v>>
    <3>1. PICK ints : ints = x.ints
      OBVIOUS
    <3>2. Decode(coding, old, x, depth, hidden) = <<ints>>
      BY <1>8, <3>1, SMT DEF Decode
    <3> QED
      BY <2>2, <3>1, <3>2
  <2>4. ReadableField(coding, v, depth)
    <3>1. ReadableValue(coding, v, depth)
      BY <1>8, SMT DEF ReadableValue
    <3> QED
      BY <1>8, <3>1 DEF ReadableField
  <2>6. PICK read : read = Decode(coding, old, x, depth, hidden)
    OBVIOUS
  <2>8. ParseKnown(c, X, field, x, depth, hidden) =
          IF read = <<>> THEN <<>> ELSE <<Store(c, X, field, read[1])>>
    <3>1. read = Decode(field.coding, Target(c, X, field), x, depth, hidden)
      BY <1>1, <1>5, <2>6
    <3>2. field.coding.coding # "entry"
      BY <1>1, <1>8
    <3> QED
      BY <3>1, <3>2, ValueIsStored
  <2>7. Store(c, X, field, r) = With(X, name, Taken(c, field, X[name], v, r))
    <3>1. field.coding.coding # "entry"
      BY <1>1, <1>8
    <3> QED
      BY <3>1, StoredIsTaken
  <2> QED
    BY <1>1, <1>2, <1>3, <1>6, <2>1, <2>3, <2>4, <2>6, <2>7, <2>8
<1>9. CASE coding.coding = "entry"
  <2>1. /\ InMember(c, field) /\ Cells[c][field.member].cell = "map"
        /\ ElementaryCoding(coding.key) /\ ElementaryCoding(coding.value) /\ coding.key.coding # "message"
    BY <1>1, <1>9, EntryKey
  <2>2. v[1] \in ElementValues(Nested({})[d], coding.key) /\ v[2] \in ElementValues(Nested({})[d], coding.value)
    BY <1>1, <1>9 DEF FieldValues
  <2>3. PICK y, z : y = Encode(1, coding.key, v[1]) /\ z = Encode(2, coding.value, v[2])
    OBVIOUS
  <2>4. x.fields[1] = y /\ x.fields[2] = z
    <3>1. x = [number |-> field.number, fields |-> <<y, z>>]
      BY <1>1, <1>2, <1>9, <2>3 DEF EncodeField
    <3> QED
      BY <3>1
  <2>5. PICK new : new = New(coding.value.of)
    OBVIOUS
  <2>6. ReadsAs(hidden, coding.key, 0, v[1], v[1])
    BY <2>1 DEF ReadsAs
  <2>7. ReadsAs(hidden, coding.value, new, v[2], r)
    BY <1>1, <1>9, <2>5 DEF FieldReadsAs
  <2>8. ParseKnown(c, X, field, x, depth, hidden) = ParseEntry(c, X, field, x, depth, hidden)
    BY <1>1, <1>9 DEF ParseKnown
  <2>9. ReadableField(coding, v, depth) <=>
          depth > 0 /\ ReadableValue(coding.key, v[1], depth - 1) /\ ReadableValue(coding.value, v[2], depth - 1)
    BY <1>9 DEF ReadableField
  <2>10. CASE depth = 0
    <3>1. ParseEntry(c, X, field, x, depth, hidden) = <<>>
      BY <2>10 DEF ParseEntry
    <3> QED
      BY <1>1, <1>2, <1>3, <2>8, <2>9, <2>10, <3>1
  <2>11. CASE depth # 0
    <3>1. PICK e \in Nat : e = depth - 1
      BY <2>11
    <3>2. Decode(coding.key, 0, y, e, hidden) = IF ReadableValue(coding.key, v[1], e) THEN <<v[1]>> ELSE <<>>
      <4>1. hidden = {} \/ ReadableValue(coding.key, v[1], e)
        BY <1>1, <2>9, <3>1
      <4> QED
        BY <2>1, <2>2, <2>3, <2>6, <4>1, ElementRead
    <3>3. Decode(coding.value, new, z, e, hidden) = IF ReadableValue(coding.value, v[2], e) THEN <<r>> ELSE <<>>
      <4>1. hidden = {} \/ ReadableValue(coding.value, v[2], e)
        BY <1>1, <2>9, <3>1
      <4> QED
        BY <2>1, <2>2, <2>3, <2>7, <4>1, ElementRead
    <3>4. PICK k, w : /\ k = Decode(coding.key, 0, y, e, hidden)
                      /\ w = Decode(coding.value, new, z, e, hidden)
      OBVIOUS
    <3>5. ParseEntry(c, X, field, x, depth, hidden) =
            IF k = <<>> \/ w = <<>> THEN <<>> ELSE <<With(X, field.member, Put(X[field.member], k[1], w[1]))>>
      BY <1>1, <2>4, <2>5, <2>11, <3>1, <3>4 DEF ParseEntry, With
    <3>6. name = field.member
      BY <2>1 DEF MemberName
    <3>7. Taken(c, field, X[name], v, r) = Put(X[name], v[1], r)
      BY <2>1, <3>6, SortOfTaking
    <3>8. depth > 0
      BY <2>11
    <3>9. CASE ReadableValue(coding.key, v[1], e) /\ ReadableValue(coding.value, v[2], e)
      <4>1. k = <<v[1]>> /\ w = <<r>>
        BY <3>2, <3>3, <3>4, <3>9
      <4>2. ParseEntry(c, X, field, x, depth, hidden) = <<With(X, name, Put(X[name], v[1], r))>>
        BY <1>6, <3>5, <3>6, <4>1
      <4> QED
        BY <1>1, <1>2, <1>3, <2>8, <2>9, <3>1, <3>7, <3>8, <3>9, <4>2
    <3>10. CASE ~(ReadableValue(coding.key, v[1], e) /\ ReadableValue(coding.value, v[2], e))
      <4>1. k = <<>> \/ w = <<>>
        BY <3>2, <3>3, <3>4, <3>10
      <4> QED
        BY <1>1, <1>2, <1>3, <2>8, <2>9, <3>1, <3>5, <3>10, <4>1
    <3> QED
      BY <3>9, <3>10
  <2> QED
    BY <2>10, <2>11
<1> QED
  BY <1>1, <1>7, <1>8, <1>9 DEF SoundCoding

\* Value after value of a member: read into something that holds w, they leave it with z,
\* if they can be read.
Gathers(c, m, i, hidden, rs, W) ==
  \A j \in 1 .. Len(Held(c, m, Wire[c][i])) :
    /\ FieldReadsAs(hidden, Wire[c][i].coding, TargetIn(c, Wire[c][i], W[j - 1]),
                    Held(c, m, Wire[c][i])[j], rs[j])
    /\ W[j] = Taken(c, Wire[c][i], W[j - 1], Held(c, m, Wire[c][i])[j], rs[j])

Gives(c, m, i, hidden, w, z) ==
  \E rs, W : /\ Gathers(c, m, i, hidden, rs, W)
             /\ W[0] = w /\ W[Len(Held(c, m, Wire[c][i]))] = z

ReadableMember(c, m, i, depth) ==
  \A j \in DOMAIN Held(c, m, Wire[c][i]) :
    ReadableField(Wire[c][i].coding, Held(c, m, Wire[c][i])[j], depth)

IsFunction(Y) == Y = [f \in DOMAIN Y |-> Y[f]]

LEMMA WithWith ==
  ASSUME NEW Y, IsFunction(Y), NEW name \in DOMAIN Y
  PROVE  /\ With(Y, name, Y[name]) = Y
         /\ \A w : With(Y, name, w)[name] = w
         /\ \A w, z : With(With(Y, name, w), name, z) = With(Y, name, z)
<1>1. With(Y, name, Y[name]) = Y
  BY DEF With, IsFunction
<1>2. \A w : With(Y, name, w)[name] = w
  BY DEF With, IsFunction
<1>3. ASSUME NEW w, NEW z PROVE With(With(Y, name, w), name, z) = With(Y, name, z)
  BY DEF With, IsFunction
<1> QED
  BY <1>1, <1>2, <1>3

\* Read into Y, the fields of a member leave it with z.
ReadsMember(c, m, i, Y, z, depth, hidden) ==
  Parse(c, Y, FieldsOf(c, m, i), depth, hidden) =
    IF ReadableMember(c, m, i, depth) THEN <<With(Y, MemberName(c, Wire[c][i]), z)>> ELSE <<>>

LEMMA MemberRead ==
  ASSUME InnerParse, InnerSerialize, InnerReadable,
         NEW d \in Nat, NEW c \in Classes, NEW m \in Whole(d + 1, c), NEW i \in DOMAIN Wire[c],
         NEW hidden, <<c, i>> \notin hidden,
         NEW Y, IsFunction(Y), NEW name, name = MemberName(c, Wire[c][i]), name \in DOMAIN Y,
         NEW w, w = Y[name], NEW z, Gives(c, m, i, hidden, w, z), NEW depth \in Nat,
         hidden = {} \/ ReadableMember(c, m, i, depth)
  PROVE  ReadsMember(c, m, i, Y, z, depth, hidden)
<1>1. PICK field : field = Wire[c][i]
  OBVIOUS
<1>2. PICK V : V = FieldValues(Nested({})[d], field.coding)
  OBVIOUS
<1>3. SoundCoding(field.coding) /\ Held(c, m, field) \in Seq(V)
  BY <1>1, <1>2, HeldValues DEF Whole
<1>4. PICK held \in Seq(V) : held = Held(c, m, field)
  BY <1>3
<1>5. PICK k \in Nat : k = Len(held) /\ DOMAIN held = 1 .. k
  BY LenProperties
<1>6. PICK rs, W : Gathers(c, m, i, hidden, rs, W) /\ W[0] = w /\ W[k] = z
  BY <1>1, <1>4, <1>5 DEF Gives
<1>7. \A j \in 1 .. k : /\ FieldReadsAs(hidden, field.coding, TargetIn(c, field, W[j - 1]), held[j], rs[j])
                        /\ W[j] = Taken(c, field, W[j - 1], held[j], rs[j])
  BY <1>1, <1>4, <1>5, <1>6 DEF Gathers
<1>8. PICK X : X = [j \in 0 .. k |-> With(Y, name, W[j])]
  OBVIOUS
<1>9. PICK R : R = {j \in 1 .. k : ReadableField(field.coding, held[j], depth)}
  OBVIOUS
<1>10. PICK s : s = FieldsOf(c, m, i)
  OBVIOUS
<1>11. s \in Seq(Range(s)) /\ Len(s) = k /\ \A j \in 1 .. k : s[j] = EncodeField(field, held[j])
  BY <1>1, <1>4, <1>5, <1>10, FieldsOfSeq
<1>12. ASSUME NEW j \in 1 .. k
       PROVE  ParseField(c, X[j - 1], s[j], depth, hidden) = IF j \in R THEN <<X[j]>> ELSE <<>>
  <2>1. PICK x, v, r, u : x = X[j - 1] /\ v = held[j] /\ r = rs[j] /\ u = W[j - 1]
    OBVIOUS
  <2>2. j - 1 \in 0 .. k /\ j \in 0 .. k /\ v \in V
    BY <1>5, <2>1
  <2>3. x = With(Y, name, u) /\ X[j] = With(Y, name, W[j])
    BY <1>8, <2>1, <2>2
  <2>4. x[name] = u /\ \A y : With(x, name, y) = With(Y, name, y)
    BY <2>3, WithWith
  <2>5. FieldReadsAs(hidden, field.coding, TargetIn(c, field, x[name]), v, r)
    BY <1>7, <2>1, <2>4
  <2>6. name = MemberName(c, field)
    BY <1>1
  <2>7. ParseField(c, x, EncodeField(field, v), depth, hidden) =
           IF ReadableField(field.coding, v, depth)
           THEN <<With(x, name, Taken(c, field, x[name], v, r))>> ELSE <<>>
    <3>1. v \in FieldValues(Nested({})[d], field.coding) /\ SoundCoding(field.coding) /\ <<c, i>> \notin hidden
      BY <1>2, <1>3, <2>2
    <3>2. hidden = {} \/ ReadableField(field.coding, v, depth)
      BY <1>1, <1>4, <1>5, <2>1 DEF ReadableMember
    <3>3. ReadsField(c, field, x, name, v, r, depth, hidden)
      BY <1>1, <2>5, <2>6, <3>1, <3>2, FieldRead
    <3> QED
      BY <3>3 DEF ReadsField
  <2>8. With(x, name, Taken(c, field, x[name], v, r)) = X[j]
    BY <1>7, <2>1, <2>3, <2>4
  <2>9. j \in R <=> ReadableField(field.coding, v, depth)
    BY <1>9, <2>1
  <2> QED
    BY <1>11, <2>1, <2>7, <2>8, <2>9
<1>13. Parse(c, X[0], s, depth, hidden) = IF 1 .. k \subseteq R THEN <<X[k]>> ELSE <<>>
  <2>1. PICK S : S = Range(s)
    OBVIOUS
  <2>2. s \in Seq(S)
    BY <1>11, <2>1, Zenon
  <2>3. FieldsRead(c, k, s, X, R, depth, hidden)
    BY <1>12 DEF FieldsRead
  <2> QED
    BY <1>11, <2>2, <2>3, ParseFields
<1>14. X[0] = Y /\ X[k] = With(Y, name, z)
  <2>1. 0 \in 0 .. k /\ k \in 0 .. k
    OBVIOUS
  <2> QED
    BY <1>6, <1>8, <2>1, WithWith
<1>15. 1 .. k \subseteq R <=> ReadableMember(c, m, i, depth)
  BY <1>1, <1>4, <1>5, <1>9 DEF ReadableMember
<1> QED
  BY <1>10, <1>13, <1>14, <1>15 DEF ReadsMember

\* What holds one value, or none.
LEMMA NoneGives ==
  ASSUME NEW c, NEW m, NEW i, NEW hidden, NEW w, Held(c, m, Wire[c][i]) = <<>>
  PROVE  Gives(c, m, i, hidden, w, w)
<1>1. PICK held : held = Held(c, m, Wire[c][i])
  OBVIOUS
<1>2. Len(held) = 0 /\ 1 .. 0 = {}
  BY <1>1
<1>3. PICK rs, W : rs = <<>> /\ W = [j \in {0} |-> w]
  OBVIOUS
<1>4. W[0] = w
  BY <1>3
<1>5. Gathers(c, m, i, hidden, rs, W)
  BY <1>1, <1>2 DEF Gathers
<1> QED
  BY <1>1, <1>2, <1>4, <1>5 DEF Gives

LEMMA OneGives ==
  ASSUME NEW c, NEW m, NEW i, NEW hidden, NEW w, NEW v, Held(c, m, Wire[c][i]) = <<v>>, NEW r,
         FieldReadsAs(hidden, Wire[c][i].coding, TargetIn(c, Wire[c][i], w), v, r)
  PROVE  Gives(c, m, i, hidden, w, Taken(c, Wire[c][i], w, v, r))
<1>1. PICK held, field, z : held = Held(c, m, Wire[c][i]) /\ field = Wire[c][i] /\ z = Taken(c, field, w, v, r)
  OBVIOUS
<1>2. Len(held) = 1 /\ held[1] = v
  BY <1>1
<1>3. PICK rs, W : rs = <<r>> /\ W = [j \in {0, 1} |-> IF j = 0 THEN w ELSE z]
  OBVIOUS
<1>4. rs[1] = r /\ W[0] = w /\ W[1] = z
  BY <1>3
<1>5. Gathers(c, m, i, hidden, rs, W)
  <2> SUFFICES ASSUME NEW j \in 1 .. 1
               PROVE  /\ FieldReadsAs(hidden, field.coding, TargetIn(c, field, W[j - 1]), held[j], rs[j])
                      /\ W[j] = Taken(c, field, W[j - 1], held[j], rs[j])
    BY <1>1, <1>2 DEF Gathers
  <2>1. j = 1 /\ j - 1 = 0
    OBVIOUS
  <2> QED
    BY <1>1, <1>2, <1>4, <2>1
<1> QED
  BY <1>1, <1>2, <1>4, <1>5 DEF Gives

\* What holds elements, one after another at the end of those that are there.
LEMMA RepeatedGives ==
  ASSUME NEW c, NEW m, NEW i, NEW hidden, NEW field, field = Wire[c][i],
         InMember(c, field), Cells[c][field.member].cell = "repeated",
         field.coding.coding \notin {"packed", "entry"},
         NEW S, NEW w \in Seq(S), NEW rs \in Seq(S), NEW T, NEW v \in Seq(T), Len(v) = Len(rs),
         Held(c, m, field) = v,
         \A j \in 1 .. Len(rs) : ReadsAs(hidden, field.coding, New(field.coding.of), v[j], rs[j])
  PROVE  Gives(c, m, i, hidden, w, w \o rs)
<1>1. PICK k \in Nat : k = Len(rs)
  BY LenProperties
<1>2. PICK part : part = [j \in 0 .. k |-> SubSeq(rs, 1, j)]
  OBVIOUS
<1>3. PICK W : W = [j \in 0 .. k |-> w \o part[j]]
  OBVIOUS
<1>4. \A j \in 0 .. k : part[j] \in Seq(S)
  <2>1. \A j \in 0 .. k : SubSeq(rs, 1, j) \in Seq(S)
    <3> SUFFICES ASSUME NEW j \in 0 .. k PROVE SubSeq(rs, 1, j) \in Seq(S)
      OBVIOUS
    <3>1. \A l \in 1 .. j : rs[l] \in S
      BY <1>1, ElementOfSeq
    <3> QED
      BY <3>1, SubSeqProperties
  <2> QED
    BY <1>2, <2>1
<1>5. part[0] = <<>> /\ part[k] = rs
  <2>1. SubSeq(rs, 1, 0) = <<>>
    BY SubSeqEmpty
  <2>2. SubSeq(rs, 1, k) = rs
    BY <1>1, SubSeqFull
  <2>3. 0 \in 0 .. k /\ k \in 0 .. k
    OBVIOUS
  <2> QED
    BY <1>2, <2>1, <2>2, <2>3
<1>6. ASSUME NEW j \in 1 .. k PROVE part[j] = part[j - 1] \o <<rs[j]>>
  <2>1. 1 \in 1 .. Len(rs) /\ j \in 1 .. Len(rs) /\ rs \in Seq(S)
    BY <1>1
  <2>2. SubSeq(rs, 1, j) = SubSeq(rs, 1, j - 1) \o <<rs[j]>>
    <3>1. \A l \in 1 .. Len(rs) : SubSeq(rs, 1, l) = SubSeq(rs, 1, l - 1) \o <<rs[l]>>
      <4> SUFFICES ASSUME NEW l \in 1 .. Len(rs) PROVE SubSeq(rs, 1, l) = SubSeq(rs, 1, l - 1) \o <<rs[l]>>
        OBVIOUS
      <4>1. 1 \in 1 .. Len(rs) /\ l \in 1 .. Len(rs) /\ rs \in Seq(S)
        BY <2>1
      <4> QED
        BY <4>1, SubSeqRecursiveSecond, ZenonT(30)
    <3> QED
      BY <2>1, <3>1
  <2>3. j \in 0 .. k /\ j - 1 \in 0 .. k
    OBVIOUS
  <2> QED
    BY <1>2, <2>2, <2>3
<1>7. W[0] = w /\ W[k] = w \o rs
  <2>1. 0 \in 0 .. k /\ k \in 0 .. k
    OBVIOUS
  <2>2. w \o <<>> = w
    BY ConcatEmptySeq
  <2> QED
    BY <1>3, <1>5, <2>1, <2>2
<1>8. ASSUME NEW j \in 1 .. k PROVE W[j] = Append(W[j - 1], rs[j])
  <2>1. j \in 0 .. k /\ j - 1 \in 0 .. k
    OBVIOUS
  <2>2. PICK x, y : x = part[j - 1] /\ y = rs[j]
    OBVIOUS
  <2>3. x \in Seq(S) /\ y \in S
    BY <1>1, <1>4, <2>1, <2>2, ElementOfSeq
  <2>4. part[j] = x \o <<y>>
    BY <1>6, <2>2
  <2>5. <<y>> \in Seq(S)
    BY <2>3, OneIsSeq
  <2>6. w \o (x \o <<y>>) = (w \o x) \o <<y>>
    BY <2>3, <2>5, ConcatAssociative
  <2>7. w \o x \in Seq(S)
    BY <2>3, ConcatProperties
  <2>8. Append(w \o x, y) = (w \o x) \o <<y>>
    BY <2>3, <2>7, AppendIsConcat
  <2>9. W[j] = w \o part[j] /\ W[j - 1] = w \o x
    BY <1>3, <2>1, <2>2
  <2> QED
    BY <2>2, <2>4, <2>6, <2>8, <2>9
<1>9. Gathers(c, m, i, hidden, rs, W)
  <2> SUFFICES ASSUME NEW j \in 1 .. k
               PROVE  /\ FieldReadsAs(hidden, field.coding, TargetIn(c, field, W[j - 1]), v[j], rs[j])
                      /\ W[j] = Taken(c, field, W[j - 1], v[j], rs[j])
    BY <1>1 DEF Gathers
  <2>1. TargetIn(c, field, W[j - 1]) = New(field.coding.of)
    BY DEF TargetIn
  <2>2. FieldReadsAs(hidden, field.coding, TargetIn(c, field, W[j - 1]), v[j], rs[j])
    BY <1>1, <2>1 DEF FieldReadsAs
  <2>3. PICK u : u = W[j - 1]
    OBVIOUS
  <2>4. Taken(c, field, u, v[j], rs[j]) = Append(u, rs[j])
    BY RepeatedTaking
  <2> QED
    BY <1>8, <2>2, <2>3, <2>4
<1> QED
  BY <1>1, <1>7, <1>9 DEF Gives

\* What holds the entries of a map, which replace those of the same key.
OverKeys(V, w, K) == Over([x \in K |-> V[x]], w)

LEMMA PutOverKeys ==
  ASSUME NEW V, NEW w, NEW K, NEW x
  PROVE  Put(OverKeys(V, w, K), x, V[x]) = OverKeys(V, w, K \cup {x})
<1>1. PICK f : f = [y \in K |-> V[y]]
  OBVIOUS
<1>2. PICK g : g = [y \in K \cup {x} |-> V[y]]
  OBVIOUS
<1>3. PICK h : h = Over(f, w)
  OBVIOUS
<1>4. DOMAIN h = K \cup DOMAIN w /\ \A y \in K \cup DOMAIN w : h[y] = IF y \in K THEN V[y] ELSE w[y]
  BY <1>1, <1>3 DEF Over
<1>5. Put(h, x, V[x]) = [y \in (K \cup DOMAIN w) \cup {x} |-> IF y = x THEN V[x] ELSE h[y]]
  BY <1>4 DEF Put
<1>6. Over(g, w) = [y \in (K \cup {x}) \cup DOMAIN w |-> IF y \in K \cup {x} THEN V[y] ELSE w[y]]
  BY <1>2 DEF Over
<1>7. (K \cup {x}) \cup DOMAIN w = (K \cup DOMAIN w) \cup {x}
  OBVIOUS
<1>8. \A y \in (K \cup DOMAIN w) \cup {x} :
        (IF y = x THEN V[x] ELSE h[y]) = (IF y \in K \cup {x} THEN V[y] ELSE w[y])
  BY <1>4
<1>9. Put(h, x, V[x]) = Over(g, w)
  BY <1>5, <1>6, <1>7, <1>8
<1> QED
  BY <1>1, <1>2, <1>3, <1>9 DEF OverKeys

LEMMA MapGives ==
  ASSUME NEW c, NEW m, NEW i, NEW hidden, NEW field, field = Wire[c][i],
         InMember(c, field), Cells[c][field.member].cell = "map", field.coding.coding = "entry",
         NEW v, IsFiniteSet(DOMAIN v), Held(c, m, field) = Unpack(Cells[c][field.member], v),
         NEW V, IsFunction(V), DOMAIN V = DOMAIN v, NEW w, IsFunction(w),
         \A x \in DOMAIN v : ReadsAs(hidden, field.coding.value, New(field.coding.value.of), v[x], V[x])
  PROVE  Gives(c, m, i, hidden, w, Over(V, w))
<1>1. PICK keys : keys = Iterated(v)
  OBVIOUS
<1>2. PICK k \in Nat : keys \in [1 .. k -> DOMAIN v] /\ \A x \in DOMAIN v : \E j \in 1 .. k : keys[j] = x
  BY <1>1, IteratedKeys
<1>3. PICK held : held = Held(c, m, field)
  OBVIOUS
<1>4. held = [j \in 1 .. k |-> <<keys[j], v[keys[j]]>>]
  <2>1. Unpack(Cells[c][field.member], v) = [j \in DOMAIN keys |-> <<keys[j], v[keys[j]]>>]
    BY <1>1, SMT DEF Unpack
  <2> QED
    BY <1>2, <1>3, <2>1
<1>5. Len(held) = k /\ DOMAIN held = 1 .. k
  <2>1. held \in [1 .. k -> {<<keys[j], v[keys[j]]>> : j \in 1 .. k}]
    BY <1>4
  <2>2. held \in Seq({<<keys[j], v[keys[j]]>> : j \in 1 .. k})
    BY <2>1, SeqDef
  <2>3. DOMAIN held = 1 .. k /\ Len(held) \in Nat /\ DOMAIN held = 1 .. Len(held)
    BY <1>4, <2>2, LenProperties
  <2> QED
    BY <2>3
<1>6. PICK K : K = [j \in 0 .. k |-> {keys[l] : l \in 1 .. j}]
  OBVIOUS
<1>7. K[0] = {} /\ K[k] = DOMAIN v
  <2>1. 0 \in 0 .. k /\ k \in 0 .. k /\ 1 .. 0 = {}
    OBVIOUS
  <2>2. K[0] = {keys[l] : l \in 1 .. 0} /\ K[k] = {keys[l] : l \in 1 .. k}
    BY <1>6, <2>1
  <2>3. {keys[l] : l \in 1 .. k} = DOMAIN v
    <3>1. \A l \in 1 .. k : keys[l] \in DOMAIN v
      BY <1>2
    <3>2. \A x \in DOMAIN v : x \in {keys[l] : l \in 1 .. k}
      BY <1>2
    <3>3. \A x \in {keys[l] : l \in 1 .. k} : x \in DOMAIN v
      BY <3>1
    <3> QED
      BY <3>2, <3>3
  <2> QED
    BY <2>1, <2>2, <2>3
<1>8. \A j \in 1 .. k : K[j] = K[j - 1] \cup {keys[j]}
  <2> SUFFICES ASSUME NEW j \in 1 .. k PROVE K[j] = K[j - 1] \cup {keys[j]}
    OBVIOUS
  <2>1. j \in 0 .. k /\ j - 1 \in 0 .. k
    OBVIOUS
  <2>2. \A l \in Int : l \in 1 .. j <=> l \in 1 .. j - 1 \/ l = j
    OBVIOUS
  <2> QED
    BY <1>6, <2>1, <2>2
<1>9. PICK W : W = [j \in 0 .. k |-> OverKeys(V, w, K[j])]
  OBVIOUS
<1>10. W[0] = w /\ W[k] = Over(V, w)
  <2>1. 0 \in 0 .. k /\ k \in 0 .. k
    OBVIOUS
  <2>2. OverKeys(V, w, {}) = w
    BY DEF OverKeys, Over, IsFunction
  <2>3. OverKeys(V, w, DOMAIN v) = Over(V, w)
    BY DEF OverKeys, IsFunction
  <2> QED
    BY <1>7, <1>9, <2>1, <2>2, <2>3
<1>11. PICK rs : rs = [j \in 1 .. k |-> V[keys[j]]]
  OBVIOUS
<1>12. Gathers(c, m, i, hidden, rs, W)
  <2> SUFFICES ASSUME NEW j \in 1 .. k
               PROVE  /\ FieldReadsAs(hidden, field.coding, TargetIn(c, field, W[j - 1]), held[j], rs[j])
                      /\ W[j] = Taken(c, field, W[j - 1], held[j], rs[j])
    BY <1>3, <1>5 DEF Gathers
  <2>1. PICK x : x = keys[j] /\ x \in DOMAIN v
    BY <1>2
  <2>2. held[j] = <<x, v[x]>> /\ rs[j] = V[x]
    BY <1>4, <1>11, <2>1
  <2>3. held[j][1] = x /\ held[j][2] = v[x]
    BY <2>2
  <2>4. FieldReadsAs(hidden, field.coding, TargetIn(c, field, W[j - 1]), held[j], rs[j])
    BY <2>1, <2>2, <2>3 DEF FieldReadsAs
  <2>5. j \in 0 .. k /\ j - 1 \in 0 .. k
    OBVIOUS
  <2>6. PICK u, Z : Z = K[j - 1] /\ u = OverKeys(V, w, Z)
    OBVIOUS
  <2>7. Put(u, x, V[x]) = OverKeys(V, w, Z \cup {x})
    <3>1. Put(OverKeys(V, w, Z), x, V[x]) = OverKeys(V, w, Z \cup {x})
      BY PutOverKeys
    <3> QED
      BY <2>6, <3>1
  <2>8. K[j] = Z \cup {x}
    BY <1>8, <2>1, <2>6
  <2>9. W[j - 1] = u /\ W[j] = Put(u, x, V[x])
    BY <1>9, <2>5, <2>6, <2>7, <2>8
  <2>10. Taken(c, field, u, held[j], rs[j]) = Put(u, held[j][1], rs[j])
    BY SortOfTaking
  <2> QED
    BY <2>2, <2>3, <2>4, <2>9, <2>10
<1> QED
  BY <1>3, <1>5, <1>10, <1>12 DEF Gives

\* What an object holds for a field.
LEMMA HeldIs ==
  ASSUME NEW c, NEW m, NEW field
  PROVE  /\ InMember(c, field) /\ field.coding.coding = "packed" =>
              Held(c, m, field) = IF m[field.member] = <<>> THEN <<>> ELSE <<m[field.member]>>
         /\ InMember(c, field) /\ field.coding.coding # "packed" =>
              Held(c, m, field) = Unpack(Cells[c][field.member], m[field.member])
         /\ ~InMember(c, field) /\ field.coding.coding # "packed" =>
              Held(c, m, field) = IF m["kind"].case # field.member THEN <<>> ELSE <<m["kind"].value>>
<1>1. CASE InMember(c, field) /\ field.coding.coding = "packed"
  BY <1>1, SMT DEF Held
<1>2. CASE InMember(c, field) /\ field.coding.coding # "packed"
  BY <1>2, SMT DEF Held
<1>3. CASE ~InMember(c, field) /\ field.coding.coding # "packed"
  BY <1>3, SMT DEF Held, UnpackKind
<1> QED
  BY <1>1, <1>2, <1>3

\* Integers that are written as one value, and a scalar.
LEMMA PackedGives ==
  ASSUME NEW c, NEW m, NEW i, NEW hidden, NEW field, field = Wire[c][i], InMember(c, field),
         NEW cell, cell = Cells[c][field.member], cell.cell = "repeated", field.coding.coding = "packed",
         NEW S, NEW v \in Seq(S), Held(c, m, field) = IF v = <<>> THEN <<>> ELSE <<v>>, NEW w \in Seq(S)
  PROVE  Gives(c, m, i, hidden, w, MergeMember(cell, w, v))
<1>1. MergeMember(cell, w, v) = w \o v
  BY RepeatedMerging
<1>2. CASE v = <<>>
  <2>1. MergeMember(cell, w, v) = w
    BY <1>1, <1>2, ConcatEmptySeq
  <2> QED
    BY <1>2, <2>1, NoneGives
<1>3. CASE v # <<>>
  <2>1. FieldReadsAs(hidden, field.coding, TargetIn(c, field, w), v, v)
    BY DEF FieldReadsAs
  <2>2. Taken(c, field, w, v, v) = w \o v
    BY RepeatedTaking
  <2>3. Held(c, m, Wire[c][i]) = <<v>>
    BY <1>3
  <2>4. Gives(c, m, i, hidden, w, Taken(c, Wire[c][i], w, v, v))
    BY <2>1, <2>3, OneGives
  <2> QED
    BY <1>1, <2>2, <2>4
<1> QED
  BY <1>2, <1>3

\* A field of a class, the member that it is of, and what the object has there.
MemberAt(c, m, i, field, cell, v) ==
  field = Wire[c][i] /\ cell = Cells[c][field.member] /\ v = m[field.member]

KindAt(c, m, i, field, cell, v) == field = Wire[c][i] /\ cell = Cells[c]["kind"] /\ v = m["kind"]

LEMMA HeldUnpacked ==
  ASSUME NEW c, NEW m, NEW i, NEW field, NEW cell, NEW v, MemberAt(c, m, i, field, cell, v),
         InMember(c, field), field.coding.coding # "packed"
  PROVE  /\ Held(c, m, field) = Unpack(cell, v)
         /\ \A r : Held(c, r, field) = Unpack(cell, r[field.member])
<1>1. cell = Cells[c][field.member] /\ v = m[field.member]
  BY DEF MemberAt
<1>2. \A r : Held(c, r, field) = Unpack(Cells[c][field.member], r[field.member])
  BY HeldIs
<1> QED
  BY <1>1, <1>2

LEMMA MemberTakes ==
  ASSUME NEW c, NEW m, NEW i, NEW field, NEW cell, NEW v, MemberAt(c, m, i, field, cell, v),
         InMember(c, field), NEW w, NEW x, NEW r
  PROVE  /\ cell.cell \in {"text", "number"} => Taken(c, field, w, x, r) = r
         /\ cell.cell = "pointer" => Taken(c, field, w, x, r) = <<r>>
<1>1. cell = Cells[c][field.member]
  BY DEF MemberAt
<1> QED
  BY <1>1, SortOfTaking

LEMMA PlainGives ==
  ASSUME NEW c \in Classes, NEW m, NEW i, NEW hidden, NEW field, NEW cell, NEW v,
         MemberAt(c, m, i, field, cell, v), InMember(c, field), MemberCoding(cell, field.coding),
         cell.cell \in {"text", "number"} \/ field.coding.coding = "packed", NEW below,
         v \in Contents(below, cell), NEW w \in Contents(below, cell)
  PROVE  Gives(c, m, i, hidden, w, MergeMember(cell, w, v))
<1>1. PICK coding : coding = field.coding
  OBVIOUS
<1>2. field = Wire[c][i] /\ cell = Cells[c][field.member] /\ v = m[field.member]
  BY DEF MemberAt
<1>3. CASE cell.cell \in {"text", "number"}
  <2>1. ElementCoding(cell, coding) /\ cell.cell # "object"
    BY <1>1, <1>3 DEF MemberCoding
  <2>2. coding.coding \in {"varint", "utf8", "bytes"}
    BY <2>1, CodingNames DEF ElementCoding
  <2>3. Unpack(cell, v) = IF v = Default(cell) THEN <<>> ELSE <<v>>
    <3>1. CASE cell.cell = "text"
      BY <3>1, SortOfUnpacking
    <3>2. CASE cell.cell = "number"
      BY <3>2, SortOfUnpacking
    <3> QED
      BY <1>3, <3>1, <3>2
  <2>4. Held(c, m, field) = IF v = Default(cell) THEN <<>> ELSE <<v>>
    <3>1. field.coding.coding # "packed"
      BY <1>1, <2>2
    <3>2. Held(c, m, field) = Unpack(cell, v)
      BY <3>1, HeldUnpacked
    <3> QED
      BY <2>3, <3>2
  <2>5. MergeMember(cell, w, v) = IF v = Default(cell) THEN w ELSE v
    <3>1. CASE cell.cell = "text"
      BY <3>1, SortOfMerging
    <3>2. CASE cell.cell = "number"
      BY <3>2, SortOfMerging
    <3> QED
      BY <1>3, <3>1, <3>2
  <2>6. CASE v = Default(cell)
    <3>1. Held(c, m, Wire[c][i]) = <<>>
      BY <1>2, <2>4, <2>6
    <3>2. Gives(c, m, i, hidden, w, w)
      BY <3>1, NoneGives
    <3> QED
      BY <2>5, <2>6, <3>2
  <2>7. CASE v # Default(cell)
    <3>1. FieldReadsAs(hidden, coding, TargetIn(c, field, w), v, v)
      BY <2>2 DEF FieldReadsAs, ReadsAs
    <3>2. Taken(c, field, w, v, v) = v
      BY <1>3, MemberTakes
    <3>3. Held(c, m, Wire[c][i]) = <<v>>
      BY <1>2, <2>4, <2>7
    <3>4. Gives(c, m, i, hidden, w, Taken(c, Wire[c][i], w, v, v))
      BY <1>1, <1>2, <3>1, <3>3, OneGives
    <3> QED
      BY <1>2, <2>5, <2>7, <3>2, <3>4
  <2> QED
    BY <2>6, <2>7
<1>4. CASE coding.coding = "packed"
  <2>1. cell.cell = "repeated"
    <3>1. \A x : ~ElementCoding(x, coding)
      BY <1>4, ElementIsWritten, ElementaryValues
    <3>2. coding # Msg(cell.of) /\ coding # Entry(coding.key, coding.value)
      BY <1>4, CodingNames
    <3> QED
      BY <1>1, <3>1, <3>2 DEF MemberCoding
  <2>2. PICK S : v \in Seq(S) /\ w \in Seq(S)
    BY <2>1, SortOfMember
  <2> QED
    <3>1. field.coding.coding = "packed"
      BY <1>1, <1>4
    <3>2. Held(c, m, field) = IF v = <<>> THEN <<>> ELSE <<v>>
      BY <1>2, <3>1, HeldIs
    <3> QED
      BY <1>2, <2>1, <2>2, <3>1, <3>2, PackedGives
<1> QED
  BY <1>1, <1>3, <1>4

------------------------------------------------------------------------------
(* Reading an object into another is merging it. *)

MergesAll(d) ==
  \A c \in Classes : \A t \in Whole(d, c) : \A m \in Whole(d, c) : \A depth \in Nat :
    Parse(c, t, Serialize(c, m), depth, {}) = IF Readable(c, m, depth) THEN <<MergeFrom(c, t, m)>> ELSE <<>>

Joined(coding, old, v) == IF coding.coding = "message" THEN MergeFrom(coding.of, old, v) ELSE v

LEMMA JoinedReads ==
  ASSUME NEW d \in Nat, MergesAll(d), NEW coding, ElementaryCoding(coding),
         NEW v \in ElementValues(Nested({})[d], coding),
         NEW old, coding.coding = "message" => old \in Whole(d, coding.of)
  PROVE  ReadsAs({}, coding, old, v, Joined(coding, old, v))
<1>1. CASE coding.coding # "message"
  BY <1>1 DEF ReadsAs, Joined
<1>2. CASE coding.coding = "message"
  <2>1. PICK c \in Classes : c = coding.of
    BY <1>2 DEF ElementaryCoding
  <2>2. v \in Whole(d, c) /\ old \in Whole(d, c)
    BY <1>2, <2>1, SMT DEF ElementValues, Whole, Objects
  <2>3. \A depth \in Nat : Parse(c, old, Serialize(c, v), depth, {}) =
                             IF Readable(c, v, depth) THEN <<MergeFrom(c, old, v)>> ELSE <<>>
    BY <2>2 DEF MergesAll
  <2> QED
    BY <1>2, <2>1, <2>3 DEF ReadsAs, Joined
<1> QED
  BY <1>1, <1>2

LEMMA NewReads ==
  ASSUME InnerMergeFrom, NEW d \in Nat, MergesAll(d), NEW coding, ElementaryCoding(coding),
         NEW v \in ElementValues(Nested({})[d], coding)
  PROVE  /\ ReadsAs({}, coding, New(coding.of), v, v)
         /\ coding.coding = "message" => New(coding.of) \in Whole(d, coding.of) /\ v \in Whole(d, coding.of)
<1>1. CASE coding.coding # "message"
  BY <1>1 DEF ReadsAs
<1>2. CASE coding.coding = "message"
  <2>1. PICK c \in Classes : c = coding.of
    BY <1>2 DEF ElementaryCoding
  <2>2. v \in Whole(d, c)
    BY <1>2, <2>1, SMT DEF ElementValues, Whole, Objects
  <2>3. d # 0
    BY <2>2, ObjectsByNesting DEF Whole
  <2>4. New(c) \in Whole(d, c)
    BY <2>3, NewIsObject DEF Whole
  <2>5. MergeFrom(c, New(c), v) = v
    BY <2>2, MergeIntoNew
  <2>6. Joined(coding, New(c), v) = v
    BY <1>2, <2>1, <2>5 DEF Joined
  <2>7. ReadsAs({}, coding, New(c), v, Joined(coding, New(c), v))
    BY <2>1, <2>4, JoinedReads
  <2> QED
    BY <2>1, <2>2, <2>4, <2>6, <2>7
<1> QED
  BY <1>1, <1>2

\* The fields of which an object holds something, each for a member of its own.
NameOf(c, i) == MemberName(c, Wire[c][i])
Writes(c, m, i) == InMember(c, Wire[c][i]) \/ m["kind"].case = Wire[c][i].member

LEMMA NameIsMember ==
  ASSUME NEW c \in Classes, NEW i \in DOMAIN Wire[c]
  PROVE  NameOf(c, i) \in DOMAIN Cells[c] /\ NameOf(c, i) # "unknown_fields"
<1>1. NameOf(c, i) \in DOMAIN Cells[c]
  BY FieldOfMember DEF NameOf, MemberName
<1> QED
  BY <1>1, NewMembers

LEMMA OneWriter ==
  ASSUME NEW c \in Classes, NEW m, NEW i \in DOMAIN Wire[c], NEW j \in DOMAIN Wire[c],
         Writes(c, m, i), Writes(c, m, j), NameOf(c, i) = NameOf(c, j)
  PROVE  i = j
<1>1. \A x, y \in DOMAIN Wire[c] : Wire[c][x].member = Wire[c][y].member => x = y
  BY Tables DEF TableOf
<1>2. ASSUME NEW x \in DOMAIN Wire[c], InMember(c, Wire[c][x]), Wire[c][x].member = "kind"
      PROVE  Cells[c]["kind"].cell # "choice"
  <2>1. MemberCoding(Cells[c]["kind"], Wire[c][x].coding)
    BY <1>2, FieldOfMember
  <2> QED
    BY <2>1 DEF MemberCoding
<1>3. ASSUME NEW x \in DOMAIN Wire[c], ~InMember(c, Wire[c][x])
      PROVE  Cells[c]["kind"].cell = "choice"
  BY <1>3, FieldOfMember
<1>4. CASE InMember(c, Wire[c][i]) /\ InMember(c, Wire[c][j])
  BY <1>1, <1>4 DEF NameOf, MemberName
<1>5. CASE InMember(c, Wire[c][i]) /\ ~InMember(c, Wire[c][j])
  BY <1>2, <1>3, <1>5 DEF NameOf, MemberName
<1>6. CASE ~InMember(c, Wire[c][i]) /\ InMember(c, Wire[c][j])
  BY <1>2, <1>3, <1>6 DEF NameOf, MemberName
<1>7. CASE ~InMember(c, Wire[c][i]) /\ ~InMember(c, Wire[c][j])
  BY <1>1, <1>7 DEF Writes
<1> QED
  BY <1>4, <1>5, <1>6, <1>7

\* The object after the first i of its fields: the members that they were written for are
\* what Z says.
After(c, m, t, Z, i) ==
  [f \in Members(c) |-> IF \E k \in 1 .. i : Writes(c, m, k) /\ NameOf(c, k) = f THEN Z[f] ELSE t[f]]

LEMMA AfterOneMore ==
  ASSUME NEW c \in Classes, NEW m, NEW t, IsFunction(t), DOMAIN t = Members(c), NEW Z,
         NEW n \in Nat, DOMAIN Wire[c] = 1 .. n, NEW i \in 1 .. n
  PROVE  /\ After(c, m, t, Z, 0) = t
         /\ Writes(c, m, i) =>
              /\ After(c, m, t, Z, i - 1)[NameOf(c, i)] = t[NameOf(c, i)]
              /\ After(c, m, t, Z, i) = With(After(c, m, t, Z, i - 1), NameOf(c, i), Z[NameOf(c, i)])
         /\ ~Writes(c, m, i) => After(c, m, t, Z, i) = After(c, m, t, Z, i - 1)
<1>1. After(c, m, t, Z, 0) = t
  <2>1. 1 .. 0 = {}
    OBVIOUS
  <2> QED
    BY <2>1 DEF After, IsFunction
<1>2. ASSUME NEW k \in Int PROVE k \in 1 .. i <=> k \in 1 .. i - 1 \/ k = i
  OBVIOUS
<1>3. PICK Before, Now : /\ Before = {f \in Members(c) : \E k \in 1 .. i - 1 : Writes(c, m, k) /\ NameOf(c, k) = f}
                         /\ Now = {f \in Members(c) : \E k \in 1 .. i : Writes(c, m, k) /\ NameOf(c, k) = f}
  OBVIOUS
<1>4. PICK X, Y : /\ X = [f \in Members(c) |-> IF f \in Before THEN Z[f] ELSE t[f]]
                  /\ Y = [f \in Members(c) |-> IF f \in Now THEN Z[f] ELSE t[f]]
  OBVIOUS
<1>5. After(c, m, t, Z, i - 1) = X
  <2>1. \A f \in Members(c) : f \in Before <=> \E k \in 1 .. i - 1 : Writes(c, m, k) /\ NameOf(c, k) = f
    BY <1>3
  <2> QED
    BY <1>4, <2>1 DEF After
<1>6. After(c, m, t, Z, i) = Y
  <2>1. \A f \in Members(c) : f \in Now <=> \E k \in 1 .. i : Writes(c, m, k) /\ NameOf(c, k) = f
    BY <1>3
  <2> QED
    BY <1>4, <2>1 DEF After
<1>7. PICK name : name = NameOf(c, i)
  OBVIOUS
<1>8. name \in Members(c)
  BY <1>7, NameIsMember DEF Members
<1>9. ASSUME Writes(c, m, i)
      PROVE  X[name] = t[name] /\ Y = With(X, name, Z[name])
  <2>1. name \notin Before
    <3> SUFFICES ASSUME name \in Before PROVE FALSE
      OBVIOUS
    <3>1. PICK k \in 1 .. i - 1 : Writes(c, m, k) /\ NameOf(c, k) = name
      BY <1>3
    <3>2. k \in DOMAIN Wire[c] /\ i \in DOMAIN Wire[c] /\ k # i
      OBVIOUS
    <3> QED
      BY <1>7, <1>9, <3>1, <3>2, OneWriter
  <2>2. Now = Before \cup {name}
    <3>1. \A f \in Members(c) : f \in Now <=> f \in Before \/ f = name
      BY <1>2, <1>3, <1>7, <1>9
    <3> QED
      BY <1>3, <1>8, <3>1
  <2> QED
    BY <1>4, <1>8, <2>1, <2>2 DEF With
<1>10. ASSUME ~Writes(c, m, i) PROVE Y = X
  <2>1. Now = Before
    <3>1. \A f \in Members(c) : f \in Now <=> f \in Before
      BY <1>2, <1>3, <1>10
    <3> QED
      BY <1>3, <3>1
  <2> QED
    BY <1>4, <2>1
<1> QED
  BY <1>1, <1>5, <1>6, <1>7, <1>9, <1>10

\* The first k fields of an object, if the reader knows them all.
MembersGive(c, m, t, Z, k, hidden) ==
  \A i \in 1 .. k :
    /\ <<c, i>> \notin hidden
    /\ Writes(c, m, i) => Gives(c, m, i, hidden, t[NameOf(c, i)], Z[NameOf(c, i)])

ReadableTo(c, m, k, depth) == \A i \in 1 .. k : ReadableMember(c, m, i, depth)

LEMMA MembersRead ==
  ASSUME InnerParse, InnerSerialize, InnerReadable,
         NEW d \in Nat, NEW c \in Classes, NEW m \in Whole(d + 1, c),
         NEW n \in Nat, n = Len(Wire[c]), NEW k \in 0 .. n, NEW hidden,
         NEW t, IsFunction(t), DOMAIN t = Members(c), NEW Z, MembersGive(c, m, t, Z, k, hidden),
         NEW S, FieldsIn(S, c, m, n), NEW F, Written(S, c, m, n, F), NEW depth \in Nat,
         hidden = {} \/ ReadableTo(c, m, k, depth)
  PROVE  Parse(c, t, F[k], depth, hidden) =
           IF ReadableTo(c, m, k, depth) THEN <<After(c, m, t, Z, k)>> ELSE <<>>
<1>1. DOMAIN Wire[c] = 1 .. n
  BY Tables DEF TableOf
<1>2. PICK X : X = [i \in 0 .. k |-> After(c, m, t, Z, i)]
  OBVIOUS
<1>3. PICK G : G = [i \in 1 .. k |-> FieldsOf(c, m, i)]
  OBVIOUS
<1>4. PICK R : R = {i \in 1 .. k : ReadableMember(c, m, i, depth)}
  OBVIOUS
<1>5. Chunks(S, k, F, G)
  <2>1. F[0] = <<>> /\ \A i \in 0 .. k : F[i] \in Seq(S)
    <3>1. F[0] = <<>> /\ F \in [0 .. n -> Seq(S)]
      BY DEF Written
    <3>2. \A i \in 0 .. k : i \in 0 .. n
      OBVIOUS
    <3> QED
      BY <3>1, <3>2
  <2>2. \A i \in 1 .. k : G[i] \in Seq(S) /\ F[i] = F[i - 1] \o G[i]
    <3>1. \A i \in 1 .. n : FieldsOf(c, m, i) \in Seq(S) /\ F[i] = F[i - 1] \o FieldsOf(c, m, i)
      BY DEF Written, FieldsIn
    <3>2. \A i \in 1 .. k : i \in 1 .. n /\ G[i] = FieldsOf(c, m, i)
      BY <1>3
    <3> QED
      BY <3>1, <3>2
  <2> QED
    BY <2>1, <2>2 DEF Chunks
<1>6. ReadsChunks(c, k, G, X, R, depth, hidden)
  <2> SUFFICES ASSUME NEW i \in 1 .. k
               PROVE  Parse(c, X[i - 1], G[i], depth, hidden) = IF i \in R THEN <<X[i]>> ELSE <<>>
    BY DEF ReadsChunks
  <2>1. i \in 1 .. n /\ i \in DOMAIN Wire[c] /\ i - 1 \in 0 .. k /\ i \in 0 .. k
    BY <1>1
  <2>2. PICK Y, name : Y = After(c, m, t, Z, i - 1) /\ name = NameOf(c, i)
    OBVIOUS
  <2>3. X[i - 1] = Y /\ X[i] = After(c, m, t, Z, i) /\ G[i] = FieldsOf(c, m, i)
    BY <1>2, <1>3, <2>1, <2>2
  <2>4. IsFunction(Y) /\ DOMAIN Y = Members(c)
    BY <2>2 DEF After, IsFunction
  <2>5. name \in DOMAIN Y /\ name = MemberName(c, Wire[c][i])
    BY <2>1, <2>2, <2>4, NameIsMember DEF Members, NameOf
  <2>6. <<c, i>> \notin hidden
    BY DEF MembersGive
  <2>7. PICK w : w = Y[name]
    OBVIOUS
  <2>8. ASSUME NEW z, Gives(c, m, i, hidden, w, z)
        PROVE  Parse(c, Y, FieldsOf(c, m, i), depth, hidden) =
                 IF ReadableMember(c, m, i, depth) THEN <<With(Y, name, z)>> ELSE <<>>
    <3>1. hidden = {} \/ ReadableMember(c, m, i, depth)
      BY DEF ReadableTo
    <3>2. ReadsMember(c, m, i, Y, z, depth, hidden)
      BY <2>1, <2>4, <2>5, <2>6, <2>7, <2>8, <3>1, MemberRead
    <3> QED
      BY <2>5, <3>2 DEF ReadsMember
  <2>9. i \in R <=> ReadableMember(c, m, i, depth)
    BY <1>4
  <2>10. CASE Writes(c, m, i)
    <3>1. Gives(c, m, i, hidden, t[name], Z[name])
      BY <2>2, <2>10 DEF MembersGive
    <3>2. w = t[name] /\ With(Y, name, Z[name]) = X[i]
      BY <1>1, <2>1, <2>2, <2>3, <2>7, <2>10, AfterOneMore
    <3> QED
      BY <2>3, <2>8, <2>9, <3>1, <3>2
  <2>11. CASE ~Writes(c, m, i)
    <3>1. Held(c, m, Wire[c][i]) = <<>>
      <4>1. ~InMember(c, Wire[c][i]) /\ m["kind"].case # Wire[c][i].member
        BY <2>11 DEF Writes
      <4>2. ElementCoding(Cells[c]["kind"].of[Wire[c][i].member], Wire[c][i].coding)
        BY <2>1, <4>1, FieldOfMember
      <4>3. Wire[c][i].coding.coding # "packed"
        BY <4>2, ElementIsWritten, ElementaryValues
      <4> QED
        BY <4>1, <4>3, HeldIs
    <3>2. Gives(c, m, i, hidden, w, w)
      BY <3>1, NoneGives
    <3>3. With(Y, name, w) = Y
      BY <2>4, <2>5, <2>7, WithWith
    <3>4. X[i] = Y
      BY <1>1, <2>1, <2>2, <2>3, <2>11, AfterOneMore
    <3> QED
      BY <2>3, <2>8, <2>9, <3>2, <3>3, <3>4
  <2> QED
    BY <2>10, <2>11
<1>7. k \in Nat
  OBVIOUS
<1>8. Parse(c, X[0], F[k], depth, hidden) = IF 1 .. k \subseteq R THEN <<X[k]>> ELSE <<>>
  BY <1>5, <1>6, <1>7, ParseChunks
<1>9. X[0] = t /\ X[k] = After(c, m, t, Z, k)
  <2>1. 0 \in 0 .. k /\ k \in 0 .. k /\ 1 .. 0 = {}
    BY <1>7
  <2>2. After(c, m, t, Z, 0) = t
    BY <2>1 DEF After, IsFunction
  <2> QED
    BY <1>2, <2>1, <2>2
<1>10. 1 .. k \subseteq R <=> ReadableTo(c, m, k, depth)
  BY <1>4 DEF ReadableTo
<1> QED
  BY <1>8, <1>9, <1>10

\* What a oneof holds.
LEMMA KindMerges ==
  ASSUME InnerMergeFrom, NEW d \in Nat, MergesAll(d), NEW c \in Classes, NEW m,
         NEW i \in DOMAIN Wire[c], NEW field, NEW cell, NEW v, KindAt(c, m, i, field, cell, v),
         ~InMember(c, field), v.case = field.member, v \in Contents(Nested({})[d], cell),
         NEW w \in Contents(Nested({})[d], cell)
  PROVE  Gives(c, m, i, {}, w, MergeMember(cell, w, v))
<1>1. PICK k, coding, element, below :
        k = field.member /\ coding = field.coding /\ element = cell.of[k] /\ below = Nested({})[d]
  OBVIOUS
<1>2. field = Wire[c][i] /\ cell = Cells[c]["kind"] /\ v = m["kind"]
  BY DEF KindAt
<1>3. cell.cell = "choice" /\ k \in DOMAIN cell.of /\ ElementCoding(element, coding)
  BY <1>1, <1>2, FieldOfMember
<1>4. k # "NOT_SET"
  <2>1. SoundCell(cell)
    BY <1>2, FieldOfMember, CellsAreSound
  <2> QED
    BY <1>3, <2>1 DEF SoundCell
<1>5. v # NOT_SET
  BY <1>1, <1>4 DEF NOT_SET
<1>6. PICK x \in ElementsOf(below, element) : v = [case |-> k, value |-> x]
  <2>1. PICK l \in DOMAIN cell.of : \E x \in ElementsOf(below, cell.of[l]) : v = [case |-> l, value |-> x]
    BY <1>1, <1>3, <1>5, ChoiceContents
  <2>2. PICK x \in ElementsOf(below, cell.of[l]) : v = [case |-> l, value |-> x]
    BY <2>1
  <2>3. l = k
    BY <1>1, <2>2
  <2> QED
    BY <1>1, <2>2, <2>3
<1>7. /\ ElementaryCoding(coding) /\ x \in ElementValues(below, coding)
      /\ coding.coding # "packed" /\ coding.coding # "entry"
  BY <1>3, <1>6, ElementIsWritten, ElementaryValues
<1>8. PICK old : old = IF w.case = k THEN w.value ELSE New(coding.of)
  OBVIOUS
<1>9. TargetIn(c, field, w) = old
  BY <1>1, <1>8 DEF TargetIn
<1>10. coding.coding = "message" => /\ element.cell = "object" /\ element.of = coding.of
                                   /\ coding.of \in Classes /\ x \in Whole(d, coding.of)
                                   /\ old \in Whole(d, coding.of)
  <2> SUFFICES ASSUME coding.coding = "message"
               PROVE  /\ element.cell = "object" /\ element.of = coding.of
                      /\ coding.of \in Classes /\ x \in Whole(d, coding.of)
                      /\ old \in Whole(d, coding.of)
    OBVIOUS
  <2>1. element.cell = "object" /\ element.of = coding.of /\ coding.of \in Classes
    BY <1>3, CodingNames DEF ElementCoding
  <2>2. New(coding.of) \in Whole(d, coding.of) /\ x \in Whole(d, coding.of)
    BY <1>1, <1>7, NewReads
  <2>3. CASE w.case # k
    BY <1>8, <2>1, <2>2, <2>3
  <2>4. CASE w.case = k
    <3>1. w # NOT_SET
      BY <1>4, <2>4 DEF NOT_SET
    <3>2. PICK l \in DOMAIN cell.of : \E y \in ElementsOf(below, cell.of[l]) : w = [case |-> l, value |-> y]
      BY <1>1, <1>3, <3>1, ChoiceContents
    <3>3. PICK y \in ElementsOf(below, cell.of[l]) : w = [case |-> l, value |-> y]
      BY <3>2
    <3>4. l = k /\ old = y
      BY <1>8, <2>4, <3>3
    <3>5. ElementsOf(below, element) = below[coding.of]
      BY <2>1 DEF ElementsOf
    <3>6. old \in Whole(d, coding.of)
      BY <1>1, <3>3, <3>4, <3>5 DEF Whole, Objects
    <3> QED
      BY <2>1, <2>2, <3>6
  <2> QED
    BY <2>3, <2>4
<1>11. PICK r : r = Joined(coding, old, x)
  OBVIOUS
<1>12. FieldReadsAs({}, coding, old, x, r)
  BY <1>1, <1>7, <1>10, <1>11, JoinedReads DEF FieldReadsAs
<1>13. Held(c, m, field) = <<x>>
  <2>1. field.coding.coding # "packed"
    BY <1>1, <1>7
  <2>2. Held(c, m, field) = IF v.case # field.member THEN <<>> ELSE <<v.value>>
    BY <1>2, <2>1, HeldIs
  <2>3. v.value = x
    BY <1>6
  <2> QED
    BY <2>2, <2>3
<1>14. Taken(c, field, w, x, r) = [case |-> k, value |-> r]
  BY <1>1, <1>2, SortOfTaking
<1>15. MergeMember(cell, w, v) = [case |-> k, value |-> r]
  <2>1. MergeMember(cell, w, v) = MergeKind(cell, w, v)
    BY <1>3, SortOfMerging
  <2>2. v.case = k /\ v.value = x
    BY <1>6
  <2>3. CASE coding.coding # "message"
    <3>1. element.cell # "object"
      BY <1>3, <2>3, CodingNames DEF ElementCoding
    <3>2. MergeKind(cell, w, v) = v
      BY <1>1, <1>5, <2>2, <3>1 DEF MergeKind
    <3>3. r = x
      BY <1>11, <2>3 DEF Joined
    <3> QED
      BY <1>6, <2>1, <3>2, <3>3
  <2>4. CASE coding.coding = "message"
    <3>1. PICK e : e = coding.of
      OBVIOUS
    <3>2. MergeKind(cell, w, v) = [v EXCEPT !.value = Inner_MergeFrom(e, old, x)]
      BY <1>1, <1>5, <1>8, <1>10, <2>2, <2>4, <3>1 DEF MergeKind
    <3>3. Inner_MergeFrom(e, old, x) = MergeFrom(e, old, x)
      BY <1>10, <2>4, <3>1 DEF InnerMergeFrom
    <3>4. r = MergeFrom(e, old, x)
      BY <1>11, <2>4, <3>1 DEF Joined
    <3>5. [v EXCEPT !.value = r] = [case |-> k, value |-> r]
      BY <1>6
    <3> QED
      BY <2>1, <3>2, <3>3, <3>4, <3>5
  <2> QED
    BY <2>3, <2>4
<1>16. Gives(c, m, i, {}, w, Taken(c, field, w, x, r))
  BY <1>1, <1>2, <1>9, <1>12, <1>13, OneGives
<1> QED
  BY <1>2, <1>14, <1>15, <1>16

\* An object that a pointer points to.
LEMMA PointerMerges ==
  ASSUME InnerMergeFrom, NEW d \in Nat, MergesAll(d), NEW c \in Classes, NEW m,
         NEW i \in DOMAIN Wire[c], NEW field, NEW cell, NEW v, MemberAt(c, m, i, field, cell, v),
         InMember(c, field), cell.cell = "pointer", MemberCoding(cell, field.coding),
         v \in Contents(Nested({})[d], cell), NEW w \in Contents(Nested({})[d], cell)
  PROVE  Gives(c, m, i, {}, w, MergeMember(cell, w, v))
<1>1. PICK e, coding : e = cell.of /\ coding = field.coding
  OBVIOUS
<1>2. field = Wire[c][i] /\ cell = Cells[c][field.member] /\ v = m[field.member]
  BY DEF MemberAt
<1>3. e \in Classes /\ coding = Msg(e) /\ coding.coding = "message" /\ coding.of = e
  BY <1>1, CodingNames DEF MemberCoding
<1>4. ASSUME NEW y \in Contents(Nested({})[d], cell), y # <<>>
      PROVE  \E x \in Nested({})[d][e] : y = <<x>>
  <2>1. PICK x \in Nested({})[d][cell.of] : y = <<x>>
    BY <1>4, PointerContents
  <2> QED
    BY <1>1, <2>1
<1>5. Held(c, m, field) = v
  <2>1. Unpack(cell, v) = v
    BY SortOfUnpacking
  <2>2. field.coding.coding # "packed"
    BY <1>1, <1>3
  <2> QED
    BY <2>1, <2>2, HeldUnpacked
<1>6. CASE v = <<>>
  <2>1. MergeMember(cell, w, v) = w
    BY <1>6, SortOfMerging
  <2> QED
    BY <1>5, <1>6, <1>2, <2>1, NoneGives
<1>7. CASE v # <<>>
  <2>1. PICK x \in Nested({})[d][e] : v = <<x>>
    BY <1>7, <1>4
  <2>2. x \in Whole(d, e) /\ v[1] = x
    BY <2>1 DEF Whole, Objects
  <2>3. ElementaryCoding(coding) /\ x \in ElementValues(Nested({})[d], coding)
    BY <1>3, <2>1, SMT DEF ElementaryCoding, ElementValues
  <2>4. New(e) \in Whole(d, e)
    BY <1>3, <2>3, NewReads
  <2>5. PICK old : old = IF w = <<>> THEN New(e) ELSE w[1]
    OBVIOUS
  <2>6. TargetIn(c, field, w) = old
    BY <1>1, <1>3, <1>2, <2>5 DEF TargetIn
  <2>7. old \in Whole(d, e)
    <3>1. CASE w = <<>>
      BY <2>4, <2>5, <3>1
    <3>2. CASE w # <<>>
      <4>1. PICK y \in Nested({})[d][e] : w = <<y>>
        BY <1>4, <3>2
      <4>2. old = y
        BY <2>5, <3>2, <4>1
      <4> QED
        BY <4>2 DEF Whole, Objects
    <3> QED
      BY <3>1, <3>2
  <2>8. PICK r : r = MergeFrom(e, old, x)
    OBVIOUS
  <2>9. FieldReadsAs({}, coding, old, x, r)
    <3>1. Joined(coding, old, x) = r
      BY <1>3, <2>8 DEF Joined
    <3>2. ReadsAs({}, coding, old, x, r)
      BY <1>3, <2>3, <2>7, <3>1, JoinedReads
    <3> QED
      BY <1>3, <3>2 DEF FieldReadsAs
  <2>10. Taken(c, field, w, x, r) = <<r>>
    BY MemberTakes
  <2>11. MergeMember(cell, w, v) = <<r>>
    <3>1. MergeMember(cell, w, v) = <<Inner_MergeFrom(e, old, x)>>
      BY <1>1, <1>7, <2>2, <2>5, SortOfMerging
    <3>2. Inner_MergeFrom(e, old, x) = r
      BY <1>3, <2>2, <2>8 DEF InnerMergeFrom
    <3> QED
      BY <3>1, <3>2
  <2>12. Gives(c, m, i, {}, w, Taken(c, field, w, x, r))
    BY <1>1, <1>5, <1>2, <2>1, <2>6, <2>9, OneGives
  <2> QED
    BY <1>2, <2>10, <2>11, <2>12
<1> QED
  BY <1>6, <1>7

LEMMA MapsAre ==
  ASSUME NEW K, NEW S, NEW v \in Maps(K, S)
  PROVE  /\ IsFiniteSet(DOMAIN v) /\ IsFunction(v)
         /\ \A x \in DOMAIN v : v[x] \in S
BY DEF Maps, IsFunction

\* The elements of a repeated member, and the entries of a map: read into new objects.
LEMMA ElementsMerge ==
  ASSUME InnerMergeFrom, NEW d \in Nat, MergesAll(d), NEW c \in Classes, NEW m,
         NEW i \in DOMAIN Wire[c], NEW field, NEW cell, NEW v, MemberAt(c, m, i, field, cell, v),
         InMember(c, field), cell.cell \in {"repeated", "map"}, MemberCoding(cell, field.coding),
         field.coding.coding # "packed", v \in Contents(Nested({})[d], cell),
         NEW w \in Contents(Nested({})[d], cell)
  PROVE  Gives(c, m, i, {}, w, MergeMember(cell, w, v))
<1>1. PICK coding, below : coding = field.coding /\ below = Nested({})[d]
  OBVIOUS
<1>2. field = Wire[c][i] /\ cell = Cells[c][field.member] /\ v = m[field.member]
  BY DEF MemberAt
<1>3. ASSUME NEW element, NEW code, ElementCoding(element, code), NEW x \in ElementsOf(below, element)
      PROVE  ReadsAs({}, code, New(code.of), x, x)
  <2>1. ElementaryCoding(code) /\ x \in ElementValues(Nested({})[d], code)
    BY <1>1, <1>3, ElementIsWritten
  <2> QED
    BY <2>1, NewReads
<1>4. CASE cell.cell = "repeated"
  <2>1. ElementCoding(cell.of, coding)
    BY <1>1, <1>4, CodingNames DEF MemberCoding
  <2>2. coding.coding # "packed" /\ coding.coding # "entry"
    BY <2>1, ElementIsWritten, ElementaryValues
  <2>3. PICK S : S = ElementsOf(below, cell.of)
    OBVIOUS
  <2>4. v \in Seq(S) /\ w \in Seq(S)
    BY <1>1, <1>4, <2>3, SortOfMember
  <2>5. Held(c, m, field) = v
    <3>1. Unpack(cell, v) = v
      BY <1>4, SortOfUnpacking
    <3>2. field.coding.coding # "packed"
      BY <1>1, <2>2
    <3> QED
      BY <3>1, <3>2, HeldUnpacked
  <2>6. ASSUME NEW j \in 1 .. Len(v)
        PROVE  ReadsAs({}, coding, New(coding.of), v[j], v[j])
    <3>1. v[j] \in S
      BY <2>4, <2>6, ElementOfSeq
    <3> QED
      BY <1>3, <2>1, <2>3, <3>1
  <2>7. MergeMember(cell, w, v) = w \o v
    BY <1>4, RepeatedMerging
  <2> QED
    BY <1>1, <1>4, <1>2, <2>2, <2>4, <2>5, <2>6, <2>7, RepeatedGives, ZenonT(40)
<1>5. CASE cell.cell = "map"
  <2>1. coding = Entry(coding.key, coding.value) /\ ElementCoding(cell.of, coding.value)
    BY <1>1, <1>5 DEF MemberCoding
  <2>2. coding.coding = "entry"
    BY <1>1, <1>5, SortOfCoding
  <2>3. PICK K, S : K = ElementsOf(below, cell.key) /\ S = ElementsOf(below, cell.of)
    OBVIOUS
  <2>4. v \in Maps(K, S) /\ w \in Maps(K, S)
    BY <1>1, <1>5, <2>3, SortOfMember
  <2>5. /\ IsFiniteSet(DOMAIN v) /\ IsFunction(v) /\ IsFunction(w)
        /\ \A x \in DOMAIN v : v[x] \in S
    BY <2>4, MapsAre
  <2>6. Held(c, m, field) = Unpack(cell, v)
    <3>1. field.coding.coding # "packed"
      BY <1>1, <2>2
    <3> QED
      BY <3>1, HeldUnpacked
  <2>7. \A x \in DOMAIN v : ReadsAs({}, coding.value, New(coding.value.of), v[x], v[x])
    BY <1>3, <2>1, <2>3, <2>5
  <2>8. MergeMember(cell, w, v) = Over(v, w)
    BY <1>5, SortOfMerging
  <2>9. Gives(c, m, i, {}, w, Over(v, w))
    <3>1. field.coding.coding = "entry" /\ Cells[c][field.member].cell = "map"
      BY <1>1, <1>5, <1>2, <2>2
    <3>2. \A x \in DOMAIN v : ReadsAs({}, field.coding.value, New(field.coding.value.of), v[x], v[x])
      BY <1>1, <2>7
    <3>3. Held(c, m, field) = Unpack(Cells[c][field.member], v)
      BY <1>2, <2>6
    <3> QED
      BY <1>2, <2>5, <3>1, <3>2, <3>3, MapGives, ZenonT(30)
  <2> QED
    BY <2>8, <2>9
<1> QED
  BY <1>4, <1>5

LEMMA MemberMerges ==
  ASSUME InnerMergeFrom, NEW d \in Nat, MergesAll(d), NEW c \in Classes, NEW m \in Whole(d + 1, c),
         NEW i \in DOMAIN Wire[c], Writes(c, m, i), NEW name, name = NameOf(c, i),
         NEW cell, cell = Cells[c][name], NEW w \in Contents(Nested({})[d], cell)
  PROVE  Gives(c, m, i, {}, w, MergeMember(cell, w, m[name]))
<1>1. PICK field, v : field = Wire[c][i] /\ v = m[name]
  OBVIOUS
<1>2. name \in DOMAIN Cells[c] /\ v \in Contents(Nested({})[d], cell)
  BY <1>1, NameIsMember, WholeParts
<1>3. CASE ~InMember(c, field)
  <2>1. name = "kind" /\ v.case = field.member
    BY <1>1, <1>3 DEF NameOf, MemberName, Writes
  <2>2. KindAt(c, m, i, field, cell, v)
    BY <1>1, <2>1 DEF KindAt
  <2> QED
    BY <1>1, <1>2, <1>3, <2>1, <2>2, KindMerges
<1>4. CASE InMember(c, field)
  <2>1. name = field.member /\ MemberCoding(cell, field.coding)
    BY <1>1, <1>4, FieldOfMember DEF NameOf, MemberName
  <2>6. MemberAt(c, m, i, field, cell, v)
    BY <1>1, <2>1 DEF MemberAt
  <2>2. CASE cell.cell = "pointer"
    BY <1>1, <1>2, <1>4, <2>1, <2>6, <2>2, PointerMerges
  <2>3. CASE cell.cell \in {"text", "number"} \/ field.coding.coding = "packed"
    BY <1>1, <1>2, <1>4, <2>1, <2>6, <2>3, PlainGives
  <2>4. CASE cell.cell \in {"repeated", "map"} /\ field.coding.coding # "packed"
    BY <1>1, <1>2, <1>4, <2>1, <2>6, <2>4, ElementsMerge
  <2> QED
    BY <2>1, <2>2, <2>3, <2>4 DEF MemberCoding
<1> QED
  BY <1>3, <1>4

\* What MergeFrom makes of the members.
Merged(c, t, m) == [f \in DOMAIN Cells[c] |-> MergeMember(Cells[c][f], t[f], m[f])]

LEMMA UnwrittenIsKept ==
  ASSUME NEW d \in Nat, NEW c \in Classes, NEW m \in Whole(d + 1, c), NEW t, NEW f \in DOMAIN Cells[c],
         \A i \in DOMAIN Wire[c] : ~(Writes(c, m, i) /\ NameOf(c, i) = f)
  PROVE  MergeMember(Cells[c][f], t, m[f]) = t
<1>1. MemberOf(Cells[c], Wire[c], f)
  BY Tables DEF TableOf
<1>2. PICK cell, v : cell = Cells[c][f] /\ v = m[f] /\ v \in Contents(Nested({})[d], cell)
  BY WholeParts
<1>3. cell.cell = "choice"
  <2> SUFFICES ASSUME cell.cell # "choice" PROVE FALSE
    OBVIOUS
  <2>1. PICK i \in DOMAIN Wire[c] : Wire[c][i].member = f
    BY <1>1, <1>2 DEF MemberOf
  <2>2. InMember(c, Wire[c][i])
    BY <2>1 DEF InMember
  <2> QED
    BY <2>1, <2>2 DEF Writes, NameOf, MemberName
<1>4. f = "kind" /\ \A k \in DOMAIN cell.of : k \notin DOMAIN Cells[c] /\ \E i \in DOMAIN Wire[c] : Wire[c][i].member = k
  BY <1>1, <1>2, <1>3 DEF MemberOf
<1>5. v = NOT_SET
  <2> SUFFICES ASSUME v # NOT_SET PROVE FALSE
    OBVIOUS
  <2>1. PICK k \in DOMAIN cell.of : \E x \in ElementsOf(Nested({})[d], cell.of[k]) : v = [case |-> k, value |-> x]
    BY <1>2, <1>3, ChoiceContents, SMTT(30)
  <2>2. v.case = k
    BY <2>1
  <2>3. PICK i \in DOMAIN Wire[c] : Wire[c][i].member = k
    BY <1>4
  <2>4. ~InMember(c, Wire[c][i])
    BY <1>4, <2>3 DEF InMember
  <2>5. m["kind"].case = Wire[c][i].member
    BY <1>2, <1>4, <2>2, <2>3
  <2> QED
    BY <1>4, <2>4, <2>5 DEF Writes, NameOf, MemberName
<1>6. MergeMember(cell, t, v) = MergeKind(cell, t, v)
  BY <1>3, SortOfMerging
<1>7. MergeKind(cell, t, v) = t
  BY <1>5 DEF MergeKind
<1> QED
  BY <1>2, <1>6, <1>7

LEMMA AfterAll ==
  ASSUME NEW d \in Nat, NEW c \in Classes, NEW t \in Whole(d + 1, c), NEW m \in Whole(d + 1, c),
         NEW n \in Nat, DOMAIN Wire[c] = 1 .. n
  PROVE  After(c, m, t, Merged(c, t, m), n) = MergeFrom(c, t, m)
<1>1. PICK Z : Z = Merged(c, t, m)
  OBVIOUS
<1>2. DOMAIN t = Members(c) /\ t["unknown_fields"] = <<>> /\ m["unknown_fields"] = <<>>
  BY WholeParts
<1>3. MergeFrom(c, t, m) = [f \in Members(c) |-> IF f = "unknown_fields" THEN t[f] \o m[f]
                                                 ELSE MergeMember(Cells[c][f], t[f], m[f])]
  BY <1>2 DEF MergeFrom
<1>4. ASSUME NEW f \in Members(c)
      PROVE  (IF \E k \in 1 .. n : Writes(c, m, k) /\ NameOf(c, k) = f THEN Z[f] ELSE t[f]) =
             (IF f = "unknown_fields" THEN t[f] \o m[f] ELSE MergeMember(Cells[c][f], t[f], m[f]))
  <2>1. CASE f = "unknown_fields"
    <3>1. \A k \in 1 .. n : NameOf(c, k) # f
      BY <2>1, NameIsMember
    <3>2. t[f] \o m[f] = t[f]
      <4>1. <<>> \in Seq({}) /\ <<>> \o <<>> = <<>>
        BY EmptySeq, ConcatEmptySeq
      <4> QED
        BY <1>2, <2>1, <4>1
    <3> QED
      BY <2>1, <3>1, <3>2
  <2>2. CASE f # "unknown_fields"
    <3>1. f \in DOMAIN Cells[c]
      BY <2>2 DEF Members
    <3>2. PICK w, x : w = t[f] /\ x = MergeMember(Cells[c][f], t[f], m[f])
      OBVIOUS
    <3>3. Z[f] = x
      BY <1>1, <3>1, <3>2 DEF Merged
    <3>4. CASE \E k \in 1 .. n : Writes(c, m, k) /\ NameOf(c, k) = f
      BY <2>2, <3>2, <3>3, <3>4
    <3>5. CASE ~ \E k \in 1 .. n : Writes(c, m, k) /\ NameOf(c, k) = f
      <4>1. \A k \in DOMAIN Wire[c] : ~(Writes(c, m, k) /\ NameOf(c, k) = f)
        BY <3>5
      <4>2. MergeMember(Cells[c][f], w, m[f]) = w
        BY <3>1, <4>1, UnwrittenIsKept
      <4> QED
        BY <2>2, <3>2, <3>5, <4>2
    <3> QED
      BY <3>4, <3>5
  <2> QED
    BY <2>1, <2>2
<1>5. After(c, m, t, Z, n) =
        [f \in Members(c) |-> IF \E k \in 1 .. n : Writes(c, m, k) /\ NameOf(c, k) = f THEN Z[f] ELSE t[f]]
  BY DEF After
<1> QED
  BY <1>1, <1>3, <1>4, <1>5, Zenon

\* All members of an object can be read just if the object can.
LEMMA ReadableMembers ==
  ASSUME NEW c, NEW m, NEW n, DOMAIN Wire[c] = 1 .. n, NEW depth
  PROVE  ReadableTo(c, m, n, depth) <=> Readable(c, m, depth)
BY DEF ReadableTo, ReadableMember, Readable

LEMMA WholeMerges ==
  ASSUME InnerMergeFrom, InnerSerialize, InnerParse, InnerReadable, NEW d \in Nat, MergesAll(d)
  PROVE  MergesAll(d + 1)
<1> SUFFICES ASSUME NEW c \in Classes, NEW t \in Whole(d + 1, c), NEW m \in Whole(d + 1, c), NEW depth \in Nat
             PROVE  Parse(c, t, Serialize(c, m), depth, {}) =
                      IF Readable(c, m, depth) THEN <<MergeFrom(c, t, m)>> ELSE <<>>
  BY DEF MergesAll
<1>1. PICK n \in Nat : n = Len(Wire[c]) /\ DOMAIN Wire[c] = 1 .. n
  BY Tables DEF TableOf
<1>2. PICK S : FieldsIn(S, c, m, n)
  BY <1>1, KnownFieldsSeq DEF Whole
<1>3. PICK F : Written(S, c, m, n, F)
  BY <1>1, <1>2, KnownFieldsLoop
<1>4. PICK Z : Z = Merged(c, t, m)
  OBVIOUS
<1>5. MembersGive(c, m, t, Z, n, {})
  <2> SUFFICES ASSUME NEW i \in 1 .. n, Writes(c, m, i)
               PROVE  Gives(c, m, i, {}, t[NameOf(c, i)], Z[NameOf(c, i)])
    BY DEF MembersGive
  <2>1. PICK name, cell, w : name = NameOf(c, i) /\ cell = Cells[c][name] /\ w = t[name]
    OBVIOUS
  <2>2. i \in DOMAIN Wire[c] /\ name \in DOMAIN Cells[c]
    BY <1>1, <2>1, NameIsMember
  <2>3. w \in Contents(Nested({})[d], cell)
    BY <2>1, <2>2, WholeParts
  <2>4. Gives(c, m, i, {}, w, MergeMember(cell, w, m[name]))
    BY <2>1, <2>2, <2>3, MemberMerges
  <2>5. Z[name] = MergeMember(cell, w, m[name])
    BY <1>4, <2>1, <2>2 DEF Merged
  <2> QED
    BY <2>1, <2>4, <2>5
<1>6. IsFunction(t) /\ DOMAIN t = Members(c)
  BY WholeParts DEF IsFunction
<1>7. Parse(c, t, F[n], depth, {}) = IF ReadableTo(c, m, n, depth) THEN <<After(c, m, t, Z, n)>> ELSE <<>>
  <2>1. n \in 0 .. n
    OBVIOUS
  <2> QED
    BY <1>1, <1>2, <1>3, <1>5, <1>6, <2>1, MembersRead
<1>8. Serialize(c, m) = F[n]
  <2>1. n \in 0 .. n
    OBVIOUS
  <2>2. F[n] \in Seq(S) /\ KnownFields(c, m) = F[n]
    BY <1>3, <2>1 DEF Written
  <2>3. m.unknown_fields = <<>>
    BY WholeParts
  <2>4. F[n] \o <<>> = F[n]
    BY <2>2, ConcatEmptySeq
  <2> QED
    BY <2>2, <2>3, <2>4 DEF Serialize
<1>9. After(c, m, t, Z, n) = MergeFrom(c, t, m)
  BY <1>1, <1>4, AfterAll
<1>10. ReadableTo(c, m, n, depth) <=> Readable(c, m, depth)
  BY <1>1, ReadableMembers
<1> QED
  BY <1>7, <1>8, <1>9, <1>10

\* Reading what was written of an object into another one is MergeFrom.
LEMMA ParseMerges ==
  ASSUME InnerMergeFrom, InnerSerialize, InnerParse, InnerReadable, NEW d \in Nat, NEW c \in Classes,
         NEW t \in Whole(d, c), NEW m \in Whole(d, c), NEW depth \in Nat
  PROVE  Parse(c, t, Serialize(c, m), depth, {}) = IF Readable(c, m, depth) THEN <<MergeFrom(c, t, m)>> ELSE <<>>
<1>1. PICK T : T = {k \in Nat : MergesAll(k)}
  OBVIOUS
<1>2. 0 \in T
  <2>1. \A x \in Classes : Whole(0, x) = {}
    BY ObjectsByNesting DEF Whole
  <2>2. MergesAll(0)
    BY <2>1 DEF MergesAll
  <2> QED
    BY <1>1, <2>2
<1>3. \A k \in Nat : k \in T => k + 1 \in T
  BY <1>1, WholeMerges
<1>4. MergesAll(d)
  BY <1>1, <1>2, <1>3, Induction
<1> QED
  BY <1>4 DEF MergesAll

\* Where there are objects of a class at all, there is a new one.
LEMMA NewIsAmong ==
  ASSUME NEW d \in Nat, NEW c \in Classes, NEW m \in Whole(d, c)
  PROVE  New(c) \in Whole(d, c)
<1>1. d # 0
  BY ObjectsByNesting DEF Whole
<1> QED
  BY <1>1, NewIsObject DEF Whole

------------------------------------------------------------------------------
(* What is sent. *)

\* The classes of batches, and of what the raw sender makes, have one member each; a
\* batch of events is sent as a copy.
LEMMA BatchMembers ==
  /\ DOMAIN Cells["MessageBatch"] = {"messages"} /\ DOMAIN Cells["RawMessageBatch"] = {"messages"}
  /\ DOMAIN Cells["MessageGroupBatch"] = {"groups"} /\ DOMAIN Cells["MessageGroup"] = {"messages"}
  /\ DOMAIN Cells["AnyMessage"] = {"kind"}
  /\ Cells["RawMessageBatch"]["messages"] = Repeated(Object("RawMessage"))
  /\ Cells["MessageGroupBatch"]["groups"] = Repeated(Object("MessageGroup"))
  /\ Cells["MessageGroup"]["messages"] = Repeated(Object("AnyMessage"))
  /\ Cells["AnyMessage"]["kind"].cell = "choice"
  /\ "raw_message" \in DOMAIN Cells["AnyMessage"]["kind"].of
  /\ Cells["AnyMessage"]["kind"].of["raw_message"] = Object("RawMessage")
<1>1. DOMAIN Cells["MessageBatch"] = {"messages"} /\ DOMAIN Cells["RawMessageBatch"] = {"messages"}
  BY DEF Cells, MessageBatch, RawMessageBatch
<1>2. /\ DOMAIN Cells["MessageGroupBatch"] = {"groups"} /\ DOMAIN Cells["MessageGroup"] = {"messages"}
      /\ DOMAIN Cells["AnyMessage"] = {"kind"}
  BY DEF Cells, MessageGroupBatch, MessageGroup, AnyMessage
<1>3. /\ Cells["RawMessageBatch"]["messages"] = Repeated(Object("RawMessage"))
      /\ Cells["MessageGroupBatch"]["groups"] = Repeated(Object("MessageGroup"))
      /\ Cells["MessageGroup"]["messages"] = Repeated(Object("AnyMessage"))
  BY DEF Cells, RawMessageBatch, MessageGroupBatch, MessageGroup
<1>4. /\ Cells["AnyMessage"]["kind"].cell = "choice"
      /\ "raw_message" \in DOMAIN Cells["AnyMessage"]["kind"].of
      /\ Cells["AnyMessage"]["kind"].of["raw_message"] = Object("RawMessage")
  BY DEF Cells, AnyMessage, Choice
<1> QED
  BY <1>1, <1>2, <1>3, <1>4

LEMMA SentClasses ==
  {"MessageBatch", "RawMessageBatch", "MessageGroupBatch", "EventBatch", "MessageGroup",
   "AnyMessage", "RawMessage"} \subseteq Classes
BY ClassNames

LEMMA KindIs ==
  ASSUME is_batch
  PROVE  /\ kind_of_batch \in Routing!Kinds /\ BatchClass[kind_of_batch] = class
         /\ \/ kind_of_batch = "parsed" /\ class = "MessageBatch"
            \/ kind_of_batch = "raw" /\ class = "RawMessageBatch"
            \/ kind_of_batch = "group" /\ class = "MessageGroupBatch"
            \/ kind_of_batch = "event" /\ class = "EventBatch"
<1>1. kind_of_batch \in Routing!Kinds /\ BatchClass[kind_of_batch] = class
  BY DEF is_batch, kind_of_batch
<1>2. /\ BatchClass["parsed"] = "MessageBatch" /\ BatchClass["raw"] = "RawMessageBatch"
      /\ BatchClass["group"] = "MessageGroupBatch" /\ BatchClass["event"] = "EventBatch"
  BY DEF BatchClass
<1> QED
  BY <1>1, <1>2 DEF Routing!Kinds

\* An object of one member is a new one with that member in it, and the other way round.
LEMMA OneMember ==
  ASSUME NEW d \in Nat, NEW c \in Classes, NEW f, DOMAIN Cells[c] = {f}
  PROVE  /\ \A m \in Whole(d, c) : With(New(c), f, m[f]) = m
         /\ \A v \in Contents(Nested({})[d], Cells[c][f]) :
              With(New(c), f, v) \in Whole(d + 1, c) /\ With(New(c), f, v)[f] = v
<1>1. /\ New(c) = [g \in Members(c) |-> New(c)[g]] /\ DOMAIN New(c) = Members(c)
      /\ New(c)["unknown_fields"] = <<>> /\ f # "unknown_fields"
  BY NewMembers
<1>2. Members(c) = {f, "unknown_fields"}
  BY DEF Members
<1>3. ASSUME NEW m \in Whole(d, c) PROVE With(New(c), f, m[f]) = m
  <2>1. m \in Whole(d + 1, c)
    BY ObjectsGrow DEF Whole
  <2>2. m = [g \in Members(c) |-> m[g]] /\ m["unknown_fields"] = <<>>
    BY <2>1, WholeParts
  <2>3. PICK Y : Y = With(New(c), f, m[f])
    OBVIOUS
  <2>4. Y = [g \in Members(c) |-> Y[g]] /\ Y[f] = m[f] /\ Y["unknown_fields"] = <<>>
    BY <1>1, <1>2, <2>3 DEF With
  <2> QED
    BY <1>2, <2>2, <2>3, <2>4
<1>4. ASSUME NEW v \in Contents(Nested({})[d], Cells[c][f])
      PROVE  With(New(c), f, v) \in Whole(d + 1, c) /\ With(New(c), f, v)[f] = v
  <2>1. PICK Y : Y = With(New(c), f, v)
    OBVIOUS
  <2>2. Y = [g \in Members(c) |-> Y[g]] /\ Y[f] = v /\ Y["unknown_fields"] = <<>>
    BY <1>1, <1>2, <2>1 DEF With
  <2>3. IsObject({}, d, c, Y)
    <3>1. <<>> \in Seq({})
      OBVIOUS
    <3> QED
      BY <2>2, <3>1 DEF IsObject
  <2> QED
    BY <2>1, <2>2, <2>3, ObjectsByNesting DEF Whole
<1> QED
  BY <1>3, <1>4

\* The elements of a repeated member of objects.
LEMMA ObjectsIn ==
  ASSUME NEW d \in Nat, NEW e
  PROVE  Contents(Nested({})[d], Repeated(Object(e))) = Seq(Whole(d, e))
<1>1. PICK below : below = Nested({})[d]
  OBVIOUS
<1>2. Contents(below, Repeated(Object(e))) = Seq(ElementsOf(below, Object(e)))
  BY DEF Contents, Repeated
<1>3. ElementsOf(below, Object(e)) = below[e]
  BY DEF ElementsOf, Object
<1> QED
  BY <1>1, <1>2, <1>3 DEF Whole, Objects

\* What the raw sender makes of the messages of a batch: objects again, with one group
\* for each message and the message in it.
LEMMA AnyMessageWraps ==
  ASSUME InnerMergeFrom, NEW d \in Nat, NEW m \in Whole(d, "RawMessage")
  PROVE  /\ any_msg(m) \in Whole(d + 1, "AnyMessage")
         /\ any_msg(m).kind = [case |-> "raw_message", value |-> m]
<1>1. PICK k : k = [case |-> "raw_message", value |-> m]
  OBVIOUS
<1>2. CopyFrom("RawMessage", New("RawMessage"), m) = m
  BY SentClasses, MergeIntoNew DEF CopyFrom
<1>3. any_msg(m) = With(New("AnyMessage"), "kind", k)
  BY <1>1, <1>2 DEF any_msg, With
<1>4. k \in Contents(Nested({})[d], Cells["AnyMessage"]["kind"])
  <2>1. PICK below, cell : below = Nested({})[d] /\ cell = Cells["AnyMessage"]["kind"]
    OBVIOUS
  <2>2. ElementsOf(below, Object("RawMessage")) = Whole(d, "RawMessage")
    BY <2>1 DEF ElementsOf, Object, Whole, Objects
  <2> QED
    BY <1>1, <2>1, <2>2, BatchMembers, ContentsOfChoice
<1> QED
  BY <1>1, <1>3, <1>4, BatchMembers, SentClasses, OneMember

LEMMA GroupWraps ==
  ASSUME InnerMergeFrom, NEW d \in Nat, NEW m \in Whole(d, "RawMessage")
  PROVE  /\ group_msg(<<m>>) \in Whole(d + 2, "MessageGroup")
         /\ group_msg(<<m>>).messages = <<any_msg(m)>>
<1>1. PICK s : s = <<any_msg(m)>>
  OBVIOUS
<1>2. [i \in DOMAIN <<m>> |-> any_msg(<<m>>[i])] = s
  BY <1>1
<1>3. group_msg(<<m>>) = With(New("MessageGroup"), "messages", s)
  BY <1>2 DEF group_msg, With
<1>4. s \in Contents(Nested({})[d + 1], Cells["MessageGroup"]["messages"])
  <2>1. any_msg(m) \in Whole(d + 1, "AnyMessage")
    BY AnyMessageWraps
  <2>2. s \in Seq(Whole(d + 1, "AnyMessage"))
    BY <1>1, <2>1, OneIsSeq
  <2>3. Contents(Nested({})[d + 1], Repeated(Object("AnyMessage"))) = Seq(Whole(d + 1, "AnyMessage"))
    BY ObjectsIn
  <2> QED
    BY <2>2, <2>3, BatchMembers
<1>5. d + 1 \in Nat /\ (d + 1) + 1 = d + 2
  OBVIOUS
<1> QED
  BY <1>1, <1>3, <1>4, <1>5, BatchMembers, SentClasses, OneMember

LEMMA GroupBatchWraps ==
  ASSUME InnerMergeFrom, NEW d \in Nat, NEW m \in Whole(d, "RawMessageBatch")
  PROVE  /\ m.messages \in Seq(Whole(d, "RawMessage"))
         /\ group_batch(m) \in Whole(d + 3, "MessageGroupBatch")
         /\ group_batch(m).groups = [i \in DOMAIN m.messages |-> group_msg(<<m.messages[i]>>)]
<1>1. PICK s, S : s = m.messages /\ S = Whole(d, "RawMessage")
  OBVIOUS
<1>2. s \in Seq(S)
  <2>1. m \in Whole(d + 1, "RawMessageBatch")
    BY SentClasses, ObjectsGrow DEF Whole
  <2>2. m["messages"] \in Contents(Nested({})[d], Cells["RawMessageBatch"]["messages"])
    BY <2>1, SentClasses, BatchMembers, WholeParts
  <2> QED
    BY <1>1, <2>2, BatchMembers, ObjectsIn
<1>3. PICK t : t = [i \in DOMAIN s |-> group_msg(<<s[i]>>)]
  OBVIOUS
<1>4. t \in Seq(Whole(d + 2, "MessageGroup"))
  <2>1. PICK n \in Nat : DOMAIN s = 1 .. n /\ \A i \in 1 .. n : s[i] \in S
    BY <1>2, ElementOfSeq, LenProperties
  <2>2. \A i \in 1 .. n : group_msg(<<s[i]>>) \in Whole(d + 2, "MessageGroup")
    BY <1>1, <2>1, GroupWraps
  <2>3. t \in [1 .. n -> Whole(d + 2, "MessageGroup")]
    BY <1>3, <2>1, <2>2
  <2> QED
    BY <2>3, SeqDef
<1>5. group_batch(m) = With(New("MessageGroupBatch"), "groups", t)
  BY <1>1, <1>3 DEF group_batch, raw_groups, With
<1>6. t \in Contents(Nested({})[d + 2], Cells["MessageGroupBatch"]["groups"])
  BY <1>4, BatchMembers, ObjectsIn
<1>7. d + 2 \in Nat /\ (d + 2) + 1 = d + 3
  OBVIOUS
<1>8. group_batch(m) \in Whole(d + 3, "MessageGroupBatch") /\ group_batch(m)["groups"] = t
  BY <1>5, <1>6, <1>7, BatchMembers, SentClasses, OneMember
<1> QED
  BY <1>1, <1>2, <1>3, <1>8

\* The batch that goes to the sender is the caller's, whatever the router.
LEMMA RoutedIsBatch ==
  ASSUME InnerMergeFrom, is_batch, NEW d \in Nat, NEW m \in Whole(d, class)
  PROVE  routed_batch(m) = m
<1>1. class \in Classes
  BY KindIs, SentClasses
<1>2. CASE kind_of_batch = "event"
  BY <1>1, <1>2, MergeIntoNew DEF routed_batch
<1>3. CASE kind_of_batch = "group" /\ class = "MessageGroupBatch"
  <2>1. routed_batch(m) = With(New(class), "groups", m["groups"])
    BY <1>3 DEF routed_batch, With
  <2> QED
    BY <1>1, <1>3, <2>1, BatchMembers, OneMember
<1>4. CASE /\ kind_of_batch \notin {"event", "group"}
           /\ class \in {"MessageBatch", "RawMessageBatch"}
  <2>1. routed_batch(m) = With(New(class), "messages", m["messages"])
    BY <1>4 DEF routed_batch, With
  <2> QED
    BY <1>1, <1>4, <2>1, BatchMembers, OneMember
<1> QED
  BY <1>2, <1>3, <1>4, KindIs

\* What is sent is an object again; its elements are the body that the queue is given.
LEMMA SentIsWhole ==
  ASSUME InnerMergeFrom, is_batch, NEW d \in Nat, NEW m \in Whole(d, class)
  PROVE  /\ SentClass \in Classes /\ \E n \in Nat : Sent(m) \in Whole(n, SentClass)
         /\ ReadElements(Sent(m)) = Routing!value_to_bytes(kind_of_batch, Elements(m)).body
         /\ SentClass = Routing!value_to_bytes(kind_of_batch, Elements(m)).type
<1>1. routed_batch(m) = m
  BY RoutedIsBatch
<1>2. CASE kind_of_batch # "raw"
  <2>1. SentClass = class /\ Sent(m) = m /\ ReadElements(m) = Elements(m)
    BY <1>1, <1>2 DEF SentClass, Sent, ReadElements
  <2>2. PICK k, x : k = kind_of_batch /\ x = Elements(m)
    OBVIOUS
  <2>3. Routing!value_to_bytes(k, x).body = x /\ Routing!value_to_bytes(k, x).type = class
    BY <1>2, <2>2, KindIs DEF Routing!value_to_bytes, Routing!RabbitParsedBatchSender,
       Routing!RabbitMessageGroupBatchSender, Routing!EventBatchSender
  <2> QED
    BY <2>1, <2>2, <2>3, KindIs, SentClasses
<1>3. CASE kind_of_batch = "raw"
  <2>1. class = "RawMessageBatch" /\ SentClass = "MessageGroupBatch" /\ Sent(m) = group_batch(m)
    BY <1>1, <1>3, KindIs DEF SentClass, Sent
  <2>2. PICK g, s, S : g = group_batch(m) /\ s = m.messages /\ S = Whole(d, "RawMessage")
    OBVIOUS
  <2>3. /\ s \in Seq(S) /\ g \in Whole(d + 3, "MessageGroupBatch")
        /\ g.groups = [i \in DOMAIN s |-> group_msg(<<s[i]>>)]
    BY <2>1, <2>2, GroupBatchWraps
  <2>4. \A i \in DOMAIN s : s[i] \in S
    BY <2>3, ElementOfSeq, LenProperties
  <2>5. Elements(m) = s
    BY <1>3, <2>2 DEF Elements
  <2>6. PICK G : G = Groups(g)
    OBVIOUS
  <2>7. /\ DOMAIN G = DOMAIN s /\ G = [i \in DOMAIN s |-> G[i]]
        /\ \A i \in DOMAIN s : G[i] = <<[case |-> "raw_message", value |-> s[i]]>>
    <3>1. ASSUME NEW i \in DOMAIN s
          PROVE  [j \in DOMAIN g.groups[i].messages |-> g.groups[i].messages[j].kind]
                   = <<[case |-> "raw_message", value |-> s[i]]>>
      <4>1. g.groups[i].messages = <<any_msg(s[i])>>
        BY <2>2, <2>3, <2>4, GroupWraps
      <4>2. any_msg(s[i]).kind = [case |-> "raw_message", value |-> s[i]]
        BY <2>2, <2>4, AnyMessageWraps
      <4> QED
        BY <4>1, <4>2
    <3>2. DOMAIN g.groups = DOMAIN s
      BY <2>3
    <3> QED
      BY <2>6, <3>1, <3>2 DEF Groups
  <2>8. ReadElements(g) = [i \in DOMAIN s |-> <<s[i]>>]
    <3>1. ReadElements(g) = [i \in DOMAIN G |-> [j \in DOMAIN G[i] |-> G[i][j].value]]
      BY <1>3, <2>6 DEF ReadElements
    <3>2. \A i \in DOMAIN s : [j \in DOMAIN G[i] |-> G[i][j].value] = <<s[i]>>
      BY <2>7
    <3> QED
      BY <2>7, <3>1, <3>2
  <2>9. /\ Routing!value_to_bytes("raw", s).body = [i \in DOMAIN s |-> <<s[i]>>]
        /\ Routing!value_to_bytes("raw", s).type = "MessageGroupBatch"
    BY DEF Routing!value_to_bytes, Routing!RabbitRawBatchSender
  <2>10. d + 3 \in Nat
    OBVIOUS
  <2> QED
    BY <1>3, <2>1, <2>2, <2>3, <2>5, <2>8, <2>9, <2>10, SentClasses
<1> QED
  BY <1>2, <1>3

------------------------------------------------------------------------------
(* Relaying: a reader that lacks fields writes again what it has read, and  *)
(* what it has not understood.                                              *)

LEMMA LaterIs ==
  ASSUME NEW c \in Classes, NEW n \in Nat, n = Len(Wire[c]), NEW i
  PROVE  <<c, i>> \in Later <=> i = n /\ n > 1
BY DEF Later

LEMMA LaterHides == Later # {}
<1>1. "MessageID" \in Classes
  BY ClassNames
<1>2. Len(Wire["MessageID"]) > 1
  BY DEF Wire, MessageID_wire
<1> QED
  BY <1>1, <1>2 DEF Later

\* All that is written of objects.
Covers(U) ==
  \A d \in Nat : \A c \in Classes : \A m \in Whole(d, c) : \A i \in DOMAIN Wire[c] :
    Range(FieldsOf(c, m, i)) \subseteq U

LEMMA SomeCovers == \E U : Covers(U)
<1> DEFINE All == UNION {UNION {UNION {Range(FieldsOf(c, m, i)) : i \in DOMAIN Wire[c]} :
                                m \in UNION {Whole(d, c) : d \in Nat}} : c \in Classes}
<1>1. ASSUME NEW d \in Nat, NEW c \in Classes, NEW m \in Whole(d, c), NEW i \in DOMAIN Wire[c]
      PROVE  Range(FieldsOf(c, m, i)) \subseteq All
  <2>1. m \in UNION {Whole(e, c) : e \in Nat}
    OBVIOUS
  <2> QED
    BY <2>1
<1>2. Covers(All)
  BY <1>1 DEF Covers
<1> QED
  BY <1>2

\* A relay makes r of m if it reads r and writes of it what was written of m.
RelaysAs(U, d, c, m, r) ==
  /\ r \in Objects(U, d, c)
  /\ Serialize(c, r) = Serialize(c, m)
  /\ \A depth \in Nat : Readable(c, m, depth) =>
       Parse(c, New(c), Serialize(c, m), depth, Later) = <<r>>

RelaysAll(U, d) == \A c \in Classes : \A m \in Whole(d, c) : \E r : RelaysAs(U, d, c, m, r)

Relayed(U, d, coding, x, y) ==
  /\ y \in ElementValues(Nested(U)[d], coding)
  /\ ReadsAs(Later, coding, New(coding.of), x, y)
  /\ \A number : Encode(number, coding, y) = Encode(number, coding, x)

LEMMA ElementRelayed ==
  ASSUME InnerSerialize, NEW U, NEW d \in Nat, RelaysAll(U, d), NEW coding, ElementaryCoding(coding),
         NEW x \in ElementValues(Nested({})[d], coding)
  PROVE  \E y : Relayed(U, d, coding, x, y)
<1>1. CASE coding.coding # "message"
  <2>1. x \in ElementValues(Nested(U)[d], coding)
    BY <1>1, SMT DEF ElementaryCoding, ElementValues
  <2>2. ReadsAs(Later, coding, New(coding.of), x, x)
    BY <1>1 DEF ReadsAs
  <2> QED
    BY <2>1, <2>2 DEF Relayed
<1>2. CASE coding.coding = "message"
  <2>1. PICK c \in Classes : c = coding.of
    BY <1>2 DEF ElementaryCoding
  <2>2. x \in Whole(d, c)
    BY <1>2, <2>1, SMT DEF ElementValues, Whole, Objects
  <2>3. PICK y : RelaysAs(U, d, c, x, y)
    BY <2>2 DEF RelaysAll
  <2>4. y \in Objects(U, d, c) /\ Serialize(c, y) = Serialize(c, x)
    BY <2>3 DEF RelaysAs
  <2>5. y \in ElementValues(Nested(U)[d], coding)
    BY <1>2, <2>1, <2>4, SMT DEF ElementValues, Objects
  <2>6. ReadsAs(Later, coding, New(coding.of), x, y)
    <3>1. \A depth \in Nat : Readable(c, x, depth) =>
            Parse(c, New(c), Serialize(c, x), depth, Later) = <<y>>
      BY <2>3 DEF RelaysAs
    <3> QED
      BY <1>2, <2>1, <3>1, LaterHides DEF ReadsAs
  <2>7. Inner_Serialize(c, y) = Inner_Serialize(c, x)
    <3>1. Inner_Serialize(c, y) = Serialize(c, y)
      BY <2>4 DEF InnerSerialize
    <3>2. Inner_Serialize(c, x) = Serialize(c, x)
      BY <2>2 DEF InnerSerialize, Whole
    <3> QED
      BY <2>4, <3>1, <3>2
  <2>8. ASSUME NEW number
        PROVE  Encode(number, coding, y) = Encode(number, coding, x)
    <3>1. \A v : Encode(number, coding, v) = [number |-> number, fields |-> Inner_Serialize(c, v)]
      BY <1>2, <2>1, SMT DEF Encode
    <3> QED
      BY <2>7, <3>1
  <2> QED
    BY <2>5, <2>6, <2>8 DEF Relayed
<1> QED
  BY <1>1, <1>2

\* What a member becomes, if it was read into a new object.
RelaysMember(U, d, c, m, i, z) ==
  /\ z \in Contents(Nested(U)[d], Cells[c][NameOf(c, i)])
  /\ Gives(c, m, i, Later, Default(Cells[c][NameOf(c, i)]), z)
  /\ \A r : r[NameOf(c, i)] = z => FieldsOf(c, r, i) = FieldsOf(c, m, i)
  /\ ~InMember(c, Wire[c][i]) => z.case = Wire[c][i].member

LEMMA SameFields ==
  ASSUME NEW c, NEW i, NEW m, NEW r, NEW first, NEW second,
         first = Held(c, r, Wire[c][i]), second = Held(c, m, Wire[c][i]), DOMAIN first = DOMAIN second,
         \A j \in DOMAIN first : EncodeField(Wire[c][i], first[j]) = EncodeField(Wire[c][i], second[j])
  PROVE  FieldsOf(c, r, i) = FieldsOf(c, m, i)
BY DEF FieldsOf

LEMMA OneField ==
  ASSUME NEW c, NEW i, NEW m, NEW r, NEW x, NEW y,
         Held(c, m, Wire[c][i]) = <<x>>, Held(c, r, Wire[c][i]) = <<y>>,
         EncodeField(Wire[c][i], y) = EncodeField(Wire[c][i], x)
  PROVE  FieldsOf(c, r, i) = FieldsOf(c, m, i)
<1>1. PICK first, second : first = <<y>> /\ second = <<x>>
  OBVIOUS
<1>2. /\ DOMAIN first = {1} /\ DOMAIN second = {1} /\ first[1] = y /\ second[1] = x
  BY <1>1
<1>3. \A j \in DOMAIN first : EncodeField(Wire[c][i], first[j]) = EncodeField(Wire[c][i], second[j])
  BY <1>2
<1> QED
  BY <1>1, <1>2, <1>3, SameFields

LEMMA PackedNumbers ==
  ASSUME NEW cell, NEW coding, MemberCoding(cell, coding), coding.coding = "packed"
  PROVE  cell.cell = "repeated" /\ cell.of.cell = "number"
<1>1. \A x : ~ElementCoding(x, coding)
  BY ElementIsWritten, ElementaryValues
<1>2. coding # Msg(cell.of) /\ coding # Entry(coding.key, coding.value)
  BY CodingNames
<1> QED
  BY <1>1, <1>2 DEF MemberCoding

LEMMA PlainRelayed ==
  ASSUME InnerMergeFrom, NEW U, NEW d \in Nat, NEW c \in Classes, NEW m, NEW i \in DOMAIN Wire[c],
         NEW field, NEW cell, NEW v, MemberAt(c, m, i, field, cell, v), InMember(c, field),
         MemberCoding(cell, field.coding),
         cell.cell \in {"text", "number"} \/ field.coding.coding = "packed",
         v \in Contents(Nested({})[d], cell)
  PROVE  RelaysMember(U, d, c, m, i, v)
<1>1. field = Wire[c][i] /\ cell = Cells[c][field.member] /\ v = m[field.member]
  BY DEF MemberAt
<1>2. NameOf(c, i) = field.member
  BY <1>1 DEF NameOf, MemberName
<1>3. SoundCell(cell)
  BY WrittenIsSound
<1>4. v \in Contents(Nested(U)[d], cell)
  <2>1. CASE cell.cell \in {"text", "number"}
    <3>1. ElementsOf(Nested({})[d], cell) = ElementsOf(Nested(U)[d], cell)
      <4>1. CASE cell.cell = "text"
        BY <4>1, SMT DEF ElementsOf
      <4>2. CASE cell.cell = "number"
        BY <4>2, SMT DEF ElementsOf
      <4> QED
        BY <2>1, <4>1, <4>2
    <3> QED
      BY <2>1, <3>1, SortOfMember
  <2>2. CASE field.coding.coding = "packed"
    <3>1. cell.cell = "repeated" /\ cell.of.cell = "number"
      BY <2>2, PackedNumbers
    <3>2. ElementsOf(Nested({})[d], cell.of) = ElementsOf(Nested(U)[d], cell.of)
      BY <3>1, SMT DEF ElementsOf
    <3> QED
      BY <3>1, <3>2, SortOfMember
  <2> QED
    BY <2>1, <2>2
<1>5. Gives(c, m, i, Later, Default(cell), v)
  <2>1. Default(cell) \in Contents(Nested({})[d], cell)
    BY <1>3, DefaultFits
  <2>2. Gives(c, m, i, Later, Default(cell), MergeMember(cell, Default(cell), v))
    BY <1>1, <2>1, PlainGives
  <2>3. MergeMember(cell, Default(cell), v) = v
    <3>1. \A x \in Classes : \A o \in Whole(d, x) : MergeFrom(x, New(x), o) = o
      BY MergeIntoNew
    <3> QED
      BY <1>3, <3>1, MergeIntoDefault
  <2> QED
    BY <2>2, <2>3
<1>6. ASSUME NEW r, r[field.member] = v PROVE FieldsOf(c, r, i) = FieldsOf(c, m, i)
  <2>1. Held(c, r, field) = Held(c, m, field)
    <3>1. CASE field.coding.coding # "packed"
      BY <1>6, <3>1, HeldUnpacked
    <3>2. CASE field.coding.coding = "packed"
      <4>1. \A o : Held(c, o, field) = IF o[field.member] = <<>> THEN <<>> ELSE <<o[field.member]>>
        BY <3>2, HeldIs
      <4>2. r[field.member] = m[field.member]
        BY <1>1, <1>6
      <4> QED
        BY <4>1, <4>2
    <3> QED
      BY <3>1, <3>2
  <2> QED
    BY <1>1, <2>1, SameFields
<1> QED
  BY <1>1, <1>2, <1>4, <1>5, <1>6 DEF RelaysMember

LEMMA KindRelayed ==
  ASSUME InnerSerialize, NEW U, NEW d \in Nat, RelaysAll(U, d), NEW c \in Classes, NEW m,
         NEW i \in DOMAIN Wire[c], NEW field, NEW cell, NEW v, KindAt(c, m, i, field, cell, v),
         ~InMember(c, field), v.case = field.member, v \in Contents(Nested({})[d], cell)
  PROVE  \E z : RelaysMember(U, d, c, m, i, z)
<1>1. PICK k, coding, element, below :
        k = field.member /\ coding = field.coding /\ element = cell.of[k] /\ below = Nested({})[d]
  OBVIOUS
<1>2. field = Wire[c][i] /\ cell = Cells[c]["kind"] /\ v = m["kind"]
  BY DEF KindAt
<1>3. cell.cell = "choice" /\ k \in DOMAIN cell.of /\ ElementCoding(element, coding)
  BY <1>1, <1>2, FieldOfMember
<1>4. k # "NOT_SET"
  <2>1. SoundCell(cell)
    BY <1>2, FieldOfMember, CellsAreSound
  <2> QED
    BY <1>3, <2>1 DEF SoundCell
<1>5. v # NOT_SET
  BY <1>1, <1>4 DEF NOT_SET
<1>6. PICK x \in ElementsOf(below, element) : v = [case |-> k, value |-> x]
  <2>1. PICK l \in DOMAIN cell.of : \E x \in ElementsOf(below, cell.of[l]) : v = [case |-> l, value |-> x]
    BY <1>1, <1>3, <1>5, ChoiceContents
  <2>2. PICK x \in ElementsOf(below, cell.of[l]) : v = [case |-> l, value |-> x]
    BY <2>1
  <2>3. l = k
    BY <1>1, <2>2
  <2> QED
    BY <1>1, <2>2, <2>3
<1>7. /\ ElementaryCoding(coding) /\ x \in ElementValues(below, coding)
      /\ coding.coding # "packed" /\ coding.coding # "entry"
  BY <1>3, <1>6, ElementIsWritten, ElementaryValues
<1>8. PICK y : Relayed(U, d, coding, x, y)
  BY <1>1, <1>7, ElementRelayed
<1>9. PICK z : z = [case |-> k, value |-> y]
  OBVIOUS
<1>10. z.case = k /\ z.value = y /\ v.case = k /\ v.value = x
  BY <1>6, <1>9
<1>11. NameOf(c, i) = "kind"
  BY <1>2 DEF NameOf, MemberName
<1>12. z \in Contents(Nested(U)[d], cell)
  <2>1. ElementsOf(Nested(U)[d], element) = ElementValues(Nested(U)[d], coding)
    BY <1>3, ElementIsWritten
  <2>2. y \in ElementsOf(Nested(U)[d], cell.of[k])
    BY <1>1, <1>8, <2>1 DEF Relayed
  <2> QED
    BY <1>3, <1>9, <2>2, ContentsOfChoice
<1>13. \A r : r["kind"].case = k => Held(c, r, field) = <<r["kind"].value>>
  BY <1>1, <1>7, HeldIs
<1>14. Gives(c, m, i, Later, Default(cell), z)
  <2>1. TargetIn(c, field, NOT_SET) = New(coding.of)
    BY <1>1, <1>4 DEF TargetIn, NOT_SET
  <2>2. FieldReadsAs(Later, coding, TargetIn(c, field, NOT_SET), x, y)
    BY <1>7, <1>8, <2>1 DEF FieldReadsAs, Relayed
  <2>3. Taken(c, field, NOT_SET, x, y) = z
    BY <1>1, <1>2, <1>9, SortOfTaking
  <2>4. Held(c, m, field) = <<x>>
    BY <1>2, <1>10, <1>13
  <2>5. Gives(c, m, i, Later, NOT_SET, Taken(c, field, NOT_SET, x, y))
    BY <1>1, <1>2, <2>2, <2>4, OneGives
  <2> QED
    BY <1>3, <2>3, <2>5, DefaultValues
<1>15. ASSUME NEW r, r["kind"] = z PROVE FieldsOf(c, r, i) = FieldsOf(c, m, i)
  <2>1. Held(c, r, field) = <<y>> /\ Held(c, m, field) = <<x>>
    BY <1>2, <1>10, <1>13, <1>15
  <2>2. EncodeField(field, y) = EncodeField(field, x)
    <3>1. Relayed(U, d, field.coding, x, y) /\ field.coding.coding # "entry"
      BY <1>1, <1>7, <1>8
    <3> QED
      BY <3>1 DEF EncodeField, Relayed
  <2> QED
    BY <1>2, <2>1, <2>2, OneField
<1> QED
  BY <1>1, <1>2, <1>10, <1>11, <1>12, <1>14, <1>15 DEF RelaysMember

LEMMA PointerRelayed ==
  ASSUME InnerSerialize, NEW U, NEW d \in Nat, RelaysAll(U, d), NEW c \in Classes, NEW m,
         NEW i \in DOMAIN Wire[c], NEW field, NEW cell, NEW v, MemberAt(c, m, i, field, cell, v),
         InMember(c, field), cell.cell = "pointer", MemberCoding(cell, field.coding),
         v \in Contents(Nested({})[d], cell)
  PROVE  \E z : RelaysMember(U, d, c, m, i, z)
<1>1. PICK e, coding : e = cell.of /\ coding = field.coding
  OBVIOUS
<1>2. field = Wire[c][i] /\ cell = Cells[c][field.member] /\ v = m[field.member]
  BY DEF MemberAt
<1>3. /\ e \in Classes /\ coding = Msg(e) /\ coding.coding = "message" /\ coding.of = e
      /\ ElementaryCoding(coding)
  BY <1>1, CodingNames DEF MemberCoding, ElementaryCoding
<1>4. NameOf(c, i) = field.member
  BY <1>2 DEF NameOf, MemberName
<1>5. \A r : Held(c, r, field) = r[field.member]
  <2>1. \A x : Unpack(cell, x) = x
    BY SortOfUnpacking
  <2>2. field.coding.coding # "packed"
    BY <1>1, <1>3
  <2> QED
    BY <2>1, <2>2, HeldUnpacked
<1>6. Default(cell) = <<>>
  BY DefaultValues
<1>7. CASE v = <<>>
  <2>1. v \in Contents(Nested(U)[d], cell)
    BY <1>7, SMT DEF Contents
  <2>2. Gives(c, m, i, Later, Default(cell), v)
    BY <1>2, <1>5, <1>6, <1>7, NoneGives
  <2>3. ASSUME NEW r, r[field.member] = v PROVE FieldsOf(c, r, i) = FieldsOf(c, m, i)
    BY <1>2, <1>5, <2>3, SameFields
  <2> QED
    BY <1>2, <1>4, <2>1, <2>2, <2>3 DEF RelaysMember
<1>8. CASE v # <<>>
  <2>1. PICK x \in Nested({})[d][e] : v = <<x>>
    BY <1>1, <1>8, PointerContents
  <2>2. x \in ElementValues(Nested({})[d], coding)
    BY <1>3, <2>1, SMT DEF ElementValues
  <2>3. PICK y : Relayed(U, d, coding, x, y)
    BY <1>3, <2>2, ElementRelayed
  <2>4. <<y>> \in Contents(Nested(U)[d], cell)
    <3>1. y \in Nested(U)[d][e]
      BY <1>3, <2>3, SMT DEF ElementValues, Relayed
    <3> QED
      BY <1>1, <3>1, SMT DEF Contents
  <2>5. Gives(c, m, i, Later, Default(cell), <<y>>)
    <3>1. TargetIn(c, field, <<>>) = New(coding.of)
      BY <1>1, <1>2 DEF TargetIn
    <3>2. FieldReadsAs(Later, coding, TargetIn(c, field, <<>>), x, y)
      BY <1>3, <2>3, <3>1 DEF FieldReadsAs, Relayed
    <3>3. Taken(c, field, <<>>, x, y) = <<y>>
      BY MemberTakes
    <3>4. Held(c, m, field) = <<x>>
      BY <1>2, <1>5, <2>1
    <3>5. Gives(c, m, i, Later, <<>>, Taken(c, field, <<>>, x, y))
      BY <1>1, <1>2, <3>2, <3>4, OneGives
    <3> QED
      BY <1>6, <3>3, <3>5
  <2>6. ASSUME NEW r, r[field.member] = <<y>> PROVE FieldsOf(c, r, i) = FieldsOf(c, m, i)
    <3>1. Held(c, r, field) = <<y>> /\ Held(c, m, field) = <<x>>
      BY <1>2, <1>5, <2>1, <2>6
    <3>2. EncodeField(field, y) = EncodeField(field, x)
      <4>1. Relayed(U, d, field.coding, x, y) /\ field.coding.coding # "entry"
        BY <1>1, <1>3, <2>3
      <4> QED
        BY <4>1 DEF EncodeField, Relayed
    <3> QED
      BY <1>2, <3>1, <3>2, OneField
  <2> QED
    BY <1>2, <1>4, <2>4, <2>5, <2>6 DEF RelaysMember
<1> QED
  BY <1>7, <1>8

LEMMA RepeatedRelayed ==
  ASSUME InnerSerialize, NEW U, NEW d \in Nat, RelaysAll(U, d), NEW c \in Classes, NEW m,
         NEW i \in DOMAIN Wire[c], NEW field, NEW cell, NEW v, MemberAt(c, m, i, field, cell, v),
         InMember(c, field), cell.cell = "repeated", MemberCoding(cell, field.coding),
         field.coding.coding # "packed", v \in Contents(Nested({})[d], cell)
  PROVE  \E z : RelaysMember(U, d, c, m, i, z)
<1>1. PICK coding : coding = field.coding
  OBVIOUS
<1>2. field = Wire[c][i] /\ cell = Cells[c][field.member] /\ v = m[field.member]
  BY DEF MemberAt
<1>3. ElementCoding(cell.of, coding)
  BY <1>1, CodingNames DEF MemberCoding
<1>4. ElementaryCoding(coding) /\ coding.coding # "entry" /\ coding.coding # "packed"
  BY <1>3, ElementIsWritten, ElementaryValues
<1>5. PICK S, T : S = ElementsOf(Nested({})[d], cell.of) /\ T = ElementsOf(Nested(U)[d], cell.of)
  OBVIOUS
<1>6. S = ElementValues(Nested({})[d], coding) /\ T = ElementValues(Nested(U)[d], coding)
  BY <1>3, <1>5, ElementIsWritten
<1>7. v \in Seq(S)
  BY <1>5, SortOfMember
<1>8. PICK z : z = [j \in 1 .. Len(v) |-> CHOOSE y : Relayed(U, d, coding, v[j], y)]
  OBVIOUS
<1>9. ASSUME NEW j \in 1 .. Len(v) PROVE Relayed(U, d, coding, v[j], z[j])
  <2>1. PICK x : x = v[j]
    OBVIOUS
  <2>2. x \in ElementValues(Nested({})[d], coding)
    BY <1>6, <1>7, <2>1, ElementOfSeq
  <2>3. \E y : Relayed(U, d, coding, x, y)
    BY <1>4, <2>2, ElementRelayed
  <2>4. z[j] = CHOOSE y : Relayed(U, d, coding, x, y)
    BY <1>8, <2>1
  <2> QED
    BY <2>1, <2>3, <2>4
<1>10. Len(v) \in Nat /\ DOMAIN v = 1 .. Len(v)
  BY <1>7, LenProperties
<1>11. z \in Seq(T) /\ Len(z) = Len(v) /\ DOMAIN z = 1 .. Len(v)
  <2>1. \A j \in 1 .. Len(v) : z[j] \in T
    BY <1>6, <1>9 DEF Relayed
  <2>2. z \in [1 .. Len(v) -> T]
    BY <1>8, <2>1
  <2>3. z \in Seq(T)
    BY <1>10, <2>2, SeqDef
  <2>4. DOMAIN z = 1 .. Len(v)
    BY <1>8
  <2>5. Len(z) \in Nat /\ DOMAIN z = 1 .. Len(z)
    BY <2>3, LenProperties
  <2> QED
    BY <1>10, <2>3, <2>4, <2>5
<1>12. NameOf(c, i) = field.member
  BY <1>2 DEF NameOf, MemberName
<1>13. \A r : Held(c, r, field) = r[field.member]
  <2>1. \A x : Unpack(cell, x) = x
    BY SortOfUnpacking
  <2>2. field.coding.coding # "packed"
    BY <1>1, <1>4
  <2> QED
    BY <2>1, <2>2, HeldUnpacked
<1>14. z \in Contents(Nested(U)[d], cell)
  BY <1>5, <1>11, SortOfMember
<1>15. Gives(c, m, i, Later, Default(cell), z)
  <2>1. <<>> \in Seq(T) /\ Default(cell) = <<>> /\ <<>> \o z = z
    BY <1>11, EmptySeq, ConcatEmptySeq, DefaultValues
  <2>2. \A j \in 1 .. Len(z) : ReadsAs(Later, coding, New(coding.of), v[j], z[j])
    BY <1>9, <1>11 DEF Relayed
  <2>3. Held(c, m, field) = v
    BY <1>2, <1>13
  <2>4. Gives(c, m, i, Later, <<>>, <<>> \o z)
    <3>1. Cells[c][field.member].cell = "repeated"
      BY <1>2
    <3> QED
      BY <1>1, <1>2, <1>4, <1>7, <1>11, <2>1, <2>2, <2>3, <3>1, RepeatedGives, ZenonT(30)
  <2> QED
    BY <2>1, <2>4
<1>16. ASSUME NEW r, r[field.member] = z PROVE FieldsOf(c, r, i) = FieldsOf(c, m, i)
  <2>1. Held(c, r, field) = z /\ Held(c, m, field) = v
    BY <1>2, <1>13, <1>16
  <2>2. DOMAIN z = DOMAIN v
    BY <1>10, <1>11
  <2>3. ASSUME NEW j \in DOMAIN z PROVE EncodeField(field, z[j]) = EncodeField(field, v[j])
    <3>1. PICK x, y : x = v[j] /\ y = z[j]
      OBVIOUS
    <3>2. Relayed(U, d, field.coding, x, y) /\ field.coding.coding # "entry"
      BY <1>1, <1>4, <1>9, <1>11, <3>1
    <3>3. EncodeField(field, y) = EncodeField(field, x)
      BY <3>2 DEF EncodeField, Relayed
    <3> QED
      BY <3>1, <3>3
  <2>4. z = Held(c, r, Wire[c][i]) /\ v = Held(c, m, Wire[c][i])
    BY <1>2, <2>1
  <2>5. \A j \in DOMAIN z : EncodeField(Wire[c][i], z[j]) = EncodeField(Wire[c][i], v[j])
    BY <1>2, <2>3
  <2> QED
    BY <2>2, <2>4, <2>5, SameFields
<1>17. RelaysMember(U, d, c, m, i, z)
  <2>1. /\ z \in Contents(Nested(U)[d], Cells[c][NameOf(c, i)])
        /\ Gives(c, m, i, Later, Default(Cells[c][NameOf(c, i)]), z)
    BY <1>2, <1>12, <1>14, <1>15
  <2>2. \A r : r[NameOf(c, i)] = z => FieldsOf(c, r, i) = FieldsOf(c, m, i)
    BY <1>12, <1>16
  <2>3. InMember(c, Wire[c][i])
    BY <1>2
  <2> QED
    BY <2>1, <2>2, <2>3 DEF RelaysMember
<1> QED
  BY <1>17

LEMMA SameKeys ==
  ASSUME NEW v, NEW w, DOMAIN v = DOMAIN w
  PROVE  Iterated(v) = Iterated(w)
BY DEF Iterated

LEMMA MapRelayed ==
  ASSUME InnerSerialize, NEW U, NEW d \in Nat, RelaysAll(U, d), NEW c \in Classes, NEW m,
         NEW i \in DOMAIN Wire[c], NEW field, NEW cell, NEW v, MemberAt(c, m, i, field, cell, v),
         InMember(c, field), cell.cell = "map", MemberCoding(cell, field.coding),
         v \in Contents(Nested({})[d], cell)
  PROVE  \E z : RelaysMember(U, d, c, m, i, z)
<1>1. PICK coding : coding = field.coding
  OBVIOUS
<1>2. field = Wire[c][i] /\ cell = Cells[c][field.member] /\ v = m[field.member]
  BY DEF MemberAt
<1>3. /\ ElementCoding(cell.key, coding.key) /\ cell.key.cell # "object"
      /\ ElementCoding(cell.of, coding.value)
  BY <1>1 DEF MemberCoding
<1>4. coding.coding = "entry" /\ ElementaryCoding(coding.value)
  BY <1>1, <1>3, SortOfCoding, ElementIsWritten
<1>5. PICK K, S, T : /\ K = ElementsOf(Nested({})[d], cell.key) /\ S = ElementsOf(Nested({})[d], cell.of)
                     /\ T = ElementsOf(Nested(U)[d], cell.of)
  OBVIOUS
<1>6. S = ElementValues(Nested({})[d], coding.value) /\ T = ElementValues(Nested(U)[d], coding.value)
  BY <1>3, <1>5, ElementIsWritten
<1>7. K = ElementsOf(Nested(U)[d], cell.key)
  <2>1. CASE cell.key.cell = "text"
    BY <1>5, <2>1, SMT DEF ElementsOf
  <2>2. CASE cell.key.cell = "number"
    BY <1>5, <2>2, SMT DEF ElementsOf
  <2> QED
    BY <1>3, <2>1, <2>2 DEF ElementCoding
<1>8. v \in Maps(K, S)
  BY <1>5, SortOfMember
<1>9. IsFiniteSet(DOMAIN v) /\ IsFunction(v) /\ \A x \in DOMAIN v : v[x] \in S
  BY <1>8, MapsAre
<1>10. PICK z : z = [x \in DOMAIN v |-> CHOOSE y : Relayed(U, d, coding.value, v[x], y)]
  OBVIOUS
<1>11. DOMAIN z = DOMAIN v /\ IsFunction(z)
  BY <1>10 DEF IsFunction
<1>12. ASSUME NEW x \in DOMAIN v PROVE Relayed(U, d, coding.value, v[x], z[x])
  <2>1. PICK w : w = v[x]
    OBVIOUS
  <2>2. w \in ElementValues(Nested({})[d], coding.value)
    BY <1>6, <1>9, <2>1
  <2>3. \E y : Relayed(U, d, coding.value, w, y)
    BY <1>4, <2>2, ElementRelayed
  <2>4. z[x] = CHOOSE y : Relayed(U, d, coding.value, w, y)
    BY <1>10, <2>1
  <2> QED
    BY <2>1, <2>3, <2>4
<1>13. z \in Contents(Nested(U)[d], cell)
  <2>1. \A x \in DOMAIN v : z[x] \in T
    BY <1>6, <1>12 DEF Relayed
  <2>2. DOMAIN v \in SUBSET K
    BY <1>8 DEF Maps
  <2>3. z \in [DOMAIN v -> T]
    BY <1>11, <2>1 DEF IsFunction
  <2>4. z \in Maps(K, T)
    BY <1>9, <1>11, <2>2, <2>3 DEF Maps
  <2> QED
    BY <1>5, <1>7, <2>4, SortOfMember
<1>14. NameOf(c, i) = field.member
  BY <1>2 DEF NameOf, MemberName
<1>15. PICK keys : keys = Iterated(v)
  OBVIOUS
<1>16. PICK n \in Nat : keys \in [1 .. n -> DOMAIN v]
  BY <1>9, <1>15, IteratedKeys
<1>17. \A r, w : r[field.member] = w /\ DOMAIN w = DOMAIN v =>
                   Held(c, r, field) = [j \in 1 .. n |-> <<keys[j], w[keys[j]]>>]
  <2> SUFFICES ASSUME NEW r, NEW w, r[field.member] = w, DOMAIN w = DOMAIN v
               PROVE  Held(c, r, field) = [j \in 1 .. n |-> <<keys[j], w[keys[j]]>>]
    OBVIOUS
  <2>1. Held(c, r, field) = Unpack(cell, w)
    <3>1. field.coding.coding # "packed"
      BY <1>1, <1>4
    <3>2. Held(c, r, field) = Unpack(cell, r[field.member])
      BY <3>1, HeldUnpacked
    <3> QED
      BY <3>2
  <2>2. Iterated(w) = keys
    BY <1>15, SameKeys
  <2>3. Unpack(cell, w) = [j \in DOMAIN Iterated(w) |-> <<Iterated(w)[j], w[Iterated(w)[j]]>>]
    BY SMT DEF Unpack
  <2>4. DOMAIN keys = 1 .. n
    BY <1>16
  <2> QED
    BY <2>1, <2>2, <2>3, <2>4
<1>18. Gives(c, m, i, Later, Default(cell), z)
  <2>1. Default(cell) = <<>> /\ IsFunction(<<>>)
    BY DefaultValues DEF IsFunction
  <2>2. Over(z, <<>>) = z
    <3>1. DOMAIN <<>> = {}
      OBVIOUS
    <3>2. Over(z, <<>>) = [x \in DOMAIN z |-> z[x]]
      BY <3>1 DEF Over
    <3> QED
      BY <1>11, <3>2 DEF IsFunction
  <2>3. Held(c, m, field) = Unpack(cell, v)
    <3>1. field.coding.coding # "packed"
      BY <1>1, <1>4
    <3> QED
      BY <3>1, HeldUnpacked
  <2>4. \A x \in DOMAIN v : ReadsAs(Later, field.coding.value, New(field.coding.value.of), v[x], z[x])
    BY <1>1, <1>12 DEF Relayed
  <2>5. /\ field.coding.coding = "entry" /\ Cells[c][field.member].cell = "map"
        /\ Held(c, m, field) = Unpack(Cells[c][field.member], v)
    BY <1>1, <1>2, <1>4, <2>3
  <2>6. Gives(c, m, i, Later, <<>>, Over(z, <<>>))
    BY <1>2, <1>9, <1>11, <2>1, <2>4, <2>5, MapGives, ZenonT(30)
  <2> QED
    BY <2>1, <2>2, <2>6
<1>19. ASSUME NEW r, r[field.member] = z PROVE FieldsOf(c, r, i) = FieldsOf(c, m, i)
  <2>1. PICK first, second : /\ first = [j \in 1 .. n |-> <<keys[j], z[keys[j]]>>]
                             /\ second = [j \in 1 .. n |-> <<keys[j], v[keys[j]]>>]
    OBVIOUS
  <2>2. Held(c, r, field) = first /\ Held(c, m, field) = second
    <3>1. DOMAIN z = DOMAIN v /\ r[field.member] = z /\ m[field.member] = v
      BY <1>2, <1>11, <1>19
    <3>2. Held(c, r, field) = [j \in 1 .. n |-> <<keys[j], z[keys[j]]>>]
      BY <1>17, <3>1
    <3>3. Held(c, m, field) = [j \in 1 .. n |-> <<keys[j], v[keys[j]]>>]
      BY <1>17, <3>1
    <3> QED
      BY <2>1, <3>2, <3>3
  <2>3. DOMAIN first = 1 .. n /\ DOMAIN second = 1 .. n
    BY <2>1
  <2>4. ASSUME NEW j \in 1 .. n PROVE EncodeField(field, first[j]) = EncodeField(field, second[j])
    <3>1. PICK x, y, w : x = keys[j] /\ y = z[x] /\ w = v[x]
      OBVIOUS
    <3>2. x \in DOMAIN v
      BY <1>16, <3>1
    <3>3. first[j] = <<x, y>> /\ second[j] = <<x, w>>
      BY <2>1, <3>1
    <3>4. Relayed(U, d, coding.value, w, y)
      BY <1>12, <3>1, <3>2
    <3>5. Encode(2, coding.value, y) = Encode(2, coding.value, w)
      BY <3>4 DEF Relayed
    <3>6. PICK p, q : p = <<x, y>> /\ q = <<x, w>>
      OBVIOUS
    <3>7. p[1] = x /\ p[2] = y /\ q[1] = x /\ q[2] = w
      BY <3>6
    <3>8. EncodeField(field, p) = EncodeField(field, q)
      BY <1>1, <1>4, <3>5, <3>7 DEF EncodeField
    <3> QED
      BY <3>3, <3>6, <3>8
  <2>5. first = Held(c, r, Wire[c][i]) /\ second = Held(c, m, Wire[c][i]) /\ DOMAIN first = DOMAIN second
    BY <1>2, <2>2, <2>3
  <2>6. \A j \in DOMAIN first : EncodeField(Wire[c][i], first[j]) = EncodeField(Wire[c][i], second[j])
    BY <1>2, <2>3, <2>4
  <2> QED
    BY <2>5, <2>6, SameFields
<1>20. RelaysMember(U, d, c, m, i, z)
  <2>1. /\ z \in Contents(Nested(U)[d], Cells[c][NameOf(c, i)])
        /\ Gives(c, m, i, Later, Default(Cells[c][NameOf(c, i)]), z)
    BY <1>2, <1>13, <1>14, <1>18
  <2>2. \A r : r[NameOf(c, i)] = z => FieldsOf(c, r, i) = FieldsOf(c, m, i)
    <3> SUFFICES ASSUME NEW r, r[NameOf(c, i)] = z PROVE FieldsOf(c, r, i) = FieldsOf(c, m, i)
      OBVIOUS
    <3>1. r[field.member] = z
      BY <1>2, <1>14
    <3> QED
      BY <1>19, <3>1
  <2>3. InMember(c, Wire[c][i])
    BY <1>2
  <2> QED
    BY <2>1, <2>2, <2>3 DEF RelaysMember
<1> QED
  BY <1>20

LEMMA MemberRelayed ==
  ASSUME InnerMergeFrom, InnerSerialize, NEW U, NEW d \in Nat, RelaysAll(U, d), NEW c \in Classes,
         NEW m \in Whole(d + 1, c), NEW i \in DOMAIN Wire[c], Writes(c, m, i)
  PROVE  \E z : RelaysMember(U, d, c, m, i, z)
<1>1. PICK field, name, v, cell : field = Wire[c][i] /\ name = NameOf(c, i) /\ v = m[name] /\ cell = Cells[c][name]
  OBVIOUS
<1>2. name \in DOMAIN Cells[c] /\ v \in Contents(Nested({})[d], cell)
  BY <1>1, NameIsMember, WholeParts
<1>3. CASE ~InMember(c, field)
  <2>1. name = "kind" /\ v.case = field.member
    BY <1>1, <1>3 DEF NameOf, MemberName, Writes
  <2>2. KindAt(c, m, i, field, cell, v)
    BY <1>1, <2>1 DEF KindAt
  <2> QED
    BY <1>1, <1>2, <1>3, <2>1, <2>2, KindRelayed
<1>4. CASE InMember(c, field)
  <2>1. name = field.member /\ MemberCoding(cell, field.coding)
    BY <1>1, <1>4, FieldOfMember DEF NameOf, MemberName
  <2>6. MemberAt(c, m, i, field, cell, v)
    BY <1>1, <2>1 DEF MemberAt
  <2>2. CASE cell.cell = "pointer"
    BY <1>1, <1>2, <1>4, <2>1, <2>6, <2>2, PointerRelayed
  <2>3. CASE cell.cell \in {"text", "number"} \/ field.coding.coding = "packed"
    BY <1>1, <1>2, <1>4, <2>1, <2>6, <2>3, PlainRelayed
  <2>4. CASE cell.cell = "repeated" /\ field.coding.coding # "packed"
    BY <1>1, <1>2, <1>4, <2>1, <2>6, <2>4, RepeatedRelayed
  <2>5. CASE cell.cell = "map"
    BY <1>1, <1>2, <1>4, <2>1, <2>6, <2>5, MapRelayed
  <2> QED
    BY <2>1, <2>2, <2>3, <2>4, <2>5 DEF MemberCoding
<1> QED
  BY <1>3, <1>4

\* Of a member that has its default value nothing is written, nor of what a oneof does
\* not hold.
LEMMA DefaultHolds ==
  ASSUME NEW cell, NEW coding, MemberCoding(cell, coding)
  PROVE  /\ coding.coding = "packed" => Default(cell) = <<>>
         /\ coding.coding # "packed" => Unpack(cell, Default(cell)) = <<>>
<1>1. PICK v : v = Default(cell)
  OBVIOUS
<1>2. CASE coding.coding = "packed"
  <2>1. cell.cell = "repeated"
    BY <1>2, PackedNumbers
  <2>2. v = <<>>
    BY <1>1, <2>1, DefaultValues
  <2> QED
    BY <1>1, <1>2, <2>2
<1>3. CASE cell.cell = "text" \/ cell.cell = "number"
  <2>1. Unpack(cell, v) = <<>>
    BY <1>1, <1>3, SortOfUnpacking
  <2>2. coding.coding # "packed"
    BY <1>3, PackedNumbers
  <2> QED
    BY <1>1, <2>1, <2>2
<1>4. CASE coding.coding # "packed" /\ (cell.cell = "pointer" \/ cell.cell = "repeated")
  <2>1. v = <<>>
    BY <1>1, <1>4, DefaultValues
  <2>2. Unpack(cell, v) = v
    BY <1>4, SortOfUnpacking
  <2> QED
    BY <1>1, <1>4, <2>1, <2>2
<1>5. CASE cell.cell = "map"
  <2>1. v = <<>> /\ DOMAIN v = {}
    BY <1>1, <1>5, DefaultValues
  <2>2. PICK keys : keys = Iterated(v)
    OBVIOUS
  <2>3. IsFiniteSet(DOMAIN v)
    BY <2>1, FS_EmptySet
  <2>4. PICK n \in Nat : keys \in [1 .. n -> DOMAIN v]
    BY <2>2, <2>3, IteratedKeys
  <2>5. n = 0
    <3> SUFFICES ASSUME n # 0 PROVE FALSE
      OBVIOUS
    <3>1. 1 \in 1 .. n
      OBVIOUS
    <3>2. keys[1] \in DOMAIN v
      BY <2>4, <3>1
    <3> QED
      BY <2>1, <3>2
  <2>6. PICK held : held = [j \in DOMAIN keys |-> <<keys[j], v[keys[j]]>>]
    OBVIOUS
  <2>7. Unpack(cell, v) = held
    BY <1>5, <2>2, <2>6, SMT DEF Unpack
  <2>8. held \in [1 .. 0 -> {}]
    BY <2>4, <2>5, <2>6
  <2>9. held \in Seq({}) /\ DOMAIN held = 1 .. 0
    BY <2>8, SeqDef
  <2>10. held = <<>>
    <3>1. Len(held) = 0
      BY <2>9, LenProperties
    <3> QED
      BY <2>9, <3>1, EmptySeq
  <2>11. coding.coding # "packed"
    BY <1>5, PackedNumbers
  <2> QED
    BY <1>1, <2>7, <2>10, <2>11
<1>6. cell.cell \in {"text", "number", "pointer", "repeated", "map"}
  BY DEF MemberCoding
<1> QED
  BY <1>2, <1>3, <1>4, <1>5, <1>6

LEMMA NoFields ==
  ASSUME NEW c, NEW i, NEW r, Held(c, r, Wire[c][i]) = <<>>
  PROVE  FieldsOf(c, r, i) = <<>>
<1>1. DOMAIN Held(c, r, Wire[c][i]) = {}
  OBVIOUS
<1>2. FieldsOf(c, r, i) = [j \in {} |-> EncodeField(Wire[c][i], Held(c, r, Wire[c][i])[j])]
  BY <1>1 DEF FieldsOf
<1> QED
  BY <1>2

Silent(c, r, i) ==
  \/ r[NameOf(c, i)] = Default(Cells[c][NameOf(c, i)])
  \/ ~InMember(c, Wire[c][i]) /\ r["kind"].case # Wire[c][i].member

LEMMA NothingWritten ==
  ASSUME NEW c \in Classes, NEW i \in DOMAIN Wire[c], NEW r, Silent(c, r, i)
  PROVE  FieldsOf(c, r, i) = <<>>
<1>1. PICK field, name, cell : field = Wire[c][i] /\ name = NameOf(c, i) /\ cell = Cells[c][name]
  OBVIOUS
<1>2. CASE InMember(c, field)
  <2>1. name = field.member /\ MemberCoding(cell, field.coding)
    BY <1>1, <1>2, FieldOfMember DEF NameOf, MemberName
  <2>2. r[name] = Default(cell)
    BY <1>1, <1>2 DEF Silent
  <2>3. Held(c, r, field) = <<>>
    <3>1. CASE field.coding.coding = "packed"
      <4>1. r[name] = <<>>
        BY <2>1, <2>2, <3>1, DefaultHolds
      <4> QED
        BY <1>2, <2>1, <3>1, <4>1, HeldIs
    <3>2. CASE field.coding.coding # "packed"
      <4>1. Unpack(cell, r[name]) = <<>>
        BY <2>1, <2>2, <3>2, DefaultHolds
      <4> QED
        BY <1>1, <1>2, <2>1, <3>2, <4>1, HeldIs
    <3> QED
      BY <3>1, <3>2
  <2> QED
    BY <1>1, <2>3, NoFields
<1>3. CASE ~InMember(c, field)
  <2>1. name = "kind"
    BY <1>1, <1>3 DEF NameOf, MemberName
  <2>2. cell.cell = "choice" /\ field.member \in DOMAIN cell.of /\ ElementCoding(cell.of[field.member], field.coding)
    BY <1>1, <1>3, <2>1, FieldOfMember
  <2>3. field.coding.coding # "packed"
    BY <2>2, ElementIsWritten, ElementaryValues
  <2>4. field.member # "NOT_SET"
    <3>1. SoundCell(cell)
      BY <1>1, NameIsMember, CellsAreSound
    <3> QED
      BY <2>2, <3>1 DEF SoundCell
  <2>5. r["kind"].case # field.member
    <3>1. CASE r[name] = Default(cell)
      <4>1. r["kind"] = NOT_SET
        BY <2>1, <2>2, <3>1, DefaultValues
      <4> QED
        BY <2>4, <4>1 DEF NOT_SET
    <3>2. CASE r[name] # Default(cell)
      BY <1>1, <3>2 DEF Silent
    <3> QED
      BY <3>1, <3>2
  <2>6. Held(c, r, field) = <<>>
    BY <1>3, <2>3, <2>5, HeldIs
  <2> QED
    BY <1>1, <2>6, NoFields
<1> QED
  BY <1>2, <1>3

\* What a field that the reader lacks was written as is kept.
LEMMA HiddenAreKept ==
  ASSUME InnerParse, NEW c \in Classes, NEW i \in DOMAIN Wire[c], NEW hidden, <<c, i>> \in hidden,
         NEW m, NEW V, SoundCoding(Wire[c][i].coding), Held(c, m, Wire[c][i]) \in Seq(V),
         NEW Y, IsFunction(Y), "unknown_fields" \in DOMAIN Y, Y["unknown_fields"] = <<>>, NEW depth \in Nat
  PROVE  Parse(c, Y, FieldsOf(c, m, i), depth, hidden) = <<With(Y, "unknown_fields", FieldsOf(c, m, i))>>
<1>1. PICK field : field = Wire[c][i]
  OBVIOUS
<1>2. PICK held \in Seq(V) : held = Held(c, m, field)
  BY <1>1
<1>3. PICK s : s = FieldsOf(c, m, i)
  OBVIOUS
<1>4. PICK S : S = Range(s)
  OBVIOUS
<1>5. PICK n \in Nat : n = Len(held)
  BY LenProperties
<1>6. s \in Seq(S) /\ Len(s) = n /\ \A j \in 1 .. n : s[j] = EncodeField(field, held[j])
  BY <1>1, <1>2, <1>3, <1>4, <1>5, FieldsOfSeq
<1>7. PICK part : part = [j \in 0 .. n |-> SubSeq(s, 1, j)]
  OBVIOUS
<1>8. part[0] = <<>> /\ part[n] = s
  <2>1. SubSeq(s, 1, 0) = <<>>
    BY SubSeqEmpty
  <2>2. SubSeq(s, 1, n) = s
    BY <1>6, SubSeqFull
  <2>3. 0 \in 0 .. n /\ n \in 0 .. n
    OBVIOUS
  <2> QED
    BY <1>7, <2>1, <2>2, <2>3
<1>9. ASSUME NEW j \in 1 .. n PROVE part[j] = Append(part[j - 1], s[j])
  <2>1. SubSeq(s, 1, j) = SubSeq(s, 1, j - 1) \o <<s[j]>>
    <3>1. \A l \in 1 .. Len(s) : SubSeq(s, 1, l) = SubSeq(s, 1, l - 1) \o <<s[l]>>
      <4> SUFFICES ASSUME NEW l \in 1 .. Len(s) PROVE SubSeq(s, 1, l) = SubSeq(s, 1, l - 1) \o <<s[l]>>
        OBVIOUS
      <4>1. 1 \in 1 .. Len(s) /\ l \in 1 .. Len(s) /\ s \in Seq(S)
        BY <1>6
      <4> QED
        BY <4>1, SubSeqRecursiveSecond, ZenonT(30)
    <3> QED
      BY <1>6, <3>1
  <2>2. j \in 0 .. n /\ j - 1 \in 0 .. n
    OBVIOUS
  <2>3. PICK x, y : x = part[j - 1] /\ y = s[j]
    OBVIOUS
  <2>4. y \in S
    BY <1>6, <2>3, ElementOfSeq
  <2>5. x \in Seq(S)
    <3>1. \A l \in 1 .. j - 1 : s[l] \in S
      BY <1>6, ElementOfSeq
    <3>2. SubSeq(s, 1, j - 1) \in Seq(S)
      BY <1>6, <3>1, SubSeqProperties
    <3> QED
      BY <1>7, <2>2, <2>3, <3>2
  <2>6. part[j] = x \o <<y>>
    BY <1>7, <2>1, <2>2, <2>3
  <2>7. Append(x, y) = x \o <<y>>
    BY <2>4, <2>5, AppendIsConcat
  <2> QED
    BY <2>3, <2>6, <2>7
<1>10. PICK X : X = [j \in 0 .. n |-> With(Y, "unknown_fields", part[j])]
  OBVIOUS
<1>11. PICK R : R = 1 .. n
  OBVIOUS
<1>12. FieldsRead(c, n, s, X, R, depth, hidden)
  <2> SUFFICES ASSUME NEW j \in 1 .. n
               PROVE  ParseField(c, X[j - 1], s[j], depth, hidden) = <<X[j]>>
    BY <1>11 DEF FieldsRead
  <2>1. PICK x, p, q : x = X[j - 1] /\ p = part[j - 1] /\ q = part[j]
    OBVIOUS
  <2>2. j \in 0 .. n /\ j - 1 \in 0 .. n
    OBVIOUS
  <2>3. x = With(Y, "unknown_fields", p) /\ X[j] = With(Y, "unknown_fields", q) /\ q = Append(p, s[j])
    BY <1>9, <1>10, <2>1, <2>2
  <2>4. x["unknown_fields"] = p /\ \A w : With(x, "unknown_fields", w) = With(Y, "unknown_fields", w)
    BY <2>3, WithWith
  <2>5. PICK v : v = held[j]
    OBVIOUS
  <2>6. Keeps(c, x, EncodeField(field, v), depth, hidden)
    <3>1. SoundCoding(field.coding) /\ <<c, i>> \in hidden
      BY <1>1
    <3> QED
      BY <1>1, <3>1, HiddenIsKept
  <2>7. EncodeField(field, v) = s[j]
    BY <1>6, <2>5
  <2> QED
    BY <2>1, <2>3, <2>4, <2>6, <2>7 DEF Keeps
<1>13. Parse(c, X[0], s, depth, hidden) = IF 1 .. n \subseteq R THEN <<X[n]>> ELSE <<>>
  <2>1. s \in Seq(S) /\ Len(s) = n
    BY <1>6
  <2> QED
    BY <1>12, <2>1, ParseFields
<1>14. X[0] = Y /\ X[n] = With(Y, "unknown_fields", s)
  <2>1. 0 \in 0 .. n /\ n \in 0 .. n
    OBVIOUS
  <2> QED
    BY <1>8, <1>10, <2>1, WithWith
<1> QED
  BY <1>3, <1>11, <1>13, <1>14

\* The members of what the relay reads.
RelayedMembers(U, d, c, m) ==
  [f \in DOMAIN Cells[c] |->
     CHOOSE z : \E i \in DOMAIN Wire[c] :
                  Writes(c, m, i) /\ NameOf(c, i) = f /\ RelaysMember(U, d, c, m, i, z)]

MembersRelayed(U, d, c, m, Z) ==
  \A i \in DOMAIN Wire[c] : Writes(c, m, i) => RelaysMember(U, d, c, m, i, Z[NameOf(c, i)])

LEMMA SomeRelayed ==
  ASSUME InnerMergeFrom, InnerSerialize, NEW U, NEW d \in Nat, RelaysAll(U, d), NEW c \in Classes,
         NEW m \in Whole(d + 1, c)
  PROVE  \E Z : MembersRelayed(U, d, c, m, Z)
<1>1. PICK Z : Z = RelayedMembers(U, d, c, m)
  OBVIOUS
<1>2. ASSUME NEW i \in DOMAIN Wire[c], Writes(c, m, i)
      PROVE  RelaysMember(U, d, c, m, i, Z[NameOf(c, i)])
  <2>1. PICK f : f = NameOf(c, i)
    OBVIOUS
  <2>2. f \in DOMAIN Cells[c]
    BY <2>1, NameIsMember
  <2>3. \E z : RelaysMember(U, d, c, m, i, z)
    BY <1>2, MemberRelayed
  <2> DEFINE Fits(z) == \E j \in DOMAIN Wire[c] :
                          Writes(c, m, j) /\ NameOf(c, j) = f /\ RelaysMember(U, d, c, m, j, z)
  <2>4. \E z : Fits(z)
    BY <1>2, <2>1, <2>3
  <2>5. Z[f] = CHOOSE z : Fits(z)
    BY <1>1, <2>2 DEF RelayedMembers
  <2>6. Fits(Z[f])
    <3> HIDE DEF Fits
    <3> QED
      BY <2>4, <2>5
  <2>7. PICK j \in DOMAIN Wire[c] : Writes(c, m, j) /\ NameOf(c, j) = f /\ RelaysMember(U, d, c, m, j, Z[f])
    BY <2>6
  <2>8. j = i
    BY <1>2, <2>1, <2>7, OneWriter
  <2> QED
    BY <2>1, <2>7, <2>8
<1> QED
  BY <1>2 DEF MembersRelayed

\* What the relay writes for each of its fields: the same as it has read, and nothing of
\* what it has not understood.
SameMembers(c, r, X) == \A f \in DOMAIN Cells[c] : r[f] = X[f]

LEMMA UnknownIsSilent ==
  ASSUME NEW U, NEW d \in Nat, NEW c \in Classes, NEW m \in Whole(d + 1, c),
         NEW n \in Nat, DOMAIN Wire[c] = 1 .. n, NEW k \in 0 .. n,
         NEW Z, MembersRelayed(U, d, c, m, Z),
         NEW r, SameMembers(c, r, After(c, m, New(c), Z, k)),
         NEW i \in 1 .. n, i > k \/ ~Writes(c, m, i)
  PROVE  Silent(c, r, i)
<1>1. PICK name, X : name = NameOf(c, i) /\ X = After(c, m, New(c), Z, k)
  OBVIOUS
<1>2. name \in DOMAIN Cells[c] /\ name \in Members(c)
  BY <1>1, NameIsMember DEF Members
<1>3. r[name] = X[name]
  BY <1>1, <1>2 DEF SameMembers
<1>4. X[name] = IF \E j \in 1 .. k : Writes(c, m, j) /\ NameOf(c, j) = name THEN Z[name] ELSE New(c)[name]
  BY <1>1, <1>2 DEF After
<1>5. CASE \E j \in 1 .. k : Writes(c, m, j) /\ NameOf(c, j) = name
  <2>1. PICK j \in 1 .. k : Writes(c, m, j) /\ NameOf(c, j) = name
    BY <1>5
  <2>2. j \in DOMAIN Wire[c] /\ i \in DOMAIN Wire[c]
    OBVIOUS
  <2>3. i # j
    BY <2>1
  <2>4. ~Writes(c, m, i)
    BY <1>1, <2>1, <2>2, <2>3, OneWriter
  <2>5. ~InMember(c, Wire[c][i])
    BY <2>4 DEF Writes
  <2>6. name = "kind"
    BY <1>1, <2>5 DEF NameOf, MemberName
  <2>7. ~InMember(c, Wire[c][j])
    <3> SUFFICES ASSUME InMember(c, Wire[c][j]) PROVE FALSE
      OBVIOUS
    <3>1. Wire[c][j].member = "kind"
      BY <2>1, <2>6 DEF NameOf, MemberName
    <3>2. MemberCoding(Cells[c]["kind"], Wire[c][j].coding)
      BY <2>2, <3>1, FieldOfMember
    <3>3. Cells[c]["kind"].cell = "choice"
      BY <2>2, <2>5, FieldOfMember
    <3> QED
      BY <3>2, <3>3 DEF MemberCoding
  <2>8. Z[name].case = Wire[c][j].member
    BY <2>1, <2>2, <2>7 DEF MembersRelayed, RelaysMember
  <2>9. Wire[c][j].member # Wire[c][i].member
    BY <2>2, <2>3, Tables DEF TableOf
  <2>10. r["kind"].case # Wire[c][i].member
    BY <1>3, <1>4, <1>5, <2>6, <2>8, <2>9
  <2> QED
    BY <2>5, <2>10 DEF Silent
<1>6. CASE ~ \E j \in 1 .. k : Writes(c, m, j) /\ NameOf(c, j) = name
  <2>1. New(c)[name] = Default(Cells[c][name])
    BY <1>2, NewMembers
  <2>2. r[name] = Default(Cells[c][name])
    BY <1>3, <1>4, <1>6, <2>1
  <2> QED
    BY <1>1, <2>2 DEF Silent
<1> QED
  BY <1>5, <1>6

LEMMA FieldsRelayed ==
  ASSUME NEW U, NEW d \in Nat, NEW c \in Classes, NEW m \in Whole(d + 1, c),
         NEW n \in Nat, DOMAIN Wire[c] = 1 .. n, NEW k \in 0 .. n,
         NEW Z, MembersRelayed(U, d, c, m, Z),
         NEW r, SameMembers(c, r, After(c, m, New(c), Z, k)), NEW i \in 1 .. n
  PROVE  FieldsOf(c, r, i) = IF i <= k THEN FieldsOf(c, m, i) ELSE <<>>
<1>1. CASE i <= k /\ Writes(c, m, i)
  <2>1. PICK name, X : name = NameOf(c, i) /\ X = After(c, m, New(c), Z, k)
    OBVIOUS
  <2>2. name \in DOMAIN Cells[c] /\ name \in Members(c)
    BY <2>1, NameIsMember DEF Members
  <2>3. r[name] = X[name]
    BY <2>1, <2>2 DEF SameMembers
  <2>4. X[name] = IF \E j \in 1 .. k : Writes(c, m, j) /\ NameOf(c, j) = name THEN Z[name] ELSE New(c)[name]
    BY <2>1, <2>2 DEF After
  <2>5. i \in 1 .. k
    BY <1>1
  <2>6. r[name] = Z[name]
    BY <1>1, <2>1, <2>3, <2>4, <2>5
  <2>7. RelaysMember(U, d, c, m, i, Z[name])
    BY <1>1, <2>1 DEF MembersRelayed
  <2>8. FieldsOf(c, r, i) = FieldsOf(c, m, i)
    BY <2>1, <2>6, <2>7 DEF RelaysMember
  <2> QED
    BY <1>1, <2>8
<1>2. CASE i > k \/ ~Writes(c, m, i)
  <2>1. Silent(c, r, i)
    BY <1>2, UnknownIsSilent
  <2>2. FieldsOf(c, r, i) = <<>>
    BY <2>1, NothingWritten
  <2>3. ~Writes(c, m, i) => FieldsOf(c, m, i) = <<>>
    <3> SUFFICES ASSUME ~Writes(c, m, i) PROVE FieldsOf(c, m, i) = <<>>
      OBVIOUS
    <3>1. Silent(c, m, i)
      BY DEF Writes, Silent
    <3> QED
      BY <3>1, NothingWritten
  <2>4. CASE i > k
    BY <2>2, <2>4
  <2>5. CASE ~Writes(c, m, i)
    BY <2>2, <2>3, <2>5
  <2> QED
    BY <1>2, <2>4, <2>5
<1> QED
  BY <1>1, <1>2

LEMMA KnownFieldsRelayed ==
  ASSUME NEW S, NEW c \in Classes, NEW m, NEW n \in Nat, n = Len(Wire[c]), NEW k \in 0 .. n,
         FieldsIn(S, c, m, n), NEW F, Written(S, c, m, n, F),
         NEW r, \A i \in 1 .. n : FieldsOf(c, r, i) = IF i <= k THEN FieldsOf(c, m, i) ELSE <<>>
  PROVE  KnownFields(c, r) = F[k]
<1>1. FieldsIn(S, c, r, n)
  <2> SUFFICES ASSUME NEW i \in 1 .. n PROVE FieldsOf(c, r, i) \in Seq(S)
    BY DEF FieldsIn
  <2>1. FieldsOf(c, m, i) \in Seq(S) /\ <<>> \in Seq(S)
    BY EmptySeq DEF FieldsIn
  <2>2. FieldsOf(c, r, i) = IF i <= k THEN FieldsOf(c, m, i) ELSE <<>>
    OBVIOUS
  <2> QED
    BY <2>1, <2>2
<1>2. PICK G : Written(S, c, r, n, G)
  BY <1>1, KnownFieldsLoop
<1>3. PICK T : T = {i \in 0 .. n : G[i] = F[IF i <= k THEN i ELSE k]}
  OBVIOUS
<1>4. 0 \in T
  <2>1. G[0] = <<>> /\ F[0] = <<>> /\ 0 \in 0 .. n /\ 0 <= k
    BY <1>2 DEF Written
  <2> QED
    BY <1>3, <2>1
<1>5. ASSUME NEW i \in 1 .. n, i - 1 \in T PROVE i \in T
  <2>1. PICK fields : fields = FieldsOf(c, m, i)
    OBVIOUS
  <2>2. FieldsOf(c, r, i) = IF i <= k THEN fields ELSE <<>>
    BY <2>1
  <2>3. G[i] = G[i - 1] \o FieldsOf(c, r, i) /\ F[i] = F[i - 1] \o fields
    BY <1>2, <2>1 DEF Written
  <2>4. i \in 0 .. n /\ i - 1 \in 0 .. n
    OBVIOUS
  <2>5. G[i - 1] = F[IF i - 1 <= k THEN i - 1 ELSE k]
    BY <1>3, <1>5
  <2>6. G[i - 1] \in Seq(S)
    BY <1>2, <2>4 DEF Written
  <2>7. CASE i <= k
    <3>1. G[i - 1] = F[i - 1]
      BY <2>5, <2>7
    <3>2. G[i] = F[i]
      BY <2>2, <2>3, <2>7, <3>1
    <3> QED
      BY <1>3, <2>4, <2>7, <3>2
  <2>8. CASE ~(i <= k)
    <3>1. G[i - 1] = F[k]
      <4>1. CASE i - 1 <= k
        <5>1. i - 1 = k
          BY <2>8, <4>1
        <5> QED
          BY <2>5, <5>1
      <4>2. CASE ~(i - 1 <= k)
        BY <2>5, <4>2
      <4> QED
        BY <4>1, <4>2
    <3>2. G[i] = G[i - 1] \o <<>>
      BY <2>2, <2>3, <2>8
    <3>3. G[i] = F[k]
      BY <2>6, <3>1, <3>2, ConcatEmptySeq
    <3> QED
      BY <1>3, <2>4, <2>8, <3>3
  <2> QED
    BY <2>7, <2>8
<1>6. n \in T
  <2>1. \A i \in 1 .. n : i - 1 \in T => i \in T
    BY <1>5
  <2>2. \A i \in 0 .. n : i \in T
    BY <1>4, <2>1, InductionTo
  <2> QED
    BY <2>2
<1>7. G[n] = F[k]
  <2>1. G[n] = F[IF n <= k THEN n ELSE k]
    BY <1>3, <1>6
  <2>2. n <= k => n = k
    OBVIOUS
  <2> QED
    BY <2>1, <2>2
<1> QED
  BY <1>2, <1>7 DEF Written

\* What the relay reads is an object, and the fields that it has not understood come last.
LEMMA RelayedIsObject ==
  ASSUME NEW U, NEW d \in Nat, NEW c \in Classes, NEW m \in Whole(d + 1, c),
         NEW n \in Nat, DOMAIN Wire[c] = 1 .. n, NEW k \in 0 .. n, NEW Z, MembersRelayed(U, d, c, m, Z),
         NEW X, X = After(c, m, New(c), Z, k), NEW tail \in Seq(U),
         NEW r, r = With(X, "unknown_fields", tail)
  PROVE  /\ r \in Objects(U, d + 1, c) /\ SameMembers(c, r, X) /\ r.unknown_fields = tail
         /\ IsFunction(X) /\ "unknown_fields" \in DOMAIN X /\ X["unknown_fields"] = <<>>
<1>1. X = After(c, m, New(c), Z, k)
  OBVIOUS
<1>7. r = With(X, "unknown_fields", tail)
  OBVIOUS
<1>2. IsFunction(X) /\ DOMAIN X = Members(c)
  BY <1>1 DEF After, IsFunction
<1>3. \A f \in Members(c) :
        X[f] = IF \E i \in 1 .. k : Writes(c, m, i) /\ NameOf(c, i) = f THEN Z[f] ELSE New(c)[f]
  BY <1>1 DEF After
<1>4. "unknown_fields" \in Members(c) /\ \A f \in DOMAIN Cells[c] : f \in Members(c) /\ f # "unknown_fields"
  BY NewMembers DEF Members
<1>5. X["unknown_fields"] = <<>>
  <2>1. ASSUME NEW i \in 1 .. k PROVE NameOf(c, i) # "unknown_fields"
    <3>1. i \in DOMAIN Wire[c]
      OBVIOUS
    <3> QED
      BY <3>1, NameIsMember
  <2>2. X["unknown_fields"] = New(c)["unknown_fields"]
    BY <1>3, <1>4, <2>1
  <2> QED
    BY <2>2, NewMembers
<1>6. ASSUME NEW f \in DOMAIN Cells[c]
      PROVE  X[f] \in Contents(Nested(U)[d], Cells[c][f])
  <2>1. f \in Members(c)
    BY <1>4
  <2>2. CASE \E i \in 1 .. k : Writes(c, m, i) /\ NameOf(c, i) = f
    <3>1. PICK i \in 1 .. k : Writes(c, m, i) /\ NameOf(c, i) = f
      BY <2>2
    <3>2. i \in DOMAIN Wire[c]
      OBVIOUS
    <3>3. RelaysMember(U, d, c, m, i, Z[f])
      BY <3>1, <3>2 DEF MembersRelayed
    <3>4. Z[f] \in Contents(Nested(U)[d], Cells[c][f])
      BY <3>1, <3>3 DEF RelaysMember
    <3>5. X[f] = Z[f]
      BY <1>3, <2>1, <2>2
    <3> QED
      BY <3>4, <3>5
  <2>3. CASE ~ \E i \in 1 .. k : Writes(c, m, i) /\ NameOf(c, i) = f
    <3>1. X[f] = New(c)[f]
      BY <1>3, <2>1, <2>3
    <3>2. New(c)[f] = Default(Cells[c][f])
      BY NewMembers
    <3>3. Default(Cells[c][f]) \in Contents(Nested(U)[d], Cells[c][f])
      BY CellsAreSound, DefaultFits
    <3> QED
      BY <3>1, <3>2, <3>3
  <2> QED
    BY <2>2, <2>3
<1>8. r = [f \in Members(c) |-> r[f]] /\ r["unknown_fields"] = tail
  BY <1>2, <1>4, <1>7 DEF With, IsFunction
<1>9. ASSUME NEW f \in DOMAIN Cells[c] PROVE r[f] = X[f]
  <2>1. f \in DOMAIN X /\ f # "unknown_fields"
    BY <1>2, <1>4
  <2> QED
    BY <1>2, <1>7, <2>1 DEF With, IsFunction
<1>10. IsObject(U, d, c, r)
  BY <1>6, <1>8, <1>9 DEF IsObject
<1>11. r \in Objects(U, d + 1, c)
  BY <1>10, ObjectsByNesting
<1>12. r.unknown_fields = tail
  BY <1>8
<1> QED
  BY <1>2, <1>4, <1>5, <1>9, <1>11, <1>12 DEF SameMembers

\* The members that the relay knows are read as they were relayed.
LEMMA MembersRelayedGive ==
  ASSUME NEW U, NEW d \in Nat, NEW c \in Classes, NEW m \in Whole(d + 1, c),
         NEW n \in Nat, n = Len(Wire[c]), DOMAIN Wire[c] = 1 .. n, NEW k \in 0 .. n, k = n => n <= 1,
         NEW Z, MembersRelayed(U, d, c, m, Z)
  PROVE  MembersGive(c, m, New(c), Z, k, Later)
<1> SUFFICES ASSUME NEW i \in 1 .. k
             PROVE  /\ <<c, i>> \notin Later
                    /\ Writes(c, m, i) => Gives(c, m, i, Later, New(c)[NameOf(c, i)], Z[NameOf(c, i)])
  BY DEF MembersGive
<1>1. i \in DOMAIN Wire[c] /\ i \in Nat
  OBVIOUS
<1>2. <<c, i>> \notin Later
  BY LaterIs
<1>3. ASSUME Writes(c, m, i)
      PROVE  Gives(c, m, i, Later, New(c)[NameOf(c, i)], Z[NameOf(c, i)])
  <2>1. PICK name : name = NameOf(c, i)
    OBVIOUS
  <2>2. name \in DOMAIN Cells[c]
    BY <1>1, <2>1, NameIsMember
  <2>3. New(c)[name] = Default(Cells[c][name])
    BY <2>2, NewMembers
  <2>4. RelaysMember(U, d, c, m, i, Z[name])
    BY <1>1, <1>3, <2>1 DEF MembersRelayed
  <2> QED
    BY <2>1, <2>3, <2>4 DEF RelaysMember
<1> QED
  BY <1>2, <1>3

LEMMA WholeRelayed ==
  ASSUME InnerMergeFrom, InnerSerialize, InnerParse, InnerReadable,
         NEW U, Covers(U), NEW d \in Nat, RelaysAll(U, d)
  PROVE  RelaysAll(U, d + 1)
<1> SUFFICES ASSUME NEW c \in Classes, NEW m \in Whole(d + 1, c)
             PROVE  \E r : RelaysAs(U, d + 1, c, m, r)
  BY DEF RelaysAll
<1>1. PICK n \in Nat : n = Len(Wire[c]) /\ DOMAIN Wire[c] = 1 .. n
  BY Tables DEF TableOf
<1>2. PICK k \in 0 .. n : k = IF n > 1 THEN n - 1 ELSE n
  <2>1. CASE n > 1
    <3>1. n - 1 \in 0 .. n
      BY <2>1
    <3> QED
      BY <2>1, <3>1
  <2>2. CASE ~(n > 1)
    <3>1. n \in 0 .. n
      OBVIOUS
    <3> QED
      BY <2>2, <3>1
  <2> QED
    BY <2>1, <2>2
<1>3. PICK S : FieldsIn(S, c, m, n)
  BY <1>1, KnownFieldsSeq DEF Whole
<1>4. PICK F : Written(S, c, m, n, F)
  BY <1>1, <1>3, KnownFieldsLoop
<1>5. F[k] \in Seq(S) /\ F[n] \in Seq(S) /\ KnownFields(c, m) = F[n]
  BY <1>4 DEF Written
<1>6. PICK Z : MembersRelayed(U, d, c, m, Z)
  BY SomeRelayed
<1>7. PICK tail : tail = IF n > 1 THEN FieldsOf(c, m, n) ELSE <<>>
  OBVIOUS
<1>8. tail \in Seq(U) /\ tail \in Seq(S) /\ F[n] = F[k] \o tail
  <2>1. CASE n > 1
    <3>1. n \in 1 .. n /\ n \in DOMAIN Wire[c] /\ tail = FieldsOf(c, m, n) /\ k = n - 1
      BY <1>1, <1>2, <1>7, <2>1
    <3>2. F[n] = F[n - 1] \o FieldsOf(c, m, n) /\ FieldsOf(c, m, n) \in Seq(S)
      BY <1>3, <1>4, <3>1 DEF Written, FieldsIn
    <3>3. tail \in Seq(Range(tail))
      <4>1. PICK V : V = FieldValues(Nested({})[d], Wire[c][n].coding)
        OBVIOUS
      <4>2. Held(c, m, Wire[c][n]) \in Seq(V)
        BY <3>1, <4>1, HeldValues DEF Whole
      <4> QED
        BY <3>1, <4>2, FieldsOfSeq
    <3>4. Range(tail) \subseteq U
      BY <3>1 DEF Covers
    <3>5. tail \in Seq(U)
      BY <3>3, <3>4
    <3> QED
      BY <3>1, <3>2, <3>5
  <2>2. CASE ~(n > 1)
    <3>1. tail = <<>> /\ k = n
      BY <1>2, <1>7, <2>2
    <3>2. <<>> \in Seq(U) /\ <<>> \in Seq(S) /\ F[n] \o <<>> = F[n]
      BY <1>5, EmptySeq, ConcatEmptySeq
    <3> QED
      BY <3>1, <3>2
  <2> QED
    BY <2>1, <2>2
<1>9. PICK X, r : X = After(c, m, New(c), Z, k) /\ r = With(X, "unknown_fields", tail)
  OBVIOUS
<1>10. /\ r \in Objects(U, d + 1, c) /\ SameMembers(c, r, X) /\ r.unknown_fields = tail
       /\ IsFunction(X) /\ "unknown_fields" \in DOMAIN X /\ X["unknown_fields"] = <<>>
  <2>1. n \in Nat /\ DOMAIN Wire[c] = 1 .. n /\ k \in 0 .. n /\ tail \in Seq(U)
    BY <1>1, <1>8
  <2> QED
    BY <1>6, <1>9, <2>1, RelayedIsObject
<1>11. Serialize(c, m) = F[k] \o tail
  <2>1. m.unknown_fields = <<>>
    BY WholeParts
  <2>2. F[n] \o <<>> = F[n]
    BY <1>5, ConcatEmptySeq
  <2> QED
    BY <1>5, <1>8, <2>1, <2>2 DEF Serialize
<1>12. Serialize(c, r) = F[k] \o tail
  <2>1. \A i \in 1 .. n : FieldsOf(c, r, i) = IF i <= k THEN FieldsOf(c, m, i) ELSE <<>>
    BY <1>1, <1>6, <1>9, <1>10, FieldsRelayed
  <2>2. KnownFields(c, r) = F[k]
    BY <1>1, <1>3, <1>4, <2>1, KnownFieldsRelayed
  <2> QED
    BY <1>10, <2>2 DEF Serialize
<1>13. ASSUME NEW depth \in Nat, Readable(c, m, depth)
       PROVE  Parse(c, New(c), Serialize(c, m), depth, Later) = <<r>>
  <2>1. ReadableTo(c, m, n, depth)
    BY <1>1, <1>13, ReadableMembers
  <2>2. ReadableTo(c, m, k, depth)
    <3>1. \A i \in 1 .. k : i \in 1 .. n
      OBVIOUS
    <3> QED
      BY <2>1, <3>1 DEF ReadableTo
  <2>3. Parse(c, New(c), F[k], depth, Later) = <<X>>
    <3>1. PICK t, hidden : t = New(c) /\ hidden = Later
      OBVIOUS
    <3>2. MembersGive(c, m, t, Z, k, hidden)
      <4>1. k = n => n <= 1
        BY <1>2
      <4> QED
        BY <1>1, <1>6, <3>1, <4>1, MembersRelayedGive
    <3>3. IsFunction(t) /\ DOMAIN t = Members(c)
      BY <3>1, NewMembers DEF IsFunction
    <3>4. n = Len(Wire[c]) /\ k \in 0 .. n /\ (hidden = {} \/ ReadableTo(c, m, k, depth))
      BY <1>1, <2>2
    <3>5. Parse(c, t, F[k], depth, hidden) =
            IF ReadableTo(c, m, k, depth) THEN <<After(c, m, t, Z, k)>> ELSE <<>>
      BY <1>3, <1>4, <3>2, <3>3, <3>4, MembersRead
    <3> QED
      BY <1>9, <2>2, <3>1, <3>5
  <2>4. Parse(c, X, tail, depth, Later) = <<r>>
    <3>1. CASE n > 1
      <4>1. n \in DOMAIN Wire[c] /\ tail = FieldsOf(c, m, n)
        BY <1>1, <1>7, <3>1
      <4>2. <<c, n>> \in Later
        BY <1>1, <3>1, LaterIs
      <4>3. PICK V : V = FieldValues(Nested({})[d], Wire[c][n].coding)
        OBVIOUS
      <4>4. SoundCoding(Wire[c][n].coding) /\ Held(c, m, Wire[c][n]) \in Seq(V)
        BY <4>1, <4>3, HeldValues DEF Whole
      <4>5. Parse(c, X, FieldsOf(c, m, n), depth, Later) = <<With(X, "unknown_fields", FieldsOf(c, m, n))>>
        BY <1>10, <4>1, <4>2, <4>4, HiddenAreKept
      <4> QED
        BY <1>9, <4>1, <4>5
    <3>2. CASE ~(n > 1)
      <4>1. tail = X["unknown_fields"] /\ tail = <<>>
        BY <1>7, <1>10, <3>2
      <4>2. r = X
        BY <1>9, <1>10, <4>1, WithWith
      <4> QED
        BY <4>1, <4>2, ParseNone
    <3> QED
      BY <3>1, <3>2
  <2>5. ParsesInTurn(c, F[k], tail, depth, Later)
    BY <1>5, <1>8, ParseConcat
  <2>6. Parse(c, New(c), F[k] \o tail, depth, Later) = <<r>>
    BY <2>3, <2>4, <2>5 DEF ParsesInTurn
  <2> QED
    BY <1>11, <2>6
<1> QED
  BY <1>10, <1>11, <1>12, <1>13 DEF RelaysAs

LEMMA ObjectsRelayed ==
  ASSUME InnerMergeFrom, InnerSerialize, InnerParse, InnerReadable, NEW d \in Nat, NEW c \in Classes,
         NEW m \in Whole(d, c)
  PROVE  \E U, r : RelaysAs(U, d, c, m, r)
<1>1. PICK U : Covers(U)
  BY SomeCovers
<1>2. PICK T : T = {k \in Nat : RelaysAll(U, k)}
  OBVIOUS
<1>3. 0 \in T
  <2>1. \A x \in Classes : Whole(0, x) = {}
    BY ObjectsByNesting DEF Whole
  <2>2. RelaysAll(U, 0)
    BY <2>1 DEF RelaysAll
  <2> QED
    BY <1>2, <2>2
<1>4. \A k \in Nat : k \in T => k + 1 \in T
  BY <1>1, <1>2, WholeRelayed
<1>5. RelaysAll(U, d)
  BY <1>2, <1>3, <1>4, Induction
<1> QED
  BY <1>5 DEF RelaysAll

------------------------------------------------------------------------------
(* An application's two objects. *)

\* Both are whole objects of the class.
ObjectsAreWhole ==
  /\ class \in ClassesInUse
  /\ \E d \in Nat : a \in Whole(d, class) /\ b \in Whole(d, class)

\* Whatever an application does with two objects, they are objects of their class
\* of some nesting, and have no unknown fields.
THEOREM ObjectsTypeCorrect ==
  ASSUME InnerMergeFrom, InnerAccessed
  PROVE  Spec => []ObjectsAreWhole
<1>1. Init => ObjectsAreWhole
  <2> SUFFICES ASSUME Init PROVE ObjectsAreWhole
    OBVIOUS
  <2>1. class \in Classes /\ a = New(class) /\ b = New(class)
    BY ObjectsAssumption DEF Init
  <2>2. New(class) \in Whole(1, class)
    BY <2>1, NewIsObject DEF Whole
  <2> QED
    BY <2>1, <2>2 DEF Init, ObjectsAreWhole
<1>2. ObjectsAreWhole /\ [Next]_vars => ObjectsAreWhole'
  <2> SUFFICES ASSUME ObjectsAreWhole, [Next]_vars PROVE ObjectsAreWhole'
    OBVIOUS
  <2>1. class \in Classes
    BY ObjectsAssumption DEF ObjectsAreWhole
  <2>2. PICK d \in Nat : a \in Whole(d, class) /\ b \in Whole(d, class)
    BY DEF ObjectsAreWhole
  <2>3. d # 0
    BY <2>1, <2>2, ObjectsByNesting DEF Whole
  <2>4. New(class) \in Whole(d, class)
    BY <2>1, <2>3, NewIsObject DEF Whole
  <2>5. a \in Whole(d + 1, class) /\ b \in Whole(d + 1, class) /\ d + 1 \in Nat
    BY <2>1, <2>2, ObjectsGrow DEF Whole
  <2>6. CASE Access
    <3>1. a' \in Whole(d + 1, class)
      BY <2>1, <2>2, <2>6, AccessedFits DEF Access
    <3> QED
      BY <2>5, <2>6, <3>1 DEF Access, Call, ObjectsAreWhole
  <2>7. CASE Clear
    BY <2>2, <2>4, <2>7 DEF Clear, Call, ObjectsAreWhole
  <2>8. CASE Copy
    <3>1. b' = MergeFrom(class, New(class), a)
      BY <2>8 DEF Copy, CopyFrom
    <3>2. b' \in Whole(d, class)
      BY <2>1, <2>2, <2>4, <3>1, MergeKeepsWhole
    <3> QED
      BY <2>2, <2>8, <3>2 DEF Copy, Call, ObjectsAreWhole
  <2>9. CASE Merge
    <3>1. b' \in Whole(d, class)
      BY <2>1, <2>2, <2>9, MergeKeepsWhole DEF Merge
    <3> QED
      BY <2>2, <2>9, <3>1 DEF Merge, Call, ObjectsAreWhole
  <2>10. CASE Swap
    BY <2>2, <2>10 DEF Swap, Call, ObjectsAreWhole
  <2>11. CASE UNCHANGED vars
    BY <2>2, <2>11 DEF vars, ObjectsAreWhole
  <2> QED
    BY <2>6, <2>7, <2>8, <2>9, <2>10, <2>11 DEF Next
<1> QED
  BY <1>1, <1>2, PTL DEF Spec

\* CopyFrom makes an equal object of any object, whatever was there before.
THEOREM CopyIsEqualHolds ==
  ASSUME InnerMergeFrom, InnerAccessed
  PROVE  Spec => CopyIsEqual
<1>1. ObjectsAreWhole /\ [Next]_vars => [Copy => b' = a]_vars
  <2> SUFFICES ASSUME ObjectsAreWhole, Copy PROVE b' = a
    OBVIOUS
  <2>1. class \in Classes
    BY ObjectsAssumption DEF ObjectsAreWhole
  <2>2. PICK d \in Nat : a \in Whole(d, class)
    BY DEF ObjectsAreWhole
  <2> QED
    BY <2>1, <2>2, MergeIntoNew DEF Copy, CopyFrom
<1> QED
  BY <1>1, ObjectsTypeCorrect, PTL DEF Spec, CopyIsEqual

\* The size that a sender asks for is the size of what is written, for any object.
THEOREM SizeIsExactHolds ==
  ASSUME InnerMergeFrom, InnerAccessed, InnerByteSizeLong, InnerSerialize, InnerSizeOf
  PROVE  Spec => []SizeIsExact
<1>1. ObjectsAreWhole => SizeIsExact
  <2> SUFFICES ASSUME ObjectsAreWhole PROVE SizeIsExact
    OBVIOUS
  <2>1. class \in Classes
    BY ObjectsAssumption DEF ObjectsAreWhole
  <2>2. PICK d \in Nat : a \in Whole(d, class)
    BY DEF ObjectsAreWhole
  <2> QED
    BY <2>1, <2>2, SizesAgree DEF SizeIsExact
<1> QED
  BY <1>1, ObjectsTypeCorrect, PTL

\* A reader of the same common.proto gets back the object that was written, or nothing
\* if it cannot be read, whatever the object.
THEOREM ReadsBackHolds ==
  ASSUME InnerMergeFrom, InnerAccessed, InnerSerialize, InnerParse, InnerReadable
  PROVE  Spec => []ReadsBack
<1>1. ObjectsAreWhole => ReadsBack
  <2> SUFFICES ASSUME ObjectsAreWhole PROVE ReadsBack
    OBVIOUS
  <2>1. class \in Classes /\ RecursionLimit \in Nat
    BY ObjectsAssumption, CodecAssumption DEF ObjectsAreWhole
  <2>2. PICK d \in Nat : a \in Whole(d, class)
    BY DEF ObjectsAreWhole
  <2>3. New(class) \in Whole(d, class)
    BY <2>1, <2>2, NewIsAmong
  <2>4. PICK c, m, depth : c = class /\ m = a /\ depth = RecursionLimit
    OBVIOUS
  <2>5. Parse(c, New(c), Serialize(c, m), depth, {}) = IF Readable(c, m, depth) THEN <<MergeFrom(c, New(c), m)>> ELSE <<>>
    BY <2>1, <2>2, <2>3, <2>4, ParseMerges
  <2>6. MergeFrom(c, New(c), m) = m
    BY <2>1, <2>2, <2>4, MergeIntoNew
  <2> QED
    BY <2>4, <2>5, <2>6 DEF ReadsBack, ParseFrom
<1> QED
  BY <1>1, ObjectsTypeCorrect, PTL

\* Two objects written one after the other are read as what MergeFrom makes of them,
\* whatever the objects, if both can be read.
THEOREM ConcatenationMergesHolds ==
  ASSUME InnerMergeFrom, InnerAccessed, InnerSerialize, InnerParse, InnerReadable
  PROVE  Spec => []ConcatenationMerges
<1>1. ObjectsAreWhole => ConcatenationMerges
  <2> SUFFICES ASSUME ObjectsAreWhole, Readable(class, a, RecursionLimit), Readable(class, b, RecursionLimit)
               PROVE  ParseFrom(class, Serialize(class, b) \o Serialize(class, a)) = <<MergeFrom(class, b, a)>>
    BY DEF ConcatenationMerges
  <2>1. class \in Classes /\ RecursionLimit \in Nat
    BY ObjectsAssumption, CodecAssumption DEF ObjectsAreWhole
  <2>2. PICK d \in Nat : a \in Whole(d, class) /\ b \in Whole(d, class)
    BY DEF ObjectsAreWhole
  <2>3. New(class) \in Whole(d, class)
    BY <2>1, <2>2, NewIsAmong
  <2>4. PICK c, m, t, depth : c = class /\ m = a /\ t = b /\ depth = RecursionLimit
    OBVIOUS
  <2>5. PICK first, second : first = Serialize(c, t) /\ second = Serialize(c, m)
    OBVIOUS
  <2>6. PICK S : first \in Seq(S) /\ second \in Seq(S)
    <3>1. PICK A : first \in Seq(A)
      BY <2>1, <2>2, <2>4, <2>5, SerializeSeq DEF Whole
    <3>2. PICK B : second \in Seq(B)
      BY <2>1, <2>2, <2>4, <2>5, SerializeSeq DEF Whole
    <3>3. first \in Seq(A \cup B) /\ second \in Seq(A \cup B)
      BY <3>1, <3>2
    <3> QED
      BY <3>3
  <2>7. Parse(c, New(c), first, depth, {}) = <<t>>
    <3>1. Parse(c, New(c), Serialize(c, t), depth, {}) =
            IF Readable(c, t, depth) THEN <<MergeFrom(c, New(c), t)>> ELSE <<>>
      BY <2>1, <2>2, <2>3, <2>4, ParseMerges
    <3>2. MergeFrom(c, New(c), t) = t
      BY <2>1, <2>2, <2>4, MergeIntoNew
    <3> QED
      BY <2>4, <2>5, <3>1, <3>2
  <2>8. Parse(c, t, second, depth, {}) = <<MergeFrom(c, t, m)>>
    <3>1. Parse(c, t, Serialize(c, m), depth, {}) =
            IF Readable(c, m, depth) THEN <<MergeFrom(c, t, m)>> ELSE <<>>
      BY <2>1, <2>2, <2>4, ParseMerges
    <3> QED
      BY <2>4, <2>5, <3>1
  <2>9. ParsesInTurn(c, first, second, depth, {})
    BY <2>1, <2>4, <2>6, ParseConcat
  <2>10. Parse(c, New(c), first \o second, depth, {}) = <<MergeFrom(c, t, m)>>
    BY <2>7, <2>8, <2>9 DEF ParsesInTurn
  <2> QED
    BY <2>4, <2>5, <2>10 DEF ParseFrom
<1> QED
  BY <1>1, ObjectsTypeCorrect, PTL

\* A consumer that reads what a router has sent gets the batch that MessageRouting.tla
\* says it is, whatever the batch and its kind; or nothing, if the batch cannot be read
\* or is larger than an int.
THEOREM PayloadIsRoutedHolds ==
  ASSUME InnerMergeFrom, InnerAccessed, InnerByteSizeLong, InnerSerialize, InnerSizeOf, InnerParse,
         InnerReadable
  PROVE  Spec => []PayloadIsRouted
<1>1. ObjectsAreWhole => PayloadIsRouted
  <2> SUFFICES ASSUME ObjectsAreWhole, is_batch PROVE PayloadIsRouted
    BY DEF PayloadIsRouted
  <2>1. RecursionLimit \in Nat /\ IntMax \in Nat
    BY CodecAssumption, PayloadsAssumption
  <2>2. PICK d \in Nat : a \in Whole(d, class)
    BY DEF ObjectsAreWhole
  <2>3. PICK c, m, routed, payload, depth :
          /\ c = SentClass /\ m = Sent(a) /\ depth = RecursionLimit
          /\ routed = Routing!value_to_bytes(kind_of_batch, Elements(a)) /\ payload = value_to_bytes(a)
    OBVIOUS
  <2>4. c \in Classes /\ ReadElements(m) = routed.body /\ c = routed.type
    BY <2>2, <2>3, SentIsWhole
  <2>5. PICK n \in Nat : m \in Whole(n, c)
    BY <2>2, <2>3, SentIsWhole
  <2>6. PICK fields : fields = Serialize(c, m)
    OBVIOUS
  <2>7. ByteSizeLong(c, m) \in Nat /\ ByteSizeLong(c, m) = SizeOf(fields)
    BY <2>4, <2>5, <2>6, SizesAgree
  <2>8. payload = [size |-> SizeOf(fields), fields |-> IF SizeOf(fields) <= IntMax THEN fields ELSE <<>>]
    BY <2>3, <2>6, <2>7 DEF value_to_bytes
  <2>9. ParseFrom(c, fields) = IF Readable(c, m, depth) THEN <<m>> ELSE <<>>
    <3>1. New(c) \in Whole(n, c)
      BY <2>4, <2>5, NewIsAmong
    <3>2. Parse(c, New(c), fields, depth, {}) =
            IF Readable(c, m, depth) THEN <<MergeFrom(c, New(c), m)>> ELSE <<>>
      BY <2>1, <2>3, <2>4, <2>5, <2>6, <3>1, ParseMerges
    <3>3. MergeFrom(c, New(c), m) = m
      BY <2>4, <2>5, MergeIntoNew
    <3> QED
      BY <2>3, <3>2, <3>3 DEF ParseFrom
  <2>10. CASE payload.size <= IntMax
    <3>1. payload.fields = fields /\ payload.size = SizeOf(fields)
      BY <2>8, <2>10
    <3>2. consume(c, payload) = IF Readable(c, m, depth) THEN <<m>> ELSE <<>>
      BY <2>9, <3>1 DEF consume
    <3>3. consume(routed.type, payload) = IF Readable(c, m, depth) THEN <<m>> ELSE <<>>
      BY <2>4, <3>2
    <3>4. Readable(c, m, depth) => consume(routed.type, payload) # <<>> /\ ReadElements(consume(routed.type, payload)[1]) = routed.body
      BY <2>4, <3>3
    <3>5. ~Readable(c, m, depth) => consume(routed.type, payload) = <<>>
      BY <3>3
    <3> QED
      BY <2>3, <2>10, <3>4, <3>5 DEF PayloadIsRouted
  <2>11. CASE ~(payload.size <= IntMax)
    <3>1. payload.fields = <<>> /\ payload.size = SizeOf(fields) /\ SizeOf(fields) # 0
      BY <2>1, <2>7, <2>8, <2>11
    <3>2. consume(routed.type, payload) = <<>>
      BY <3>1, SizeOfNone DEF consume
    <3> QED
      BY <2>3, <2>11, <3>2 DEF PayloadIsRouted
  <2> QED
    BY <2>10, <2>11
<1> QED
  BY <1>1, ObjectsTypeCorrect, PTL

\* A service with an older common.proto passes on whatever it does not understand: a
\* reader behind it gets the object whole, whatever the object, if it can be read.
THEOREM RelayKeepsFieldsHolds ==
  ASSUME InnerMergeFrom, InnerAccessed, InnerSerialize, InnerParse, InnerReadable
  PROVE  Spec => []RelayKeepsFields
<1>1. ObjectsAreWhole => RelayKeepsFields
  <2> SUFFICES ASSUME ObjectsAreWhole, Readable(class, a, RecursionLimit)
               PROVE  /\ Parse(class, New(class), Serialize(class, a), RecursionLimit, Later) # <<>>
                      /\ ParseFrom(class, Serialize(class,
                           Parse(class, New(class), Serialize(class, a), RecursionLimit, Later)[1])) = <<a>>
    BY DEF RelayKeepsFields
  <2>1. class \in Classes /\ RecursionLimit \in Nat
    BY ObjectsAssumption, CodecAssumption DEF ObjectsAreWhole
  <2>2. PICK d \in Nat : a \in Whole(d, class)
    BY DEF ObjectsAreWhole
  <2>3. PICK c, m, depth : c = class /\ m = a /\ depth = RecursionLimit
    OBVIOUS
  <2>4. PICK U, r : RelaysAs(U, d, c, m, r)
    BY <2>1, <2>2, <2>3, ObjectsRelayed
  <2>5. Parse(c, New(c), Serialize(c, m), depth, Later) = <<r>> /\ Serialize(c, r) = Serialize(c, m)
    BY <2>1, <2>3, <2>4 DEF RelaysAs
  <2>6. Parse(c, New(c), Serialize(c, m), depth, {}) = <<m>>
    <3>1. New(c) \in Whole(d, c)
      BY <2>1, <2>2, <2>3, NewIsAmong
    <3>2. Parse(c, New(c), Serialize(c, m), depth, {}) =
            IF Readable(c, m, depth) THEN <<MergeFrom(c, New(c), m)>> ELSE <<>>
      BY <2>1, <2>2, <2>3, <3>1, ParseMerges
    <3>3. MergeFrom(c, New(c), m) = m
      BY <2>1, <2>2, <2>3, MergeIntoNew
    <3> QED
      BY <2>3, <3>2, <3>3
  <2>7. ParseFrom(c, Serialize(c, r)) = <<m>>
    BY <2>3, <2>5, <2>6 DEF ParseFrom
  <2>8. <<r>> # <<>> /\ <<r>>[1] = r
    OBVIOUS
  <2> QED
    BY <2>3, <2>5, <2>7, <2>8
<1> QED
  BY <1>1, ObjectsTypeCorrect, PTL

==============================================================================
