---------------------------- MODULE SenderPayloads ----------------------------
(***************************************************************************)
(* What a router and its sender make of a batch, and what a consumer reads,*)
(* with the objects of ProtoCodec.tla in place of the sequences that       *)
(* MessageRouting.tla has for them.  An application builds a batch; at any *)
(* time it may be sent.                                                    *)
(***************************************************************************)
EXTENDS ProtoObjects

CONSTANT IntMax   \* the largest int

Routing == INSTANCE MessageRouting WITH Documents <- <<>>

BatchClass == [parsed |-> "MessageBatch", raw |-> "RawMessageBatch",
               group |-> "MessageGroupBatch", event |-> "EventBatch"]

ASSUME PayloadsAssumption == IntMax \in Nat

is_batch == \E kind \in Routing!Kinds : BatchClass[kind] = class
kind_of_batch == CHOOSE kind \in Routing!Kinds : BatchClass[kind] = class

\* find_by_filter with objects, for a queue without filters: a batch router adds
\* the messages one by one to a new batch, the event router copies the batch.
\* Either way the caller's object is not what is serialized.
routed_batch(batch) ==
  CASE kind_of_batch = "event" -> MergeFrom(class, New(class), batch)
    [] kind_of_batch = "group" -> [New(class) EXCEPT !.groups = batch.groups]
    [] OTHER                   -> [New(class) EXCEPT !.messages = batch.messages]

\* The raw sender copies each message into an any_msg, that into a group_msg, and
\* that into group_batch; any_msg and group_msg are made anew for each message.
\* (Mutant: one group_msg, made before the loop, in which the messages add up.)
any_msg(raw) ==
  [New("AnyMessage") EXCEPT !.kind =
     [case |-> "raw_message", value |-> CopyFrom("RawMessage", New("RawMessage"), raw)]]
group_msg(raws) ==
  [New("MessageGroup") EXCEPT !.messages = [i \in DOMAIN raws |-> any_msg(raws[i])]]

raw_groups_Accumulated(raws) == [i \in DOMAIN raws |-> group_msg(SubSeq(raws, 1, i))]
raw_groups(raws) == [i \in DOMAIN raws |-> group_msg(<<raws[i]>>)]

group_batch(batch) == [New("MessageGroupBatch") EXCEPT !.groups = raw_groups(batch.messages)]

SentClass == IF kind_of_batch = "raw" THEN "MessageGroupBatch" ELSE class
Sent(batch) ==
  IF kind_of_batch = "raw" THEN group_batch(routed_batch(batch)) ELSE routed_batch(batch)

\* The buffer has the size that ByteSizeLong counts, and is zero until it is
\* written.  SerializePartialToArray writes nothing into it if the size is not an
\* int, and that result is ignored.
value_to_bytes(batch) ==
  LET size == ByteSizeLong(SentClass, Sent(batch))
  IN [size |-> size,
      fields |-> IF size <= IntMax THEN Serialize(SentClass, Sent(batch)) ELSE <<>>]

\* A consumer reads all of the bytes or nothing: it takes neither the zeros behind
\* the fields nor fields that end before the buffer does.
consume(type, payload) ==
  IF payload.size = SizeOf(payload.fields) THEN ParseFrom(type, payload.fields) ELSE <<>>

------------------------------------------------------------------------------
\* A batch in the terms of MessageRouting.tla: its messages, its groups of
\* messages, or its events.
Groups(batch) ==
  [i \in DOMAIN batch.groups |->
     [j \in DOMAIN batch.groups[i].messages |-> batch.groups[i].messages[j].kind]]
Elements(batch) ==
  CASE kind_of_batch = "group" -> Groups(batch)
    [] kind_of_batch = "event" -> batch.events
    [] OTHER                   -> batch.messages
ReadElements(batch) ==
  IF kind_of_batch # "raw" THEN Elements(batch)
  ELSE LET groups == Groups(batch)
       IN [i \in DOMAIN groups |-> [j \in DOMAIN groups[i] |-> groups[i][j].value]]

\* A consumer that reads what was sent as the type that MessageRouting.tla gives it
\* gets the batch that MessageRouting.tla says it is: each message of a raw batch
\* in a group of its own, any other batch as it was.  If one text of one message
\* cannot be read, or the batch is too deep or larger than an int, it gets nothing,
\* though send returned.
PayloadIsRouted ==
  is_batch =>
  LET routed == Routing!value_to_bytes(kind_of_batch, Elements(a))
      payload == value_to_bytes(a)
      read == consume(routed.type, payload)
  IN IF payload.size <= IntMax /\ Readable(SentClass, Sent(a), RecursionLimit)
     THEN read # <<>> /\ ReadElements(read[1]) = routed.body
     ELSE read = <<>>
==============================================================================
