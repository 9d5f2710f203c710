---------------------------- MODULE MessageRouting ---------------------------
(***************************************************************************)
(* How a router chooses the queues of a batch and what it puts on the wire *)
(* for each: MessageRouterConfiguration, QueueConfiguration, find_by_filter*)
(* of the routers, and value_to_bytes of the senders.  No state: a router  *)
(* reads its configuration and never writes it.                            *)
(*                                                                         *)
(* Vectors of attributes are sets here, since the code only asks which     *)
(* attributes are present.  A message is a model value; a group of         *)
(* messages, the element of a group batch, is a sequence of them.          *)
(***************************************************************************)
EXTENDS Naturals, Sequences, FiniteSets

CONSTANT Documents   \* mq.json: alias -> the JSON object of that queue

Kinds == {"parsed", "raw", "group", "event"}

\* The four classes of routers: the attributes that each sends by, and whether it
\* looks at the messages of a batch one by one (AbstractRabbitBatchMessageRouter)
\* or sends a batch as a whole.  (Mutant: an attribute of its own for groups.)
RabbitParsedBatchRouter == [send_attributes |-> {"parsed", "publish"}, by_message |-> TRUE]
RabbitRawBatchRouter == [send_attributes |-> {"raw", "publish"}, by_message |-> TRUE]
RabbitMessageGroupBatchRouter_Own == [send_attributes |-> {"group", "publish"}, by_message |-> TRUE]
RabbitMessageGroupBatchRouter == [send_attributes |-> {"raw", "publish"}, by_message |-> TRUE]
EventBatchRouter == [send_attributes |-> {"event", "publish"}, by_message |-> FALSE]

RouterClass(kind) ==
  CASE kind = "parsed" -> RabbitParsedBatchRouter
    [] kind = "raw"    -> RabbitRawBatchRouter
    [] kind = "group"  -> RabbitMessageGroupBatchRouter
    [] kind = "event"  -> EventBatchRouter

\* Mutant: the parsed router's attributes are those of the raw router, as they
\* are in its REQUIRED_SUBSCRIBE_ATTRIBUTES.
required_send_attributes_Copied(kind) ==
  IF kind = "event" THEN {"event", "publish"} ELSE {"raw", "publish"}

required_send_attributes(kind) == RouterClass(kind).send_attributes

\* from_json reads four fields.  It looks at "filters" and drops them, and
\* nothing ever changes the two flags.
from_json(j) ==
  [queue |-> j.queue, routing_key |-> j.name, exchange |-> j.exchange,
   attributes |-> j.attributes, filters |-> {},
   isReadable |-> TRUE, isWritable |-> TRUE]

Aliases == DOMAIN Documents
queues == [a \in Aliases |-> from_json(Documents[a])]

contains_all_attributes(q, attrs) == attrs \subseteq q.attributes

find_queues_by_attr(attrs) ==
  {a \in Aliases : contains_all_attributes(queues[a], attrs)}

\* The aliases that take a message: those without filters, whatever it is.
filter(aliases, message) == {a \in aliases : queues[a].filters = {}}

\* The messages of a batch that an alias takes, added one after another.
messages_taken(a, aliases, batch) ==
  LET taken[n \in 0 .. Len(batch)] ==
        IF n = 0 THEN <<>>
        ELSE IF a \in filter(aliases, batch[n]) THEN Append(taken[n - 1], batch[n])
        ELSE taken[n - 1]
  IN  taken[Len(batch)]

\* The batch for each alias: of a batch router, the messages the alias takes,
\* and no entry at all for an alias that takes none; of the event router, the
\* whole batch, even an empty one.
find_by_filter(kind, aliases, batch) ==
  IF RouterClass(kind).by_message
  THEN [a \in UNION {filter(aliases, batch[i]) : i \in DOMAIN batch} |->
          messages_taken(a, aliases, batch)]
  ELSE [a \in aliases |-> batch]

\* What a sender makes of a batch.  The raw sender wraps each message in a group
\* of its own; the others serialize the batch as it is.  The type is not on the
\* wire: a consumer has to know it.
RabbitParsedBatchSender(batch) == [type |-> "MessageBatch", body |-> batch]
RabbitRawBatchSender(batch) ==
  [type |-> "MessageGroupBatch", body |-> [i \in DOMAIN batch |-> <<batch[i]>>]]
RabbitMessageGroupBatchSender(batch) == [type |-> "MessageGroupBatch", body |-> batch]
EventBatchSender(batch) == [type |-> "EventBatch", body |-> batch]

value_to_bytes(kind, batch) ==
  CASE kind = "parsed" -> RabbitParsedBatchSender(batch)
    [] kind = "raw"    -> RabbitRawBatchSender(batch)
    [] kind = "group"  -> RabbitMessageGroupBatchSender(batch)
    [] kind = "event"  -> EventBatchSender(batch)

\* A queue object gives out a sender unless its configuration forbids writing.
get_sender(a) == queues[a].isWritable

\* create_sender and send: a batch for an alias, as it is published.
PublicationOf(kind, a, batch) ==
  [exchange |-> queues[a].exchange, routing_key |-> queues[a].routing_key,
   payload |-> value_to_bytes(kind, batch)]

==============================================================================
