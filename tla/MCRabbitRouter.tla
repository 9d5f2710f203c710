---------------------------- MODULE MCRabbitRouter ---------------------------
(***************************************************************************)
(* Small instances of RabbitRouter for TLC: a configuration in which every *)
(* queue has one kind of message, the repository's own mq.json, and one    *)
(* with filters.                                                           *)
(***************************************************************************)
EXTENDS RabbitRouter, TLC

CONSTANTS x1, x2, a1, a2, a3, m1, m2

Queue(exchange, attributes, filters) ==
  [queue |-> "q", name |-> "k", exchange |-> exchange, attributes |-> attributes,
   filters |-> filters]

\* Three queues to publish to; the exchange of the third is not declared.
OneKindEach ==
  a1 :> Queue(x1, {"publish", "raw"}, {})
  @@ a2 :> Queue(x1, {"publish", "parsed"}, {})
  @@ a3 :> Queue(x2, {"publish", "event"}, {})

\* cfg/mq.json.
RepositoryJson ==
  a1 :> Queue(x1, {"subscribe", "raw"}, {})
  @@ a2 :> Queue(x1, {"publish", "raw", "event"}, {})

\* Two raw queues, of which the second takes m2 only.
WithFilters ==
  a1 :> Queue(x1, {"publish", "raw"}, {})
  @@ a2 :> Queue(x1, {"publish", "raw"}, {m2})

\* One batch per router; for the event router also the empty batch, which is
\* serialized to no bytes.
MCBatches ==
  [kind \in Kinds |->
     CASE kind = "parsed" -> {<<m1>>}
       [] kind = "raw"    -> {<<m1, m2>>}
       [] kind = "group"  -> {<< <<m1, m2>> >>}
       [] kind = "event"  -> {<<>>, <<m1>>}]

\* The raw and the event router only, with a batch of one body frame and one
\* that is serialized to no bytes.
TwoRouters ==
  [kind \in Kinds |->
     CASE kind = "raw" -> {<<m1>>} [] kind = "event" -> {<<>>} [] OTHER -> {}]

MCPublication ==
  {PublicationOf(kind, a, batch) :
     kind \in Kinds, a \in Aliases, batch \in UNION {Batches[k] : k \in Kinds}}

MCBodyFrames(p) == IF p.payload.body = <<>> THEN 0 ELSE 1

MCExchanges == {x1}

Asked == {{"publish"}, {"publish", "parsed"}}
AskedAll == {{}}
AskedRaw == {{"publish", "raw"}}

CallerSymmetry == Permutations(Callers)

==============================================================================
