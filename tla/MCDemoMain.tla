----------------------------- MODULE MCDemoMain ------------------------------
(***************************************************************************)
(* DemoMain for TLC: the repository's mq.json, several command lines, and  *)
(* disks on which a file is missing or not what it should be.              *)
(***************************************************************************)
EXTENDS DemoMain, TLC

CONSTANTS x1, a1, a2, m1

\* cfg/mq.json: a1 is test_queue and a2 is output_queue.
RepositoryJson ==
  a1 :> [queue |-> "q1", name |-> "q1", exchange |-> x1,
         attributes |-> {"subscribe", "raw"}, filters |-> {}]
  @@ a2 :> [queue |-> "q2", name |-> "q2", exchange |-> x1,
            attributes |-> {"publish", "raw", "event"}, filters |-> {}]

MCDemo == "raw" :> <<m1>> @@ "event" :> <<m1>> @@ "group" :> << <<m1>> >>

MCBatches == [kind \in Kinds |-> IF kind = "parsed" THEN {} ELSE {MCDemo[kind]}]

MCPublication ==
  {PublicationOf(kind, a, MCDemo[kind]) : kind \in DOMAIN MCDemo, a \in Aliases}
MCBodyFrames(p) == 1
MCExchanges == {x1}
NothingAsked == {}

\* The files.
Rabbit(port, pass) ==
  [fields |-> {"host", "vHost", "port", "username", "password", "subscriberName"},
   mistyped |-> {}, port |-> port, password |-> pass]
RabbitMistyped(name) ==
  [Rabbit("a number", "right") EXCEPT !.fields = @ \cup {name}, !.mistyped = {name}]
Mq == [fields |-> {"queues"}, mistyped |-> {}, port |-> "none", password |-> "none"]
NotJson == [Mq EXCEPT !.fields = {}]
MqMistyped == [Mq EXCEPT !.mistyped = {"queues"}]

RabbitPath == <<"cfg/", "rabbitMQ.json">>
MqPath == <<"cfg/", "mq.json">>

Disk(rabbit, mq) ==
  RabbitPath :> rabbit @@ MqPath :> mq
  @@ get_path("rabbitMQ.json") :> rabbit @@ get_path("mq.json") :> mq

MCDisks ==
  {Disk(Rabbit("a number", "right"), Mq),
   Disk(Rabbit("a number", "${RABBITMQ_PASS}"), Mq),
   Disk(Rabbit("a word", "right"), Mq),
   Disk(Rabbit("a number", "right"), NotJson),
   Disk(Rabbit("a number", "right"), MqMistyped),
   Disk(RabbitMistyped("connectionTimeout"), Mq),
   Disk(RabbitMistyped("prefetchCount"), Mq),
   get_path("mq.json") :> Mq}

MCEnvironments == {NoValue, "right", "wrong"}

\* The command lines: none, that of the README, one option only, both files
\* swapped, and an option that is documented and not declared.
Argument(option, value) == [option |-> option, value |-> value]
MCCommandLines ==
  {<<>>,
   <<Argument("rabbitConfiguration", RabbitPath),
     Argument("messageRouterConfiguration", MqPath)>>,
   <<Argument("rabbitConfiguration", RabbitPath)>>,
   <<Argument("rabbitConfiguration", MqPath),
     Argument("messageRouterConfiguration", RabbitPath)>>,
   <<Argument("configs", <<"cfg/", "">>)>>}

==============================================================================
