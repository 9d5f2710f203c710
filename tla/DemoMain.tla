------------------------------ MODULE DemoMain -------------------------------
(***************************************************************************)
(* The repository's program (main.cpp), from its command line to its end:  *)
(* it makes a CommonFactory, calls init(), and sends batch_total batches   *)
(* through the raw, the event and the group router.  It catches nothing:   *)
(* any exception terminates it.                                            *)
(*                                                                         *)
(* The module composes the others: Configuration.tla decides what the      *)
(* factory can read, CommonFactory.tla is the factory, RabbitRouter.tla    *)
(* the routers and ConnectionManager.tla the connection.                   *)
(***************************************************************************)
EXTENDS RabbitRouter, Configuration

CONSTANTS
  thread,         \* the one thread of the program
  batch_total,    \* batches sent through each router
  Demo,           \* kind -> the batch that is sent
  CommandLines,   \* the arguments that the program may be given
  Disks,          \* the files that it may find: path -> file
  Environments,   \* the values that RABBITMQ_PASS may have
  Accepted_login  \* the password that the broker accepts

ASSUME DemoAssumption ==
  /\ Callers = {thread}
  /\ batch_total \in Nat \ {0}
  /\ \A kind \in DOMAIN Demo : kind \in Kinds /\ Demo[kind] \in Batches[kind]
  /\ \A kind \in DOMAIN Demo :
        Demo[kind] # <<>> /\ Demo[kind] \in Seq({Demo[kind][n] : n \in DOMAIN Demo[kind]})

VARIABLES
  arguments, files, RABBITMQ_PASS,     \* what the program is started with
  pc,                                  \* its progress, see Places
  i,                                   \* batches sent in the current block
  paths,                               \* the paths that the factory has
  rmq_cfg, message_router_cfg,         \* the state of CommonFactory.tla
  rmq_connection_manager, attempts, router, phase, left, returned,
  failures, replaced

Factory == INSTANCE CommonFactory WITH Given <- {}, MaxAttempts <- 1

surroundings == <<arguments, files, RABBITMQ_PASS>>
factoryVars == <<rmq_cfg, message_router_cfg, rmq_connection_manager, attempts, router,
                 phase, left, returned, failures, replaced>>
mainVars == <<pc, i, paths>>
demoVars == <<vars, surroundings, mainVars, factoryVars>>

\* The blocks of main(), in their order; a block is named for its router.
Blocks == <<"raw", "event", "group">>
Places == {"start", "init", "raw", "event", "group", "finished", "terminated"}
NoPaths == [rabbitMQ |-> <<>>, routerMQ |-> <<>>]

DTypeOK ==
  /\ RTypeOK
  /\ Factory!FTypeOK
  /\ pc \in Places
  /\ i \in 0 .. batch_total

DemoInit ==
  /\ Init
  /\ Factory!Init
  /\ arguments \in CommandLines /\ files \in Disks /\ RABBITMQ_PASS \in Environments
  /\ pc = "start"
  /\ i = 0
  /\ paths = NoPaths

------------------------------------------------------------------------------
(* Before the first batch. *)

\* The factory is made from the command line, or from the default paths.
constructs ==
  /\ pc = "start"
  /\ ~parse_command_line_throws(arguments)
  /\ paths' = IF arguments = <<>> THEN default_paths ELSE create_from_arguments(arguments)
  /\ pc' = "init"
  /\ UNCHANGED <<vars, surroundings, factoryVars, i>>

rejects_arguments ==
  /\ pc = "start"
  /\ parse_command_line_throws(arguments)
  /\ pc' = "terminated"
  /\ UNCHANGED <<vars, surroundings, factoryVars, i, paths>>

Loads(file) ==
  CASE file = "rmq_cfg" ->
         load_rabbit_mq_configuration_succeeds(files, paths.rabbitMQ, RABBITMQ_PASS)
    [] file = "message_router_cfg" ->
         load_message_router_configuration_succeeds(files, paths.routerMQ)

\* init() reads both configurations.
init_reads ==
  /\ pc = "init"
  /\ Loads("rmq_cfg") /\ Loads("message_router_cfg")
  /\ Factory!init_begins
  /\ UNCHANGED <<vars, surroundings, mainVars>>

\* init() throws at the first configuration that it cannot read.
init_cannot_read ==
  /\ pc = "init"
  /\ \E file \in {"rmq_cfg", "message_router_cfg"} :
        /\ ~Loads(file)
        /\ file = "rmq_cfg" \/ Loads("rmq_cfg")
        /\ Factory!init_throws_reading(file)
  /\ pc' = "terminated"
  /\ UNCHANGED <<vars, surroundings, i, paths>>

\* The configuration is one that the broker can be connected with.
Connectable ==
  LET json == files[paths.rabbitMQ] IN
  json.port = "a number" /\ password(json, RABBITMQ_PASS) = Accepted_login

\* One of the four getters, the first of which makes the connection.
init_evaluates(k) ==
  /\ pc = "init"
  /\ Factory!init_evaluates(k)
  /\ rmq_connection_manager = 0 => Connectable
  /\ UNCHANGED <<vars, surroundings, mainVars>>

\* Mutant: main() catches the exception and goes on.
init_throws_Caught(k) ==
  /\ pc = "init"
  /\ Factory!init_throws(k)
  /\ pc' = Blocks[1]
  /\ UNCHANGED <<vars, surroundings, i, paths>>

\* Whatever the configuration, the broker may refuse.
init_throws(k) ==
  /\ pc = "init"
  /\ Factory!init_throws(k)
  /\ pc' = "terminated"
  /\ UNCHANGED <<vars, surroundings, i, paths>>

init_returns ==
  /\ pc = "init"
  /\ Factory!init_returns
  /\ pc' = Blocks[1]
  /\ UNCHANGED <<vars, surroundings, i, paths>>

------------------------------------------------------------------------------
(* The blocks. *)

\* Mutant: the loop runs once too often.
sends_OneMore(kind) ==
  /\ pc = kind
  /\ i <= batch_total
  /\ IF i = 0 THEN Factory!get_router(kind) ELSE UNCHANGED factoryVars
  /\ send(thread, kind, Demo[kind])
  /\ i' = i + 1
  /\ pc' = IF current'[thread] = 0 THEN "terminated" ELSE pc
  /\ UNCHANGED <<surroundings, paths>>

\* The block gets its router when it begins, and calls send(batch).  If there is
\* not exactly one queue for the batch, send throws at once.
sends(kind) ==
  /\ pc = kind
  /\ i < batch_total
  /\ IF i = 0 THEN Factory!get_router(kind) ELSE UNCHANGED factoryVars
  /\ send(thread, kind, Demo[kind])
  /\ i' = i + 1
  /\ pc' = IF current'[thread] = 0 THEN "terminated" ELSE pc
  /\ UNCHANGED <<surroundings, paths>>

\* The call is in progress or returns.
call_goes_on ==
  /\ publish_next(thread) \/ write_frame(thread) \/ send_returns(thread)
  /\ UNCHANGED <<surroundings, mainVars, factoryVars>>

\* Mutant: the batch is sent again.
call_throws_Retries ==
  /\ send_throws(thread)
  /\ i' = i - 1
  /\ UNCHANGED <<surroundings, pc, paths, factoryVars>>

\* An exception leaves send, and main().
call_throws ==
  /\ send_throws(thread)
  /\ pc' = "terminated"
  /\ UNCHANGED <<surroundings, i, paths, factoryVars>>

\* Mutant: the batches of all blocks are counted together.
block_ends_KeepsCount(n) ==
  /\ pc = Blocks[n]
  /\ i = batch_total /\ current[thread] = 0
  /\ pc' = IF n = Len(Blocks) THEN "finished" ELSE Blocks[n + 1]
  /\ UNCHANGED <<vars, surroundings, i, paths, factoryVars>>

\* The next block begins, or main() returns 0.  Nothing closes the connection:
\* the socket is closed with the process, after what has been written to it.
block_ends(n) ==
  /\ pc = Blocks[n]
  /\ i = batch_total /\ current[thread] = 0
  /\ pc' = IF n = Len(Blocks) THEN "finished" ELSE Blocks[n + 1]
  /\ i' = 0
  /\ UNCHANGED <<vars, surroundings, paths, factoryVars>>

MainStep ==
  \/ constructs \/ rejects_arguments
  \/ init_reads \/ init_cannot_read \/ init_returns
  \/ \E k \in Kinds : init_evaluates(k) \/ init_throws(k)
  \/ \E kind \in DOMAIN Demo : sends(kind)
  \/ call_goes_on \/ call_throws
  \/ \E n \in DOMAIN Blocks : block_ends(n)

ReadsStep == BrokerStep /\ UNCHANGED <<routerVars, surroundings, mainVars, factoryVars>>

\* The connection can be lost once there is one.
BreaksStep ==
  /\ rmq_connection_manager # 0
  /\ LinkBreaks
  /\ UNCHANGED <<routerVars, surroundings, mainVars, factoryVars>>

DemoNext == MainStep \/ ReadsStep \/ BreaksStep

\* The thread is scheduled, and the broker reads what it is sent.
DemoSpec ==
  DemoInit /\ [][DemoNext]_demoVars /\ WF_demoVars(MainStep) /\ WF_demoVars(ReadsStep)

------------------------------------------------------------------------------
(* Properties. *)

\* The router of the n-th batch of the program.
RouterOf(n) == Blocks[(n - 1) \div batch_total + 1]

\* The program publishes its batches in the order of its blocks, one publication
\* for each, whatever the routers have chosen; when it has finished it has
\* published them all, and no send is left in progress.
PublishesItsBatches ==
  /\ \A n \in DOMAIN published :
        published[n].payload = value_to_bytes(RouterOf(n), Demo[RouterOf(n)])
  /\ pc = "finished" =>
        /\ Len(published) = Len(Blocks) * batch_total
        /\ \A n \in DOMAIN published : outcome[n] = "ok"

\* No batch is sent before every router of main() can be used, with whatever
\* arguments, files and broker the program has been started.
SendsThroughUsable ==
  calls # <<>> => \A kind \in DOMAIN Demo : Factory!Usable(kind)

\* The program ends early for a reason outside the queues: its arguments, a file
\* it cannot read, a broker that does not let it in or a connection that breaks.
\* With cfg/mq.json each of its routers has exactly one queue to send to.
TerminatedHasCause ==
  pc = "terminated" =>
    \/ parse_command_line_throws(arguments)
    \/ ~Loads("rmq_cfg") \/ ~Loads("message_router_cfg")
    \/ "connection" \in failures
    \/ link = "error"

\* The program ends: it is not stuck in a send.
MainEnds == <>(pc \in {"finished", "terminated"})

\* "Finished" means delivered, unless the network loses the connection: what the
\* program sends gives the broker no reason to close it or the channel.
FinishedDelivers ==
  pc = "finished" ~>
    (Len(processed) = Len(Blocks) * batch_total \/ (link # "up" /\ channel = "open"))

==============================================================================
