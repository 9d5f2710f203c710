# A TLA+ model of th2-common-cpp

`th2-common-cpp` is a library that a th2 service uses to publish batches of
messages to RabbitMQ. An application makes a `CommonFactory`, calls `init()`,
takes routers from it and calls `send` or `sendAll`. The models follow the code
from the command line to the frames that the broker reads. Definitions have the
names of the functions and fields they stand for wherever TLA+ allows it, and
`PROJECT.json` ("map") gives the lines of each.

## The system

| Component | Where | State | Operations |
|---|---|---|---|
| ConnectionManager | `message/impl/rabbitmq/connection/ConnectionManager.h` | one socket, one AMQP connection, channel 1 | `init()`; `basic_publish` |
| Routers: parsed, raw, group, event | `AbstractRabbitMessageRouter.h`, `router/`, `raw/`, `parsed/`, `group/`, `event/` | two pointers, set once by `init` | `send(batch)`, `send(batch, attributes)`, `sendAll`; `subscribe*` throw |
| Queues and senders | `AbstractRabbitQueue.h`, `AbstractRabbitSender.h` and four pairs of subclasses | made for one publication and dropped | `get_sender`, `send`, `value_to_bytes` |
| Queue configuration | `message/configuration/` | what `mq.json` says, never written after reading | `find_queues_by_attr`, `get_queue_by_alias` |
| RabbitMQ configuration | `RabbitMQConfiguration.h` | what `rabbitMQ.json` says | `read`, getters |
| AbstractCommonFactory | `factory/AbstractCommonFactory.h` | two configurations, four routers, one connection manager, all made lazily | `init()`, `init(routers)`, four getters |
| CommonFactory | `factory/CommonFactory.h`, `.cpp` | the paths of the two files | constructors, `create_from_arguments` |
| Demo program | `main.cpp` | - | sends ten batches through three of the routers |
| Message classes | `common.pb.h`, `common.pb.cc` | 23 generated classes; their default instances, shared and made lazily | mutators, `Clear`, `MergeFrom`, `CopyFrom`, `Swap`, `ByteSizeLong`, `_InternalSerialize`, `_InternalParse` |
| Subscribers, listeners, filters, gRPC | several headers, `common.grpc.pb.*` | - | interfaces and stubs; nothing is called |

**How they interact.** A router gets a shared pointer to the connection manager
and one to the queue configuration. `send` selects the queues whose attributes
contain all that are required (or all that the caller asks for), splits the batch
by the filters of the queues, and for each queue makes a queue object and a sender
that serializes and calls `basic_publish`, on the caller's thread. What is
serialized is an object of a message class, which the router has copied from the
caller's; the raw sender builds a batch of groups from it. All routers of
a factory share one connection and one channel. There are no callbacks, no
background threads, no publisher confirms, no heartbeat (0 is passed to
`amqp_login`), and nothing reads from the connection once `init()` is done.

**What is hard, and what makes each component correct.**

* *ConnectionManager.* `basic_publish` takes no lock, and a publication is several
  frames. The connection can be lost between two frames, before or after the
  client notices; a socket that is full blocks the caller; an unknown exchange
  makes the broker close the channel, which the client does not hear. Correct:
  whole messages in the order of the calls, none twice, no gap; a send that threw
  has no effect; nothing half-written is continued by the next caller; every call
  ends. `init()` makes three remote calls, each of which may be refused or meet a lost
  connection. Correct: whoever gets the manager has an open channel, and a failure
  leaves the factory as it was.
* *Routers.* One call may be several publications, walked in the order of a hash
  map, and any of them may throw. Correct: a return means that each selected queue
  has its part exactly once; an exception means a known, incomplete set; calls of
  one thread stay in order; once a publication has thrown, none of any router succeeds on
  the connection they share; a queue has messages of one type, if callers let the router
  choose or only add to what it looks for.
* *AbstractCommonFactory.* Every step of `init()` may throw and leave the rest as
  it is; the getters are the arguments of one call and are evaluated in any order;
  a router is kept before its connection is made. Correct: one connection for all
  routers; an unusable router only after an exception; what works stays; the
  factory is only read once `init()` has returned; connections that fail (and are
  never closed) are bounded in number.
* *Message classes.* A message is measured in one walk and written in another, read
  by services with other versions of `common.proto`, nested to any depth, and holds
  text that may not be UTF-8; the first message of a class makes objects that all
  threads share. Correct: a consumer reads what was sent or rejects it, and never
  reads something else; sizes fit; copies are equal; shared objects are there, once,
  before they are needed.
* *CommonFactory, demo program.* Two files, a command line, an environment
  variable, a broker: each may be wrong. Correct: an error ends the program before
  it sends; otherwise it ends and its batches are published in order.

`PROJECT.json` lists each hazard at its line with the properties aimed at it.

## The modules

```
OrderedDelivery        what a publishing connection promises
   ^ refined by
ConnectionManager      the connection, frame by frame; the broker; the network
   ^ extended by           MessageRouting   configuration, selection, serialization
RabbitRouter  ------------------^           send and sendAll over the connection
   ^ extended by           CommonFactory    the factory (INSTANCE)
DemoMain  ----------------------^           Configuration   paths, files, options
                                            main.cpp

CommonFactory          connecting is one step
   ^ refined by
FactoryConnecting      socket, login, channel; refusals; losses

CommonMessages         the 23 classes as tables
   ^ extended by
ProtoCodec ........... what the methods do        DefaultInstances   InitSCC, per class
   ^ extended by
ProtoObjects ......... an application at work
   ^ extended by           MessageRouting (INSTANCE)
SenderPayloads  ----------------^           batches, senders and a consumer
   ^ extended by
DemoMessages                                the batches of main.cpp

MCInnerCalls           the recursion of ProtoCodec's methods, for TLC
```

`MC*.tla` give the constants small values for TLC; `*_proofs.tla` hold the theorems.

**ConnectionManager.tla.** A call of `basic_publish` is a step that enters
(`basic_publish`), one step for each frame (`WriteFrame`) and an exception
(`PublishFails`). Frame 0 is the method, 1 the header, the rest the body; a payload
of no bytes has no body frame. `wire` is the socket with room for `SocketBuffer`
frames. `link` is the connection as the client can know it: `up`, `broken` (the
kernel may still take frames) or `error` (a call has failed; every later one does,
since nothing reconnects). The broker (`BrokerReads`, `BrokerCompletes`,
`BrokerRejects`, `BrokerIgnores`) puts the contents of channel 1 together; it is not
in the repository and is modelled from what AMQP makes of the code's way of using
it. Two threads inside `amqp_basic_publish` race on the output buffer of the
connection, which is undefined behaviour: from then on (`overlapped`) any frame may
be written garbled. Socket options, the table of headers (always empty) and the
debug output are left out.

**MessageRouting.tla.** Operators only: the four router classes with their
attributes, `from_json` (which drops filters), `find_queues_by_attr`, `filter`,
`find_by_filter`, the serialization of the four senders, and the publication that
comes out. Attributes are sets. A message is a model value, a group a sequence of
them.

**RabbitRouter.tla.** `send`, `send_with` and `sendAll` choose the queues in one step
(they read only what never changes) and throw or begin; `publish_next` takes any
queue not yet served; `write_frame`, `send_throws` and `send_returns` follow the
call. `calls`, `sent` and `ended` remember every call for the properties; the code
keeps that on the stack.

**CommonFactory.tla.** One thread that may call anything at any time and catches
every exception. `init()` is `init_begins`, an `init_evaluates` for each argument in
any order, and `init_returns`, or it throws where the code can. `ConnectionManager::
init()` is one step, a success (`get_rmq_connection_manager`) or a failure
(`connection_throws`) that leaves an unclosed object behind, counted in `attempts`.

**FactoryConnecting.tla.** The same factory with `ConnectionManager::init()` as the code
has it: a getter assigns its router and begins (`starts_connecting`), opens the socket
(`socket_opens`, `socket_throws`), logs in (`logs_in`) and opens the channel
(`channel_opens`); either reply may be a refusal or never come (`rpc_throws`). `peers`
is what the broker has of each connection ever begun, since nobody closes those of
failed attempts. The mapping to CommonFactory.tla hides the one router that is
assigned and not yet initialized. A reply of the login that the client does not like
(a SASL mechanism, a frame size) is part of `rpc_throws`.

**CommonMessages.tla, ProtoCodec.tla, ProtoObjects.tla.** Generated code is regular: 23
classes with the same methods. CommonMessages.tla has one table for each class of what
an object holds (from its accessors) and one of how it is written (from
`_InternalParse`, `_InternalSerialize` and `ByteSizeLong`, which agree); ProtoCodec.tla
has each method once, as an operator on those tables. An object is a function of its
members; a pointer is a sequence of at most one object; a oneof a record of its case and
value. A text is a name with a length, and UTF-8 or not. What is written is a tree of
numbered fields, of which `SizeOf` counts the bytes. `Accessed` is the set of objects that
one call of a mutator, at any depth, may make of an object. The protobuf library
(`VerifyUTF8`, sizes of varints, fields that are not known, maps) is external.

The methods are recursive, since messages hold messages. An operator that is declared
recursive is out of the prover's reach, so that in ProtoCodec.tla a method calls a
constant for the objects inside its own (`Inner_MergeFrom` in `MergeFrom`, and so on for
`Accessed`, `ByteSizeLong`, `Serialize`, `SizeOf`, `Parse` and `Readable`).
MCInnerCalls.tla has for each constant the method itself; the configurations give it that
value, so that TLC runs the recursion of the code.

**SenderPayloads.tla.** `find_by_filter` and the senders' `value_to_bytes` on message
objects, and a consumer. MessageRouting.tla has them on sequences of messages; the
invariant compares the two, so that what the router modules call a publication is what
arrives. The buffer has the size that `ByteSizeLong` counted and stays zero if it is more
than an `int` holds.

**DefaultInstances.tla.** The components (`SCCInfo`) of `common.pb.cc` with their
dependencies and the instances that their `InitDefaults` functions construct; every
constructor of every thread calls `InitSCC`, whose lock and depth-first walk are the
library's. `visiting` is the recursion of a thread.

**DemoMessages.tla.** The bodies of the three loops of `main.cpp`, on message objects.

**Configuration.tla, DemoMain.tla.** The program of the repository as a composition of
the other modules: each step of `main()` is a step of the factory or of a router.

## What TLC checks

Deadlock is not checked (`CHECK_DEADLOCK FALSE`) in any run: a caller may make no
further call, a crashed process does nothing, and the program ends.

| Run | Instance | Shows |
|---|---|---|
| `cm_single` | 1 thread, 3 publications of 0, 1 or 2 body frames, 2 exchanges of which 1 is declared, socket of 3 frames | refinement of `OrderedDelivery`; `PublishReturns`; `PublishedArrives` |
| `cm_threads` | 2 threads, socket of 2 frames | `PrefixDelivery`, `FailedNeverProcessed`, `LossHasCause`, `DeadHasCause` |
| `router_calls` | 1 thread, any 2 calls of 4 routers over 3 queues, one with an undeclared exchange | `OkMeansDelivered`, `ThrewMeansIncomplete`, `OneTypePerQueue`, `CallReturns` |
| `router_threads` | 2 threads, 3 calls on 2 routers, the queues of `cfg/mq.json` | `NothingStray`, `CallsInOrder`, `FailureIsFinal` |
| `router_filters` | a queue with filters | violation of `FiltersRespected` |
| `factory` | 4 routers, 3 ways to call `init(routers)`, 5 attempts to connect | the seven properties of the factory |
| `factory_init` | the same | violation of `InitOkMeansUsable` |
| `factory_connecting` | 3 routers, 2 ways to call `init(routers)`, ports that are numbers or not, 3 attempts to connect | `ConnectsAtomically` (refinement of CommonFactory), `ChannelMeansReady`, `ConnectEnds` |
| `messages` | 2 objects of each of the 23 classes, any 3 calls, 4 for the batches; 3 texts, 3 numbers, 4 levels of nesting, sizes up to 200 | `ReadsBack`, `SizeIsExact`, `ConcatenationMerges`, `RelayKeepsFields`, `CopyIsEqual`, `PayloadIsRouted` |
| `default_instances` | 2 threads, one object of any class each | `ReachableDefaults`, `ConstructorEnds` |
| `demo_event_id` | the batches of `main.cpp` | violation of `EventsHaveTheirId` |
| `demo_main` | 5 command lines, 8 disks, 3 values of `RABBITMQ_PASS`, 2 batches a block | the program ends, publishes its batches in order and dies only of outside causes |

**Bounds.** `MaxPublished`, `MaxCalls` and `MaxAttempts` stop a behaviour from
publishing, calling or connecting for ever. Three publications are enough for one
that breaks off, one that follows it and one that is lost after; the socket is
smaller than two messages, so that callers block in the middle of one. Five
attempts are one more than the factory can make without `init(routers)`; they are
shared with the failures of getters that follow it; three, in `factory_connecting`, are
one that fails, one that succeeds and one to spare. Three mutators reach an object
inside an object inside another, or fill a repeated member, and one text of 130 bytes
needs two bytes for its length, as do the messages around it; the limits of 4
levels and of 200 bytes stand for 100 levels and 2^31 - 1 bytes and are exceeded in the
runs. `MaxRepeated` is two elements. Four mutators build a raw message that, wrapped by
its sender, is deeper than the limit. In `default_instances` one object for each thread is
enough: a second finds its component as the first left it. In `router_threads`
`MaxPublished` may cut a `sendAll` off before its last queue: harmless for the
safety properties of that run, and no liveness is checked there. The callers of
`router_threads` are symmetric, which is sound because it checks invariants only.

**Fairness.** `PublishReturns`, `CallReturns`, `PublishedArrives`, `MainEnds` and
`FinishedDelivers` assume that a thread inside `amqp_basic_publish` is scheduled
(weak fairness of its steps), and that the broker goes on reading. The second is an
assumption about the environment: a broker that stops reading blocks its publishers
for as long as it likes, since the code sets no timeout on writes. `ConnectEnds` assumes in the
same way that a thread inside `init()` is scheduled and that the broker answers: grants,
refuses or goes away; `amqp_login` is called without a timeout. `ConstructorEnds`
assumes that threads are scheduled and that the mutex of `InitSCC` does not pass over a
thread for ever (strong fairness of `locks`). Nothing is
assumed of the network: the connection may or may not be lost, and a client that
writes to a lost connection fails sooner or later because its message ends or the
write does. No application is obliged to call anything.

**Violations.** Three runs show where the code differs from what the repository
says (details under "findings"): filters of queues are read past; `init()` that is
called again after a failed connection returns with a router that never works;
and the program's events have no id, because it sets that of a copy. No run is spent
on a fourth, which is read off `create_from_arguments`: six of the eight options in its
comment are not declared and end the program (`demo_main` has `--configs` among its
command lines).

## What is proved

TLAPS proves the following for every value of the constants.

*The connection* (`ConnectionManager_proofs.tla`), from `ConnectionAssumption`
(numbers of frames are natural, the socket holds at least one). `TypeCorrect` by
induction on its own. The other invariants need a stronger one: `PrefixDelivery` says
nothing of the frames on their way, so that a step of the broker can falsify it. The
inductive invariant is

    IInv == CMTypeOK /\ (~overlapped => Sequential)

where `Sequential` says what holds while calls have not overlapped: at most one
caller is inside a call, with the last publication; the contents accepted are
publications 1 to n and none of them has failed; the channel is `closing` only for
an undeclared exchange, and no send has failed on a connection not known to be
gone. Above all, while the connection is up and the channel open there is *one
unbroken run of frames* (`InStep`): the frames that the broker has put together,
those in the socket, and the frame the caller is about to write (or the next
publication) follow each other without a gap. Each action adds a frame at the end
of the run, moves the border between broker and socket, or ends the run for good.
From `IInv` follow `PrefixDeliveryHolds`,
`FailedNeverProcessedHolds`, `DeadHasCauseHolds` and `LossHasCauseHolds`. TLC has
been used to try `IInv` as an invariant before it was proved.

`ImplementsOrderedDelivery`: with one caller, calls cannot overlap
(`OneCallerNeverOverlaps`); by `IInv` the content that `BrokerCompletes` accepts is then
that of the oldest publication not delivered, so that the step is `Deliver`;
`BrokerRejects` is impossible; the rest are `Request`, `Close` or stutter.

*The routers* (`RabbitRouter_proofs.tla`), from `RouterAssumption` (`mq.json` has finitely
many queues; what the routers can publish is in `Publication`). Each step of
the routers is a step of the connection or leaves it alone (lemma `UsesConnection`). So all
of the above holds of the routers, as `RoutersDeliverPrefix` does for `PrefixDelivery`, for any
configuration, number of queues, threads and calls. What the connection does not know is
which call a publication belongs to. That is `RouterInv`, which is inductive whether or not
calls overlap:

* `Recorded`, `RTypeOK`: the records of the calls grow together;
* `Progress`: a publication in progress is one of its caller's latest call, the only one of
  that caller that has not ended;
* `Owned`: each publication was made for exactly one alias of one call, and is what that
  call had chosen for it;
* `InOrder`: the publications of one caller are numbered in the order of its calls;
* `Outcomes`: what the end of a call says of the outcomes of its publications;
* `ByAttributes`: the queues of a call have the attributes that it looked for.

`OkMeansDelivered`, `ThrewMeansIncomplete`, `NothingStray` and `CallsInOrder` then follow
from `RouterInv` and `IInv` together: `AcceptedOnce` says that an accepted content is that of
one publication, and `Owned` says whose. `OneTypePerQueue` follows from `Owned` and
`ByAttributes` alone. `FailureIsFinal` needs one more invariant of the connection,
`NoneAfterFailure`, which is inductive with `IInv`: a publication that fails is the last of
all, and leaves the link in error, so that no frame is written after it.

*Routing* (`MessageRouting_proofs.tla`). `BatchesAreWhole`: filters being dropped when
`mq.json` is read, `find_by_filter` gives each queue the batch it was called with, whole and
in order. The loop over the messages is a recursive function; that it builds the batch is
proved by least counterexample (`LeastElement`, from the well-foundedness of the natural
numbers), since induction theorems that take a predicate are out of the prover's reach.

*The factory* (`CommonFactory_proofs.tla`), from `FactoryAssumption` (finitely many kinds
of routers; callers pass initialized ones). All seven properties of run `factory`. The
inductive invariant `FInv` adds to the types that the connection kept is the one
attempt that succeeded (`KeptConnection`), that between `init_begins` and `init_returns`
a kind is either still to be evaluated or has its router (`Control`), that without
an exception each router is initialized (`Unharmed`), and that there are no more
attempts to connect than routers made (`Attempts`).

*Connecting* (`FactoryConnecting_proofs.tla`). `ChannelMeansReady` says what has become of
connections that were made, so that it needs to know of the one being made: `FCInv` adds
that a getter which is inside `init()` has assigned its router and is the only one
(`Asking`), and what the broker can have made of its connection, given the call that the
client waits for and whether the answer has come (`LastPeer`). From `FCInv`,
`ConnectsAtomicallyHolds`: the step that opens the channel is the success of
CommonFactory.tla, the step that throws its failure, and all between are invisible.
`ConnectingKeepsPromises` draws the conclusion: what is proved of the factory in one step
holds of the factory call by call. A property of steps has to be looked at again, since a
step of the one factory may be several of the other: `ConnectingKeepsUsable` and
`ConnectingReadsOnlyAfterInit` say of every step of the detailed factory what `UsableStays`
and `ReadOnlyAfterInit` say of the one-step factory.

*Default instances* (`DefaultInstances_proofs.tla`), for any set of threads and any number
of objects. The proof has two halves. The first reads the tables of `common.pb.cc`:
`Rank` puts each component above those it depends on, so that there is no cycle, and
`Home` gives the component of each class, to show that what a class points to belongs to
its own component or to one of its dependencies. The second is about `InitSCC` and uses
only these facts. `ReachableDefaults` is not inductive, since it says nothing of components
that are half done; `DIInv` adds that only the holder of the lock visits (`Locked`), that a
frame of the recursion has done exactly what its counter says, that ranks fall on the way
down, so that no component is visited twice, and that every running component is on a
stack (`Visits`), and that nothing is constructed of an uninitialized one (`Untouched`).

*The program* (`DemoMain_proofs.tla`), from `DemoAssumption` (one thread, at least one batch
per block, and a batch for each router that is not empty), for whatever arguments, files,
environment and `mq.json`. Each step of the program is a step of its routers or leaves them
alone (lemma `UsesRouters`), and one of its factory or leaves it alone (`UsesFactory`). So
what is proved of the parts holds in the whole: the routers' invariant and
`UnusableHasCause` are the ground the rest stands on. `DemoInv` adds the order:

* `Prepared`: until the first batch nothing has failed, and no block is reached but through
  an `init()` that returned; hence the getters of the blocks change nothing;
* `Counted`: in block `n` there have been `(n - 1) * batch_total + i` calls;
* `InTurn`: call `k` is for the router of batch `k`, and every queue gets that batch, by
  `BatchesAreWhole`;
* `OneEach`: call `k` makes publication `k` and no other, and every call but the last has
  returned.

From it follow `DTypeOK`, `SendsThroughUsable` and `PublishesItsBatches`. Putting the layers
together, `DemoDeliversInOrder` says that the program makes the connection implement
`OrderedDelivery`, and `FinishedMeansDeliveredHolds` that a program that has finished has
brought each batch to the broker exactly once, as soon as a connection that is alive has
been read. `TerminatedHasCauseHolds` has a hypothesis: `mq.json` has exactly one queue with
the attributes of each router of `main()` (`OneQueueEach`), as the one in `cfg/` has. Without
it `send` throws for a reason that the property does not list.

*Message classes and payloads* (`SenderPayloads_proofs.tla`), for any texts (UTF-8 or
not), numbers of up to three bytes, limits and classes in use, and for objects nested to
any depth. The tables of CommonMessages.tla are read once, class by class: a member has
one field, or one for each case if it is the oneof; fields are numbered from one; a field
is coded as its member is stored (`TableOf`). From there on nothing is about a particular
class, until `SentIsWhole` comes to the four kinds of batches.

*Induction over objects* is not to be had directly, so objects are counted by nesting.
`Nested(U)[d][c]` is the set of objects of class `c` that nest at most `d` deep and have
unknown fields from `U`; `Whole(d, c)` are those with none. `Induction`, once more by least
counterexample, then gives each method from objects of depth `d` to `d + 1`, and `InductionTo`
follows the loops over fields and elements. `ObjectsTypeCorrect` is the invariant that brings
the objects of the application into these sets.

*The recursion* enters as hypotheses, one for each `Inner_` constant: `InnerMergeFrom` says
that `Inner_MergeFrom` is `MergeFrom` for every object, and so do `InnerAccessed`,
`InnerByteSizeLong`, `InnerSerialize`, `InnerSizeOf`, `InnerReadable` and `InnerParse`. They
are the recursive definitions of these methods, written as equations. Operators that satisfy
them exist: the calls on the right are for objects of less nesting, and those of `Parse` for
less depth or for fewer fields at the same depth. The definitions in MCInnerCalls.tla are
such operators.

* `CopyIsEqualHolds`: merging an object into a new one gives that object (`MergeIntoNew`).
* `SizeIsExactHolds`: `ByteSizeLong` and `SizeOf` add the same numbers in different
  orders, element by element and field by field (`SizesAgree`).
* `ReadsBackHolds`, `ConcatenationMergesHolds`: reading what was written of `m` into `t` is
  `MergeFrom(t, m)`, if everything in `m` can be read, and a failure otherwise
  (`ParseMerges`). The second half is the one that needs care: a field that cannot be read
  fails the parse, whatever comes before it or after it.
* `PayloadIsRoutedHolds`: what the senders make of a batch, the raw sender's groups
  included, is a whole object again, and a consumer reads the elements that
  MessageRouting.tla says were sent.
* `RelayKeepsFieldsHolds`: the relay's object is not equal to the original, since at each
  level it has the last field of the class among the unknown ones. `RelaysAs` says what
  it is instead: an object with unknown fields, of which exactly that is written which was
  written of the original. So the reader behind it reads the same, and `ReadsBackHolds` does
  the rest. The proof needs that fields are written by number, so that what the relay adds
  at the end is what it left out at the end.

The inductive invariants of the other modules have been tried by TLC on the instances of
the runs before they were proved.

**Only model-checked:** liveness (`PublishReturns`, `PublishedArrives`, `CallReturns`,
`ConnectEnds`, `ConstructorEnds`, `MainEnds`, `FinishedDelivers`), which is about fairness
and so out of the prover's reach; the safety half of `FinishedDelivers` is proved
(`FinishedMeansDeliveredHolds`). Every invariant and
every action property that a passing run checks has a theorem, as have the two
refinements (`OrderedDelivery`, `ConnectsAtomically`).

**What the properties do not say.**

* A broker that stays connected and never reads again is assumed away by the fairness of
  `BrokerStep`. With it, `PublishReturns`, `CallReturns` and `MainEnds` would be false, as
  the code sets no timeout on writes.
* `UnusableHasCause` and `UsableStays` do not look at the router that a failed getter leaves
  behind; the run `factory_init` shows what becomes of it.
* `OneTypePerQueue` is about calls that look for all the attributes their router requires.
  A caller may pass others, which replace the required ones, and can then put any type of
  batch into any queue.
* Sizes, bytes and readers are modelled on one table of fields for each class. That
  `_InternalSerialize`, `ByteSizeLong` and `_InternalParse` of a class agree on its fields is
  what reading them has shown; `SizeIsExact` and `ConcatenationMerges` are about the walks
  over those tables and cannot see one method of one class differ.

## What is not modelled

* Subscribing. `subscribe`, `subscribeAll` and `get_subscriber` throw; the class
  `AbstractRabbitSubscriber` is included nowhere and does not compile.
* Of the generated code: const accessors, which change nothing; reflection and
  descriptors, which the library does not use; arenas, which it does not make;
  `_cached_size_`, which each call writes into an object of its own (`find_by_filter`
  copies); closed groups and wire types that do not match, which no writer of
  `common.proto` produces.
* gRPC (an empty header; the generated files have no service), logging, the build.
* Failed allocations, among them a socket that cannot be allocated (only logged at
  `ConnectionManager.h:75`).
* Field filters: nothing fills the classes, since `from_json` drops what it reads.
* Two threads in the factory. Its getters assign shared pointers without a lock;
  `ReadOnlyAfterInit` shows why this matters only until `init()` has returned.
* Abbreviated command-line options, which the parser completes.
* Callers that lock around `send`, and queues bound at the broker: neither is in the
  repository.

## Plan

Done: the connection with its abstract specification and proofs; routing and the
routers; the factory, in one step and in several; configuration and the program; the
message classes, what is sent of them and what a consumer reads.

Proved: every safety property of the passing runs, and the refinements. What could follow:

1. The factory and the connection in one module, so that `ChannelMeansReady` becomes the
   initial condition of ConnectionManager by a theorem and not by its comment.
2. A relay that lacks any fields, not only the last of each class. What it writes then is
   in another order, so that `RelaysAs` would have to compare fields as sets.
3. Subscribers, once the repository has them.
