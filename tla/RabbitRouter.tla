----------------------------- MODULE RabbitRouter ----------------------------
(***************************************************************************)
(* send and sendAll of the four routers (AbstractRabbitMessageRouter.h)    *)
(* over the connection they share.  A router never writes its fields after *)
(* init(), so the state is the progress of the calls: the queues that each *)
(* chose, which of them it has published to, and how it ended.             *)
(*                                                                         *)
(* The routers are initialized here; CommonFactory.tla is about those that *)
(* are not.  subscribe and subscribeAll throw whatever they are given and  *)
(* change nothing.                                                         *)
(***************************************************************************)
EXTENDS ConnectionManager, MessageRouting

CONSTANTS
  Batches,       \* kind -> the batches that callers send through that router
  AskedFor,      \* the attribute sets that callers pass to send and sendAll
  MaxCalls       \* bound: number of calls in a behaviour

\* mq.json has finitely many queues, and Publication all that the routers can publish.
ASSUME RouterAssumption ==
  /\ MaxCalls \in Nat
  /\ IsFiniteSet(Aliases)
  /\ \A kind \in Kinds : \A batch \in Batches[kind], aliases \in SUBSET Aliases :
        LET targets == find_by_filter(kind, aliases, batch) IN
        \A a \in DOMAIN targets : PublicationOf(kind, a, targets[a]) \in Publication

VARIABLES
  calls,         \* every call of send or sendAll, in the order they started:
                 \* attrs is what it looks for in a queue, targets the batch
                 \* for each alias that it chose
  sent,          \* of each call, the number of the publication that it made
                 \* for each of its aliases, 0 where it has made none
  ended,         \* of each call: "running", "ok" (returned) or "threw"
  current        \* per caller, the index of its call in progress or 0

routerVars == <<calls, sent, ended, current>>
vars == <<cmVars, routerVars>>

CallType(k) ==
  /\ calls[k].caller \in Callers
  /\ calls[k].op \in {"send", "send_with", "sendAll"}
  /\ calls[k].kind \in Kinds
  /\ calls[k].batch \in Batches[calls[k].kind]
  /\ DOMAIN calls[k].targets \subseteq Aliases
  /\ sent[k] \in [DOMAIN calls[k].targets -> 0 .. Len(published)]
  /\ ended[k] \in {"running", "ok", "threw"}

RTypeOK ==
  /\ CMTypeOK
  /\ DOMAIN calls = 1 .. Len(calls) /\ DOMAIN sent = DOMAIN calls /\ DOMAIN ended = DOMAIN calls
  /\ \A k \in DOMAIN calls : CallType(k)
  /\ current \in [Callers -> 0 .. Len(calls)]
  /\ \A c \in Callers :
        /\ publishing[c] # Idle => current[c] # 0
        /\ current[c] # 0 =>
             ended[current[c]] = "running" /\ calls[current[c]].caller = c

Init ==
  /\ CMInit
  /\ calls = <<>>
  /\ sent = <<>>
  /\ ended = <<>>
  /\ current = [c \in Callers |-> 0]

------------------------------------------------------------------------------
(* The start of a call: nothing is published yet. *)

\* find_by_filter chooses the targets.  If their number is one that the call
\* accepts it goes on to publish, or else throws before it publishes anything.
Start(c, op, kind, batch, attrs, accepted) ==
  LET targets == find_by_filter(kind, find_queues_by_attr(attrs), batch) IN
  /\ current[c] = 0
  /\ Len(calls) < MaxCalls
  /\ calls' = Append(calls, [caller |-> c, op |-> op, kind |-> kind, batch |-> batch,
                             attrs |-> attrs, targets |-> targets])
  /\ sent' = Append(sent, [a \in DOMAIN targets |-> 0])
  /\ \/ /\ Cardinality(DOMAIN targets) \in accepted
        /\ ended' = Append(ended, "running")
        /\ current' = [current EXCEPT ![c] = Len(calls) + 1]
     \/ /\ Cardinality(DOMAIN targets) \notin accepted
        /\ ended' = Append(ended, "threw")
        /\ UNCHANGED current
  /\ UNCHANGED cmVars

\* send(batch): by the attributes that the router requires.
send(c, kind, batch) ==
  Start(c, "send", kind, batch, required_send_attributes(kind), {1})

\* send(batch, attributes): by the caller's attributes and no others.
send_with(c, kind, batch, attrs) ==
  Start(c, "send_with", kind, batch, attrs, {1})

\* sendAll(batch, attributes): any number of queues but none.
sendAll(c, kind, batch, attrs) ==
  Start(c, "sendAll", kind, batch, attrs, Nat \ {0})

------------------------------------------------------------------------------
(* send(alias_and_message_to_send): one queue after another, in the order of *)
(* an unordered_map.                                                         *)

Unsent(k) == {a \in DOMAIN calls[k].targets : sent[k][a] = 0}

\* Mutant: the loop does not move on from the alias it has published to.
publish_next_SameAlias(c) ==
  /\ current[c] # 0
  /\ LET k == current[c] IN
     \E a \in Unsent(k) :
        /\ get_sender(a)
        /\ basic_publish(c, PublicationOf(calls[k].kind, a, calls[k].targets[a]))
        /\ sent' \in {sent, [sent EXCEPT ![k] = [sent[k] EXCEPT ![a] = Len(published) + 1]]}
  /\ UNCHANGED <<calls, ended, current>>

\* The queue, its sender and the bytes are made anew for each alias.
publish_next(c) ==
  /\ current[c] # 0
  /\ LET k == current[c] IN
     \E a \in Unsent(k) :
        /\ get_sender(a)
        /\ basic_publish(c, PublicationOf(calls[k].kind, a, calls[k].targets[a]))
        /\ sent' = [sent EXCEPT ![k] = [sent[k] EXCEPT ![a] = Len(published) + 1]]
  /\ UNCHANGED <<calls, ended, current>>

\* The call is inside amqp_basic_publish.
write_frame(c) ==
  /\ WriteFrame(c)
  /\ UNCHANGED routerVars

\* Mutant: the call that has ended remains the current one.
Return_KeepsCurrent(c, how) ==
  /\ ended' = [ended EXCEPT ![current[c]] = how]
  /\ UNCHANGED <<calls, sent, current>>

\* The call in progress ends.
Return(c, how) ==
  /\ ended' = [ended EXCEPT ![current[c]] = how]
  /\ current' = [current EXCEPT ![c] = 0]
  /\ UNCHANGED <<calls, sent>>

\* Mutant: the exception is caught and the publication sent again.
send_throws_Retries(c) ==
  /\ publishing[c] # Idle
  /\ link \in {"broken", "error"}
  /\ link' = "error"
  /\ publishing' = [publishing EXCEPT ![c] = [pub |-> publishing[c].pub, pos |-> 0]]
  /\ UNCHANGED <<published, outcome, overlapped, wire, brokerVars, routerVars>>

\* A publication throws and the exception leaves the loop: no other queue is
\* tried and nothing of what was published before is taken back.
send_throws(c) ==
  /\ PublishFails(c)
  /\ Return(c, "threw")

\* Mutant: the call returns after the first queue.
send_returns_AfterFirst(c) ==
  /\ current[c] # 0
  /\ publishing[c] = Idle
  /\ Unsent(current[c]) # DOMAIN calls[current[c]].targets
  /\ Return(c, "ok")
  /\ UNCHANGED cmVars

\* Mutant: a call that has sent everything throws.
send_returns_Throws(c) ==
  /\ current[c] # 0
  /\ publishing[c] = Idle
  /\ Unsent(current[c]) = {}
  /\ Return(c, "threw")
  /\ UNCHANGED cmVars

\* The loop is over.
send_returns(c) ==
  /\ current[c] # 0
  /\ publishing[c] = Idle
  /\ Unsent(current[c]) = {}
  /\ Return(c, "ok")
  /\ UNCHANGED cmVars

CallStep(c) == publish_next(c) \/ write_frame(c) \/ send_throws(c) \/ send_returns(c)

Next ==
  \/ \E c \in Callers, kind \in Kinds :
        \E batch \in Batches[kind] :
           \/ send(c, kind, batch)
           \/ \E attrs \in AskedFor :
                 \/ send_with(c, kind, batch, attrs)
                 \/ sendAll(c, kind, batch, attrs)
  \/ \E c \in Callers : CallStep(c)
  \/ BrokerStep /\ UNCHANGED routerVars
  \/ LinkBreaks /\ UNCHANGED routerVars

Spec == Init /\ [][Next]_vars

\* A thread inside send is scheduled and the broker reads what it is sent.
Fairness ==
  /\ \A c \in Callers : WF_vars(CallStep(c))
  /\ WF_vars(BrokerStep /\ UNCHANGED routerVars)

FairSpec == Spec /\ Fairness

------------------------------------------------------------------------------
(* Properties. *)

\* The contents that the broker has accepted of publication n.
Accepted(n) == {i \in DOMAIN processed : processed[i] = Content(n)}

\* The publications that call k has made.
PublicationsOf(k) == {sent[k][a] : a \in DOMAIN calls[k].targets} \ {0}

\* A call that returned normally reaches each of its queues exactly once with
\* the batch chosen for it, and no other queue.  This needs the connection to
\* be alive once all is read and calls never to have overlapped.
OkMeansDelivered ==
  (~overlapped /\ link = "up" /\ channel = "open" /\ wire = <<>>) =>
    \A k \in DOMAIN calls : ended[k] = "ok" =>
      /\ DOMAIN calls[k].targets # {}
      /\ \A a \in DOMAIN calls[k].targets :
           LET n == sent[k][a] IN
           /\ n \in DOMAIN published
           /\ published[n] = PublicationOf(calls[k].kind, a, calls[k].targets[a])
           /\ Cardinality(Accepted(n)) = 1

\* A call that threw either published nothing or stopped at a publication that
\* failed, the only one of its publications that did, and the broker never gets
\* that one.  (sendAll may have reached other queues: whoever sends the batch
\* again sends it to those twice.)
ThrewMeansIncomplete ==
  ~overlapped =>
    \A k \in DOMAIN calls : ended[k] = "threw" =>
      LET made == {n \in PublicationsOf(k) : outcome[n] # "ok"} IN
      \/ PublicationsOf(k) = {}
      \/ \E n \in PublicationsOf(k) :
            made = {n} /\ outcome[n] = "failed" /\ Accepted(n) = {}

\* Whatever the broker accepted was asked for: each content belongs to one queue
\* of one call, and the broker holds it once.
NothingStray ==
  ~overlapped =>
    \A i \in DOMAIN processed :
      Cardinality({k \in DOMAIN calls :
                     \E n \in PublicationsOf(k) : Accepted(n) = {i}}) = 1

\* Calls that do not overlap in time are not interleaved at the broker: of two
\* calls of one caller, all that the first published is there before anything of
\* the second, though each walks its queues in the order of a hash map.
CallsInOrder ==
  ~overlapped =>
    \A j, k \in DOMAIN calls :
      (j < k /\ calls[j].caller = calls[k].caller) =>
        \A m \in PublicationsOf(j), n \in PublicationsOf(k) :
          Accepted(n) # {} => Accepted(m) # {} /\ \A x \in Accepted(m), y \in Accepted(n) : x < y

\* The exception of a publication is final for all routers and threads of the
\* factory, since they share the connection and nothing makes it anew: no call
\* publishes anything later that returns normally or reaches the broker.  So an
\* application that catches the exception and goes on leaves no hole in what its
\* consumers get of its publications.
FailureIsFinal ==
  ~overlapped =>
    \A j, k \in DOMAIN calls : \A m \in PublicationsOf(j), n \in PublicationsOf(k) :
      (outcome[m] = "failed" /\ m < n) =>
        outcome[n] # "ok" /\ Accepted(n) = {} /\ ended[k] # "ok"

\* A queue whose attributes name one kind of message holds one type of batch,
\* whatever mixture of routers shares the configuration, as long as callers
\* leave the choice of the queue to the router or add to the attributes that it
\* requires.  (The type is not on the wire, and attributes passed to send and
\* sendAll replace the router's own: a caller that leaves one of those out can
\* put anything into any queue.)
OneTypePerQueue ==
  \A a \in Aliases :
    Cardinality(queues[a].attributes \cap {"parsed", "raw", "event"}) = 1 =>
      Cardinality({published[sent[k][a]].payload.type :
                     k \in {k \in DOMAIN calls :
                              /\ required_send_attributes(calls[k].kind) \subseteq calls[k].attrs
                              /\ a \in DOMAIN calls[k].targets
                              /\ sent[k][a] # 0}}) <= 1

\* The comment in filter() says that an alias takes a message if it has no
\* filters or they verify it; no other message is to be published to it.  Here
\* the filters of a document are the set of the messages that they verify.
FiltersRespected ==
  \A k \in DOMAIN calls : calls[k].kind # "event" =>
    \A a \in DOMAIN calls[k].targets : \A i \in DOMAIN calls[k].targets[a] :
      \/ sent[k][a] = 0
      \/ Documents[a].filters = {}
      \/ calls[k].targets[a][i] \in Documents[a].filters

\* A call of send or sendAll always ends, in a return or in an exception.
CallReturns == \A c \in Callers : current[c] # 0 ~> current[c] = 0

==============================================================================
