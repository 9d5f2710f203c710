--------------------------- MODULE DefaultInstances ---------------------------
(***************************************************************************)
(* How the default instances of the message classes come to be: an accessor*)
(* of a null pointer returns one, so all that can be reached must be there *)
(* before the first object of a class is used, although no thread was asked*)
(* to prepare it and several may make their first object at once.          *)
(*                                                                         *)
(* common.pb.cc puts classes whose members name each other in one          *)
(* component (SCCInfo), with the components it depends on; every           *)
(* constructor calls InitSCC.  InitSCC itself is the protobuf library's:   *)
(* one lock, under which the thread that holds it visits a component after *)
(* those it depends on.                                                    *)
(***************************************************************************)
EXTENDS CommonMessages

CONSTANTS
  Threads,
  MaxObjects    \* bound: objects that a thread makes

ASSUME InstancesAssumption == MaxObjects \in Nat

Scc(deps, instances) == [deps |-> deps, instances |-> instances]

scc_info_AnyMessage == Scc(<<"ListValue", "RawMessage">>, <<"AnyMessage">>)
scc_info_Checkpoint == Scc(<<"SessionAliasToDirectionCheckpointEntry">>, <<"Checkpoint">>)
scc_info_DirectionCheckpoint == Scc(<<"DirectionToSequenceEntry">>, <<"DirectionCheckpoint">>)
scc_info_DirectionToSequenceEntry == Scc(<<>>, <<"DirectionToSequenceEntry">>)
scc_info_SessionAliasToDirectionCheckpointEntry ==
  Scc(<<"DirectionCheckpoint">>, <<"SessionAliasToDirectionCheckpointEntry">>)
scc_info_ComparisonSettings == Scc(<<>>, <<"ComparisonSettings">>)
scc_info_ConnectionID == Scc(<<>>, <<"ConnectionID">>)
scc_info_Event == Scc(<<"EventID", "Timestamp", "MessageID">>, <<"Event">>)
scc_info_EventBatch == Scc(<<"EventID", "Event">>, <<"EventBatch">>)
scc_info_EventID == Scc(<<>>, <<"EventID">>)
scc_info_ListValue == Scc(<<"EventID", "MessageMetadata">>,
                          <<"Value", "ListValue", "Message_FieldsEntry", "Message">>)
scc_info_ListValueFilter == Scc(<<"ComparisonSettings">>,
  <<"ValueFilter", "ListValueFilter", "MessageFilter_FieldsEntry", "MessageFilter">>)
scc_info_MessageBatch == Scc(<<"ListValue">>, <<"MessageBatch">>)
scc_info_MessageGroup == Scc(<<"AnyMessage">>, <<"MessageGroup">>)
scc_info_MessageGroupBatch == Scc(<<"MessageGroup">>, <<"MessageGroupBatch">>)
scc_info_MessageID == Scc(<<"ConnectionID">>, <<"MessageID">>)
scc_info_MessageMetadata == Scc(<<"MessageID", "Timestamp", "MessageMetadata_PropertiesEntry">>,
                                <<"MessageMetadata">>)
scc_info_MessageMetadata_PropertiesEntry == Scc(<<>>, <<"MessageMetadata_PropertiesEntry">>)
scc_info_RawMessage == Scc(<<"RawMessageMetadata">>, <<"RawMessage">>)
scc_info_RawMessageBatch == Scc(<<"RawMessage">>, <<"RawMessageBatch">>)
scc_info_RawMessageMetadata ==
  Scc(<<"MessageID", "Timestamp", "RawMessageMetadata_PropertiesEntry">>, <<"RawMessageMetadata">>)
scc_info_RawMessageMetadata_PropertiesEntry == Scc(<<>>, <<"RawMessageMetadata_PropertiesEntry">>)
scc_info_RequestStatus == Scc(<<>>, <<"RequestStatus">>)
scc_info_Timestamp == Scc(<<>>, <<"Timestamp">>)

scc_info == [
  AnyMessage |-> scc_info_AnyMessage, Checkpoint |-> scc_info_Checkpoint,
  DirectionCheckpoint |-> scc_info_DirectionCheckpoint,
  DirectionToSequenceEntry |-> scc_info_DirectionToSequenceEntry,
  SessionAliasToDirectionCheckpointEntry |-> scc_info_SessionAliasToDirectionCheckpointEntry,
  ComparisonSettings |-> scc_info_ComparisonSettings, ConnectionID |-> scc_info_ConnectionID,
  Event |-> scc_info_Event, EventBatch |-> scc_info_EventBatch, EventID |-> scc_info_EventID,
  ListValue |-> scc_info_ListValue, ListValueFilter |-> scc_info_ListValueFilter,
  MessageBatch |-> scc_info_MessageBatch, MessageGroup |-> scc_info_MessageGroup,
  MessageGroupBatch |-> scc_info_MessageGroupBatch, MessageID |-> scc_info_MessageID,
  MessageMetadata |-> scc_info_MessageMetadata,
  MessageMetadata_PropertiesEntry |-> scc_info_MessageMetadata_PropertiesEntry,
  RawMessage |-> scc_info_RawMessage, RawMessageBatch |-> scc_info_RawMessageBatch,
  RawMessageMetadata |-> scc_info_RawMessageMetadata,
  RawMessageMetadata_PropertiesEntry |-> scc_info_RawMessageMetadata_PropertiesEntry,
  RequestStatus |-> scc_info_RequestStatus, Timestamp |-> scc_info_Timestamp]

Sccs == DOMAIN scc_info
deps(s) == scc_info[s].deps
instances(s) == scc_info[s].instances
Instances == UNION {{instances(s)[i] : i \in DOMAIN instances(s)} : s \in Sccs}

\* The component that the constructor of a class initializes: its SharedCtor.
scc_of == [c \in Instances |->
             CHOOSE s \in Sccs : \E i \in DOMAIN instances(s) : instances(s)[i] = c]

VARIABLES
  status,        \* of a component: "uninitialized", "running", "initialized"
  constructed,   \* how often the default instance of a class was constructed
  mutex,         \* the thread inside InitSCC_DFS: a set of at most one
  visiting,      \* per thread, the components it visits, the innermost last:
                 \* each with what it has done of deps and instances
  wants,         \* per thread, the class whose constructor it is in, or "none"
  objects        \* per thread, the classes of the objects it has made

vars == <<status, constructed, mutex, visiting, wants, objects>>

Init ==
  /\ status = [s \in Sccs |-> "uninitialized"]
  /\ constructed = [c \in Instances |-> 0]
  /\ mutex = {}
  /\ visiting = [t \in Threads |-> <<>>]
  /\ wants = [t \in Threads |-> "none"]
  /\ objects = [t \in Threads |-> <<>>]

------------------------------------------------------------------------------
Frame(s) == [scc |-> s, done |-> 0]
inner(t) == visiting[t][Len(visiting[t])]
Replaced(t, frame) == [visiting[t] EXCEPT ![Len(visiting[t])] = frame]
Further(t) == Replaced(t, [inner(t) EXCEPT !.done = @ + 1])

\* A constructor begins, and looks at the status without the lock.
\* (Mutant: a component that another thread is still at will do.)
is_ready_Running(s) == status[s] # "uninitialized"
is_ready(s) == status[s] = "initialized"

begins(t, c) ==
  /\ wants[t] = "none"
  /\ Len(objects[t]) < MaxObjects
  /\ wants' = [wants EXCEPT ![t] = c]
  /\ UNCHANGED <<status, constructed, mutex, visiting, objects>>

\* The component is ready: the constructor goes on and there is an object.
finishes(t) ==
  /\ wants[t] # "none" /\ visiting[t] = <<>> /\ t \notin mutex
  /\ is_ready(scc_of[wants[t]])
  /\ objects' = [objects EXCEPT ![t] = Append(@, wants[t])]
  /\ wants' = [wants EXCEPT ![t] = "none"]
  /\ UNCHANGED <<status, constructed, mutex, visiting>>

\* It is not: InitSCCImpl takes the lock and looks again.
visits(s) == status[s] = "uninitialized"

locks(t) ==
  /\ wants[t] # "none" /\ visiting[t] = <<>>
  /\ ~is_ready(scc_of[wants[t]])
  /\ mutex = {}
  /\ mutex' = {t}
  /\ IF visits(scc_of[wants[t]])
     THEN /\ visiting' = [visiting EXCEPT ![t] = <<Frame(scc_of[wants[t]])>>]
          /\ status' = [status EXCEPT ![scc_of[wants[t]]] = "running"]
     ELSE UNCHANGED <<visiting, status>>
  /\ UNCHANGED <<constructed, wants, objects>>

\* The next of the components that the innermost depends on.
visits_dependency(t) ==
  /\ visiting[t] # <<>>
  /\ inner(t).done < Len(deps(inner(t).scc))
  /\ LET s == deps(inner(t).scc)[inner(t).done + 1]
     IN IF visits(s)
        THEN /\ visiting' = [visiting EXCEPT ![t] = Append(Further(t), Frame(s))]
             /\ status' = [status EXCEPT ![s] = "running"]
        ELSE /\ visiting' = [visiting EXCEPT ![t] = Further(t)]
             /\ UNCHANGED status
  /\ UNCHANGED <<constructed, mutex, wants, objects>>

\* The constructor of a default instance calls InitSCC in its turn: for the thread
\* that holds the lock this returns at once.  (Mutant: it waits for the lock.)
reenters_Waits(t) == t \notin mutex
reenters(t) == t \in mutex

\* The next default instance: InitDefaultsscc_info_.
constructs(t) ==
  /\ visiting[t] # <<>>
  /\ LET n == inner(t).done - Len(deps(inner(t).scc)) + 1
     IN /\ n \in DOMAIN instances(inner(t).scc)
        /\ reenters(t)
        /\ constructed' = [constructed EXCEPT ![instances(inner(t).scc)[n]] = @ + 1]
  /\ visiting' = [visiting EXCEPT ![t] = Further(t)]
  /\ UNCHANGED <<status, mutex, wants, objects>>

\* All are constructed and, by InitAsDefaultInstance, point to those of the others.
leaves(t) ==
  /\ visiting[t] # <<>>
  /\ inner(t).done = Len(deps(inner(t).scc)) + Len(instances(inner(t).scc))
  /\ status' = [status EXCEPT ![inner(t).scc] = "initialized"]
  /\ visiting' = [visiting EXCEPT ![t] = SubSeq(@, 1, Len(@) - 1)]
  /\ UNCHANGED <<constructed, mutex, wants, objects>>

unlocks(t) ==
  /\ t \in mutex /\ visiting[t] = <<>>
  /\ mutex' = {}
  /\ UNCHANGED <<status, constructed, visiting, wants, objects>>

Step(t) ==
  finishes(t) \/ locks(t) \/ visits_dependency(t) \/ constructs(t) \/ leaves(t) \/ unlocks(t)

Next == \E t \in Threads : Step(t) \/ \E c \in Classes : begins(t, c)

\* Threads are scheduled, and the lock is granted to each that waits in the end.
Fairness == \A t \in Threads : WF_vars(Step(t)) /\ SF_vars(locks(t))

Spec == Init /\ [][Next]_vars /\ Fairness

------------------------------------------------------------------------------
\* The classes whose default instance an accessor of c may return: of its pointers
\* and of the objects of its oneof.
Pointees(c) ==
  IF c \notin Classes THEN {}
  ELSE {Cells[c][f].of : f \in {g \in DOMAIN Cells[c] : Cells[c][g].cell = "pointer"}}
       \cup UNION {{Cells[c][f].of[k].of : k \in {j \in DOMAIN Cells[c][f].of : Cells[c][f].of[j].cell = "object"}} :
                   f \in {g \in DOMAIN Cells[c] : Cells[c][g].cell = "choice"}}

\* Whoever has an object of a class has the default instances of that class and of
\* all that can be reached from it by accessors: those of an initialized component
\* point only into itself and into initialized components.  None of them is ever
\* constructed again, whichever threads come first: that would be over an object
\* that others read.
ReachableDefaults ==
  /\ \A t \in Threads : \A i \in DOMAIN objects[t] : status[scc_of[objects[t][i]]] = "initialized"
  /\ \A s \in Sccs : status[s] = "initialized" =>
       \A i \in DOMAIN instances(s) :
         /\ constructed[instances(s)[i]] = 1
         /\ \A c \in Pointees(instances(s)[i]) : status[scc_of[c]] = "initialized"

\* No thread is left in a constructor: components do not wait for each other and a
\* thread does not wait for itself.
ConstructorEnds == \A t \in Threads : wants[t] # "none" ~> wants[t] = "none"
==============================================================================
