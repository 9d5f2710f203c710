----------------------- MODULE DefaultInstances_proofs -----------------------
(***************************************************************************)
(* For any number of threads that each make any number of objects: the     *)
(* default instances that can be reached are there.  The tables of the     *)
(* components are read first (no component depends on itself through       *)
(* others; what a class points to is of its component or of one that this  *)
(* depends on); the rest is about InitSCC and follows from these facts.    *)
(***************************************************************************)
EXTENDS DefaultInstances, SequenceTheorems, TLAPS

\* How far a component is from those that depend on nothing.
Rank == [
  AnyMessage |-> 4, Checkpoint |-> 3, DirectionCheckpoint |-> 1, DirectionToSequenceEntry |-> 0,
  SessionAliasToDirectionCheckpointEntry |-> 2, ComparisonSettings |-> 0, ConnectionID |-> 0,
  Event |-> 2, EventBatch |-> 3, EventID |-> 0, ListValue |-> 3, ListValueFilter |-> 1,
  MessageBatch |-> 4, MessageGroup |-> 5, MessageGroupBatch |-> 6, MessageID |-> 1,
  MessageMetadata |-> 2, MessageMetadata_PropertiesEntry |-> 0, RawMessage |-> 3,
  RawMessageBatch |-> 4, RawMessageMetadata |-> 2, RawMessageMetadata_PropertiesEntry |-> 0,
  RequestStatus |-> 0, Timestamp |-> 0]

\* The component of every class.
Home == [AnyMessage |-> "AnyMessage", Checkpoint |-> "Checkpoint", DirectionCheckpoint
  |-> "DirectionCheckpoint", DirectionToSequenceEntry |-> "DirectionToSequenceEntry",
  SessionAliasToDirectionCheckpointEntry |-> "SessionAliasToDirectionCheckpointEntry",
  ComparisonSettings |-> "ComparisonSettings", ConnectionID |-> "ConnectionID", Event
  |-> "Event", EventBatch |-> "EventBatch", EventID |-> "EventID", Value |->
  "ListValue", ListValue |-> "ListValue", Message_FieldsEntry |-> "ListValue", Message
  |-> "ListValue", ValueFilter |-> "ListValueFilter", ListValueFilter |->
  "ListValueFilter", MessageFilter_FieldsEntry |-> "ListValueFilter", MessageFilter |->
  "ListValueFilter", MessageBatch |-> "MessageBatch", MessageGroup |-> "MessageGroup",
  MessageGroupBatch |-> "MessageGroupBatch", MessageID |-> "MessageID", MessageMetadata
  |-> "MessageMetadata", MessageMetadata_PropertiesEntry |->
  "MessageMetadata_PropertiesEntry", RawMessage |-> "RawMessage", RawMessageBatch |->
  "RawMessageBatch", RawMessageMetadata |-> "RawMessageMetadata",
  RawMessageMetadata_PropertiesEntry |-> "RawMessageMetadata_PropertiesEntry",
  RequestStatus |-> "RequestStatus", Timestamp |-> "Timestamp"]

\* The tables of common.pb.cc, read back.
LEMMA TheSccs ==
  Sccs = {"AnyMessage", "Checkpoint", "DirectionCheckpoint", "DirectionToSequenceEntry",
          "SessionAliasToDirectionCheckpointEntry", "ComparisonSettings",
          "ConnectionID", "Event", "EventBatch", "EventID", "ListValue",
          "ListValueFilter", "MessageBatch", "MessageGroup", "MessageGroupBatch",
          "MessageID", "MessageMetadata", "MessageMetadata_PropertiesEntry",
          "RawMessage", "RawMessageBatch", "RawMessageMetadata",
          "RawMessageMetadata_PropertiesEntry", "RequestStatus", "Timestamp"}
BY DEF Sccs, scc_info

LEMMA TheDeps ==
  /\ deps("AnyMessage") = <<"ListValue", "RawMessage">>
  /\ deps("Checkpoint") = <<"SessionAliasToDirectionCheckpointEntry">>
  /\ deps("DirectionCheckpoint") = <<"DirectionToSequenceEntry">>
  /\ deps("DirectionToSequenceEntry") = <<>>
  /\ deps("SessionAliasToDirectionCheckpointEntry") = <<"DirectionCheckpoint">>
  /\ deps("ComparisonSettings") = <<>>
  /\ deps("ConnectionID") = <<>>
  /\ deps("Event") = <<"EventID", "Timestamp", "MessageID">>
  /\ deps("EventBatch") = <<"EventID", "Event">>
  /\ deps("EventID") = <<>>
  /\ deps("ListValue") = <<"EventID", "MessageMetadata">>
  /\ deps("ListValueFilter") = <<"ComparisonSettings">>
  /\ deps("MessageBatch") = <<"ListValue">>
  /\ deps("MessageGroup") = <<"AnyMessage">>
  /\ deps("MessageGroupBatch") = <<"MessageGroup">>
  /\ deps("MessageID") = <<"ConnectionID">>
  /\ deps("MessageMetadata") = <<"MessageID", "Timestamp", "MessageMetadata_PropertiesEntry">>
  /\ deps("MessageMetadata_PropertiesEntry") = <<>>
  /\ deps("RawMessage") = <<"RawMessageMetadata">>
  /\ deps("RawMessageBatch") = <<"RawMessage">>
  /\ deps("RawMessageMetadata") = <<"MessageID", "Timestamp", "RawMessageMetadata_PropertiesEntry">>
  /\ deps("RawMessageMetadata_PropertiesEntry") = <<>>
  /\ deps("RequestStatus") = <<>>
  /\ deps("Timestamp") = <<>>
BY DEF deps, Scc, scc_info, scc_info_AnyMessage, scc_info_Checkpoint,
   scc_info_DirectionCheckpoint, scc_info_DirectionToSequenceEntry,
   scc_info_SessionAliasToDirectionCheckpointEntry, scc_info_ComparisonSettings,
   scc_info_ConnectionID, scc_info_Event, scc_info_EventBatch, scc_info_EventID,
   scc_info_ListValue, scc_info_ListValueFilter, scc_info_MessageBatch,
   scc_info_MessageGroup, scc_info_MessageGroupBatch, scc_info_MessageID,
   scc_info_MessageMetadata, scc_info_MessageMetadata_PropertiesEntry,
   scc_info_RawMessage, scc_info_RawMessageBatch, scc_info_RawMessageMetadata,
   scc_info_RawMessageMetadata_PropertiesEntry, scc_info_RequestStatus,
   scc_info_Timestamp

LEMMA TheInstances ==
  /\ instances("AnyMessage") = <<"AnyMessage">>
  /\ instances("Checkpoint") = <<"Checkpoint">>
  /\ instances("DirectionCheckpoint") = <<"DirectionCheckpoint">>
  /\ instances("DirectionToSequenceEntry") = <<"DirectionToSequenceEntry">>
  /\ instances("SessionAliasToDirectionCheckpointEntry") =
        <<"SessionAliasToDirectionCheckpointEntry">>
  /\ instances("ComparisonSettings") = <<"ComparisonSettings">>
  /\ instances("ConnectionID") = <<"ConnectionID">>
  /\ instances("Event") = <<"Event">>
  /\ instances("EventBatch") = <<"EventBatch">>
  /\ instances("EventID") = <<"EventID">>
  /\ instances("ListValue") = <<"Value", "ListValue", "Message_FieldsEntry", "Message">>
  /\ instances("ListValueFilter") = <<"ValueFilter", "ListValueFilter",
        "MessageFilter_FieldsEntry", "MessageFilter">>
  /\ instances("MessageBatch") = <<"MessageBatch">>
  /\ instances("MessageGroup") = <<"MessageGroup">>
  /\ instances("MessageGroupBatch") = <<"MessageGroupBatch">>
  /\ instances("MessageID") = <<"MessageID">>
  /\ instances("MessageMetadata") = <<"MessageMetadata">>
  /\ instances("MessageMetadata_PropertiesEntry") =
        <<"MessageMetadata_PropertiesEntry">>
  /\ instances("RawMessage") = <<"RawMessage">>
  /\ instances("RawMessageBatch") = <<"RawMessageBatch">>
  /\ instances("RawMessageMetadata") = <<"RawMessageMetadata">>
  /\ instances("RawMessageMetadata_PropertiesEntry") =
        <<"RawMessageMetadata_PropertiesEntry">>
  /\ instances("RequestStatus") = <<"RequestStatus">>
  /\ instances("Timestamp") = <<"Timestamp">>
BY DEF instances, Scc, scc_info, scc_info_AnyMessage, scc_info_Checkpoint,
   scc_info_DirectionCheckpoint, scc_info_DirectionToSequenceEntry,
   scc_info_SessionAliasToDirectionCheckpointEntry, scc_info_ComparisonSettings,
   scc_info_ConnectionID, scc_info_Event, scc_info_EventBatch, scc_info_EventID,
   scc_info_ListValue, scc_info_ListValueFilter, scc_info_MessageBatch,
   scc_info_MessageGroup, scc_info_MessageGroupBatch, scc_info_MessageID,
   scc_info_MessageMetadata, scc_info_MessageMetadata_PropertiesEntry,
   scc_info_RawMessage, scc_info_RawMessageBatch, scc_info_RawMessageMetadata,
   scc_info_RawMessageMetadata_PropertiesEntry, scc_info_RequestStatus,
   scc_info_Timestamp

LEMMA ThePointees ==
  /\ Pointees("ConnectionID") = {}
  /\ Pointees("MessageID") = {"ConnectionID"}
  /\ Pointees("MessageMetadata") = {"MessageID", "Timestamp"}
  /\ Pointees("RawMessageMetadata") = {"MessageID", "Timestamp"}
  /\ Pointees("Value") = {"Message", "ListValue"}
  /\ Pointees("ListValue") = {}
  /\ Pointees("Message") = {"MessageMetadata", "EventID"}
  /\ Pointees("RawMessage") = {"RawMessageMetadata"}
  /\ Pointees("AnyMessage") = {"Message", "RawMessage"}
  /\ Pointees("MessageGroup") = {}
  /\ Pointees("MessageBatch") = {}
  /\ Pointees("RawMessageBatch") = {}
  /\ Pointees("MessageGroupBatch") = {}
  /\ Pointees("RequestStatus") = {}
  /\ Pointees("ComparisonSettings") = {}
  /\ Pointees("ValueFilter") = {"MessageFilter", "ListValueFilter"}
  /\ Pointees("ListValueFilter") = {}
  /\ Pointees("MessageFilter") = {"ComparisonSettings"}
  /\ Pointees("DirectionCheckpoint") = {}
  /\ Pointees("Checkpoint") = {}
  /\ Pointees("EventID") = {}
  /\ Pointees("Event") = {"EventID", "Timestamp"}
  /\ Pointees("EventBatch") = {"EventID"}
  /\ Pointees("Timestamp") = {}
<1>1. Pointees("ConnectionID") = {}
  BY DEF Pointees, Classes, Cells, ConnectionID, Text, Number, Unsigned, Flag, Object, Pointer, Repeated, MapTo, Choice
<1>2. Pointees("MessageID") = {"ConnectionID"}
  BY DEF Pointees, Classes, Cells, MessageID, Text, Number, Unsigned, Flag, Object, Pointer, Repeated, MapTo, Choice
<1>3. Pointees("MessageMetadata") = {"MessageID", "Timestamp"}
  BY DEF Pointees, Classes, Cells, MessageMetadata, Text, Number, Unsigned, Flag, Object, Pointer, Repeated, MapTo, Choice
<1>4. Pointees("RawMessageMetadata") = {"MessageID", "Timestamp"}
  BY DEF Pointees, Classes, Cells, RawMessageMetadata, Text, Number, Unsigned, Flag, Object, Pointer, Repeated, MapTo, Choice
<1>5. Pointees("Value") = {"Message", "ListValue"}
  BY DEF Pointees, Classes, Cells, Value, Text, Number, Unsigned, Flag, Object, Pointer, Repeated, MapTo, Choice
<1>6. Pointees("ListValue") = {}
  BY DEF Pointees, Classes, Cells, ListValue, Text, Number, Unsigned, Flag, Object, Pointer, Repeated, MapTo, Choice
<1>7. Pointees("Message") = {"MessageMetadata", "EventID"}
  BY DEF Pointees, Classes, Cells, Message, Text, Number, Unsigned, Flag, Object, Pointer, Repeated, MapTo, Choice
<1>8. Pointees("RawMessage") = {"RawMessageMetadata"}
  BY DEF Pointees, Classes, Cells, RawMessage, Text, Number, Unsigned, Flag, Object, Pointer, Repeated, MapTo, Choice
<1>9. Pointees("AnyMessage") = {"Message", "RawMessage"}
  BY DEF Pointees, Classes, Cells, AnyMessage, Text, Number, Unsigned, Flag, Object, Pointer, Repeated, MapTo, Choice
<1>10. Pointees("MessageGroup") = {}
  BY DEF Pointees, Classes, Cells, MessageGroup, Text, Number, Unsigned, Flag, Object, Pointer, Repeated, MapTo, Choice
<1>11. Pointees("MessageBatch") = {}
  BY DEF Pointees, Classes, Cells, MessageBatch, Text, Number, Unsigned, Flag, Object, Pointer, Repeated, MapTo, Choice
<1>12. Pointees("RawMessageBatch") = {}
  BY DEF Pointees, Classes, Cells, RawMessageBatch, Text, Number, Unsigned, Flag, Object, Pointer, Repeated, MapTo, Choice
<1>13. Pointees("MessageGroupBatch") = {}
  BY DEF Pointees, Classes, Cells, MessageGroupBatch, Text, Number, Unsigned, Flag, Object, Pointer, Repeated, MapTo, Choice
<1>14. Pointees("RequestStatus") = {}
  BY DEF Pointees, Classes, Cells, RequestStatus, Text, Number, Unsigned, Flag, Object, Pointer, Repeated, MapTo, Choice
<1>15. Pointees("ComparisonSettings") = {}
  BY DEF Pointees, Classes, Cells, ComparisonSettings, Text, Number, Unsigned, Flag, Object, Pointer, Repeated, MapTo, Choice
<1>16. Pointees("ValueFilter") = {"MessageFilter", "ListValueFilter"}
  BY DEF Pointees, Classes, Cells, ValueFilter, Text, Number, Unsigned, Flag, Object, Pointer, Repeated, MapTo, Choice
<1>17. Pointees("ListValueFilter") = {}
  BY DEF Pointees, Classes, Cells, ListValueFilter, Text, Number, Unsigned, Flag, Object, Pointer, Repeated, MapTo, Choice
<1>18. Pointees("MessageFilter") = {"ComparisonSettings"}
  BY DEF Pointees, Classes, Cells, MessageFilter, Text, Number, Unsigned, Flag, Object, Pointer, Repeated, MapTo, Choice
<1>19. Pointees("DirectionCheckpoint") = {}
  BY DEF Pointees, Classes, Cells, DirectionCheckpoint, Text, Number, Unsigned, Flag, Object, Pointer, Repeated, MapTo, Choice
<1>20. Pointees("Checkpoint") = {}
  BY DEF Pointees, Classes, Cells, Checkpoint, Text, Number, Unsigned, Flag, Object, Pointer, Repeated, MapTo, Choice
<1>21. Pointees("EventID") = {}
  BY DEF Pointees, Classes, Cells, EventID, Text, Number, Unsigned, Flag, Object, Pointer, Repeated, MapTo, Choice
<1>22. Pointees("Event") = {"EventID", "Timestamp"}
  BY DEF Pointees, Classes, Cells, Event, Text, Number, Unsigned, Flag, Object, Pointer, Repeated, MapTo, Choice
<1>23. Pointees("EventBatch") = {"EventID"}
  BY DEF Pointees, Classes, Cells, EventBatch, Text, Number, Unsigned, Flag, Object, Pointer, Repeated, MapTo, Choice
<1>24. Pointees("Timestamp") = {}
  BY DEF Pointees, Classes, Cells, Timestamp, Text, Number, Unsigned, Flag, Object, Pointer, Repeated, MapTo, Choice
<1> QED
  BY <1>1, <1>2, <1>3, <1>4, <1>5, <1>6, <1>7, <1>8, <1>9, <1>10, <1>11, <1>12, <1>13,
     <1>14, <1>15, <1>16, <1>17, <1>18, <1>19, <1>20, <1>21, <1>22, <1>23, <1>24

LEMMA Tables ==
  ASSUME NEW s \in Sccs
  PROVE  /\ Len(deps(s)) \in Nat /\ DOMAIN deps(s) = 1 .. Len(deps(s))
         /\ Len(instances(s)) \in Nat /\ DOMAIN instances(s) = 1 .. Len(instances(s))
         /\ \A i \in DOMAIN deps(s) : deps(s)[i] \in Sccs
<1>1. Len(deps(s)) \in Nat /\ DOMAIN deps(s) = 1 .. Len(deps(s))
  BY TheSccs, TheDeps
<1>2. Len(instances(s)) \in Nat /\ DOMAIN instances(s) = 1 .. Len(instances(s))
  BY TheSccs, TheInstances
<1>3. \A i \in DOMAIN deps(s) : deps(s)[i] \in Sccs
  BY TheSccs, TheDeps
<1> QED
  BY <1>1, <1>2, <1>3

\* Components depend on one another without a cycle.
LEMMA Acyclic ==
  ASSUME NEW s \in Sccs
  PROVE  /\ Rank[s] \in Nat
         /\ \A i \in DOMAIN deps(s) : Rank[deps(s)[i]] < Rank[s]
BY TheSccs, TheDeps DEF Rank

\* A class is in one component, once.
LEMMA Homes ==
  ASSUME NEW s \in Sccs
  PROVE  /\ \A i \in DOMAIN instances(s) : Home[instances(s)[i]] = s
         /\ \A i, j \in DOMAIN instances(s) : instances(s)[i] = instances(s)[j] => i = j
<1>1. \A i \in DOMAIN instances(s) : Home[instances(s)[i]] = s
  BY TheSccs, TheInstances DEF Home
<1>2. \A i, j \in DOMAIN instances(s) : instances(s)[i] = instances(s)[j] => i = j
  BY TheSccs, TheInstances
<1> QED
  BY <1>1, <1>2

LEMMA OneHome ==
  ASSUME NEW c \in Instances
  PROVE  /\ scc_of[c] = Home[c] /\ scc_of[c] \in Sccs
         /\ \E i \in DOMAIN instances(scc_of[c]) : instances(scc_of[c])[i] = c
<1>1. \E s \in Sccs : \E i \in DOMAIN instances(s) : instances(s)[i] = c
  BY DEF Instances
<1>2. scc_of[c] = CHOOSE s \in Sccs : \E i \in DOMAIN instances(s) : instances(s)[i] = c
  BY DEF scc_of
<1>3. scc_of[c] \in Sccs /\ \E i \in DOMAIN instances(scc_of[c]) : instances(scc_of[c])[i] = c
  BY <1>1, <1>2
<1> QED
  BY <1>3, Homes

LEMMA InstancesOf ==
  ASSUME NEW s \in Sccs, NEW i \in DOMAIN instances(s)
  PROVE  instances(s)[i] \in Instances /\ scc_of[instances(s)[i]] = s
BY OneHome, Homes DEF Instances

LEMMA ClassesAreInstances == Classes \subseteq Instances /\ "none" \notin Classes
<1>1. ASSUME NEW c \in Classes
      PROVE  Home[c] \in Sccs /\ \E i \in DOMAIN instances(Home[c]) : instances(Home[c])[i] = c
  BY TheSccs, TheInstances, SMTT(30) DEF Home, Classes, Cells
<1>2. "none" \notin Classes
  BY DEF Classes, Cells
<1> QED
  BY <1>1, <1>2 DEF Instances

\* What the accessors of a class return is of its own component or of one that
\* this one depends on.
LEMMA PointeesNear ==
  ASSUME NEW s \in Sccs, NEW i \in DOMAIN instances(s), NEW c \in Pointees(instances(s)[i])
  PROVE  /\ scc_of[c] \in Sccs
         /\ scc_of[c] = s \/ \E j \in DOMAIN deps(s) : scc_of[c] = deps(s)[j]
<1>1. instances(s)[i] \in Classes
  BY DEF Pointees
<1>2. /\ c \in Classes
      /\ Home[c] = Home[instances(s)[i]] \/
         \E j \in DOMAIN deps(Home[instances(s)[i]]) : Home[c] = deps(Home[instances(s)[i]])[j]
  <2>1. \A d \in Classes : \A e \in Pointees(d) :
          e \in Classes /\ (Home[e] = Home[d] \/ \E j \in DOMAIN deps(Home[d]) : Home[e] = deps(Home[d])[j])
    BY ThePointees, TheDeps DEF Home, Classes, Cells
  <2> QED
    BY <1>1, <2>1
<1> QED
  BY <1>2, Homes, OneHome, ClassesAreInstances

------------------------------------------------------------------------------
(* InitSCC. *)

Frames == [scc : Sccs, done : Nat]

DITypes ==
  /\ status \in [Sccs -> {"uninitialized", "running", "initialized"}]
  /\ constructed \in [Instances -> Nat]
  /\ visiting \in [Threads -> Seq(Frames)]
  /\ wants \in [Threads -> Classes \cup {"none"}]
  /\ objects \in [Threads -> Seq(Classes)]

\* Only the thread that has the lock visits components.
Locked == \A t \in Threads : visiting[t] # <<>> => mutex = {t}

\* What has been done for a component that is visited.
Visited(frame) ==
  /\ frame.done <= Len(deps(frame.scc)) + Len(instances(frame.scc))
  /\ status[frame.scc] = "running"
  /\ \A i \in DOMAIN deps(frame.scc) : i <= frame.done => status[deps(frame.scc)[i]] # "uninitialized"
  /\ \A i \in DOMAIN instances(frame.scc) :
        constructed[instances(frame.scc)[i]] = IF Len(deps(frame.scc)) + i <= frame.done THEN 1 ELSE 0

\* Components are visited on the way down, and no others are running.
Visits ==
  /\ \A t \in Threads : \A k \in DOMAIN visiting[t] : Visited(visiting[t][k])
  /\ \A t \in Threads : \A j, k \in DOMAIN visiting[t] :
        j < k => Rank[visiting[t][k].scc] < Rank[visiting[t][j].scc]
  /\ \A s \in Sccs : status[s] = "running" =>
        \E t \in Threads : \E k \in DOMAIN visiting[t] : visiting[t][k].scc = s

Untouched ==
  \A s \in Sccs : status[s] = "uninitialized" =>
    \A i \in DOMAIN instances(s) : constructed[instances(s)[i]] = 0

DIInv == DITypes /\ Locked /\ Visits /\ Untouched /\ ReachableDefaults

LEMMA DIInvInit == Init => DIInv
<1> SUFFICES ASSUME Init PROVE DIInv
  OBVIOUS
<1>1. /\ \A t \in Threads : visiting[t] = <<>> /\ objects[t] = <<>>
      /\ DOMAIN <<>> = {} /\ \A S : <<>> \in Seq(S)
  BY EmptySeq DEF Init
<1>2. \A s \in Sccs : status[s] = "uninitialized"
  BY DEF Init
<1>3. DITypes
  BY <1>1 DEF Init, DITypes
<1>4. Locked /\ Visits
  BY <1>1, <1>2 DEF Locked, Visits
<1>5. Untouched
  BY InstancesOf DEF Init, Untouched
<1>6. ReachableDefaults
  BY <1>1, <1>2 DEF ReachableDefaults
<1> QED
  BY <1>3, <1>4, <1>5, <1>6 DEF DIInv

\* The innermost component of a thread that visits any, and the frame of it when
\* it has done one thing more.
LEMMA Innermost ==
  ASSUME DITypes, NEW t \in Threads, visiting[t] # <<>>
  PROVE  /\ Len(visiting[t]) \in Nat \ {0} /\ DOMAIN visiting[t] = 1 .. Len(visiting[t])
         /\ \A k \in DOMAIN visiting[t] : visiting[t][k] \in Frames
         /\ inner(t) \in Frames /\ inner(t) = visiting[t][Len(visiting[t])]
         /\ Further(t) \in Seq(Frames) /\ Len(Further(t)) = Len(visiting[t])
         /\ DOMAIN Further(t) = 1 .. Len(visiting[t])
         /\ \A k \in DOMAIN visiting[t] :
              Further(t)[k] = IF k = Len(visiting[t]) THEN [scc |-> inner(t).scc, done |-> inner(t).done + 1]
                              ELSE visiting[t][k]
<1>1. visiting[t] \in Seq(Frames)
  BY DEF DITypes
<1>2. Len(visiting[t]) \in Nat \ {0} /\ DOMAIN visiting[t] = 1 .. Len(visiting[t])
  BY <1>1, EmptySeq, LenProperties
<1>3. \A k \in DOMAIN visiting[t] : visiting[t][k] \in Frames
  BY <1>1, <1>2, ElementOfSeq
<1>4. inner(t) \in Frames /\ inner(t) = visiting[t][Len(visiting[t])]
  BY <1>2, <1>3 DEF inner
<1>5. PICK f \in Frames : f = [scc |-> inner(t).scc, done |-> inner(t).done + 1]
  <2>1. inner(t).scc \in Sccs /\ inner(t).done + 1 \in Nat
    BY <1>4 DEF Frames
  <2>2. [scc |-> inner(t).scc, done |-> inner(t).done + 1] \in Frames
    BY <2>1 DEF Frames
  <2> QED
    BY <2>2
<1>6. Further(t) = [visiting[t] EXCEPT ![Len(visiting[t])] = f]
  BY <1>4, <1>5 DEF Further, Replaced, Frames
<1>7. /\ Further(t) \in Seq(Frames) /\ Len(Further(t)) = Len(visiting[t])
      /\ \A k \in DOMAIN visiting[t] : Further(t)[k] = IF k = Len(visiting[t]) THEN f ELSE visiting[t][k]
  BY <1>1, <1>2, <1>6, ExceptSeq
<1> QED
  BY <1>2, <1>3, <1>4, <1>5, <1>7, LenProperties

\* No other thread visits a component meanwhile.
LEMMA OthersWait ==
  ASSUME Locked, NEW t \in Threads, visiting[t] # <<>> \/ mutex = {}
  PROVE  \A u \in Threads : u # t => visiting[u] = <<>>
BY DEF Locked

\* When another component starts to be visited, what has been done stays done.
LEMMA ComponentStarts ==
  ASSUME DITypes, Untouched, ReachableDefaults,
         NEW s \in Sccs, status[s] = "uninitialized",
         status' = [status EXCEPT ![s] = "running"],
         UNCHANGED <<constructed, objects>>
  PROVE  /\ \A f \in Frames : Visited(f) => Visited(f)'
         /\ Visited(Frame(s))' /\ Frame(s) \in Frames
         /\ Untouched' /\ ReachableDefaults'
<1>1. /\ status'[s] = "running" /\ \A r \in Sccs : r # s => status'[r] = status[r]
      /\ constructed' = constructed /\ objects' = objects
  BY DEF DITypes
<1>2. ASSUME NEW f \in Frames, Visited(f) PROVE Visited(f)'
  <2>1. f.scc \in Sccs
    BY DEF Frames
  <2>2. status'[f.scc] = "running"
    BY <1>1, <1>2, <2>1 DEF Visited
  <2>3. \A i \in DOMAIN deps(f.scc) : i <= f.done => status'[deps(f.scc)[i]] # "uninitialized"
    BY <1>1, <1>2, <2>1, Tables DEF Visited
  <2> QED
    BY <1>1, <1>2, <2>2, <2>3 DEF Visited
<1>3. Visited(Frame(s))' /\ Frame(s) \in Frames
  <2>1. Frame(s) \in Frames /\ Frame(s).scc = s /\ Frame(s).done = 0
    BY DEF Frames, Frame
  <2>2. \A i \in DOMAIN instances(s) : constructed'[instances(s)[i]] = 0
    BY <1>1 DEF Untouched
  <2> QED
    BY <1>1, <2>1, <2>2, Tables DEF Visited
<1>4. Untouched'
  BY <1>1 DEF Untouched
<1>5. ReachableDefaults'
  <2>1. \A r \in Sccs : status'[r] = "initialized" <=> status[r] = "initialized"
    BY <1>1
  <2>2. \A t \in Threads : \A i \in DOMAIN objects[t] : scc_of[objects[t][i]] \in Sccs
    BY ElementOfSeq, LenProperties, OneHome, ClassesAreInstances DEF DITypes
  <2>3. \A r \in Sccs : \A i \in DOMAIN instances(r) : \A c \in Pointees(instances(r)[i]) : scc_of[c] \in Sccs
    BY PointeesNear
  <2> QED
    BY <1>1, <2>1, <2>2, <2>3 DEF ReachableDefaults
<1> QED
  BY <1>2, <1>3, <1>4, <1>5

LEMMA DIInvLocks ==
  ASSUME DIInv, NEW t \in Threads, locks(t)
  PROVE  DIInv'
<1>1. PICK s \in Sccs : s = scc_of[wants[t]]
  BY OneHome, ClassesAreInstances DEF locks, DIInv, DITypes
<1>2. \A u \in Threads : visiting[u] = <<>>
  BY OthersWait DEF locks, DIInv
<1>3. CASE ~visits(s)
  <2>1. /\ UNCHANGED <<status, constructed, visiting, wants, objects>>
    BY <1>1, <1>3 DEF locks
  <2> QED
    BY <1>2, <2>1 DEF DIInv, DITypes, Locked, Visits, Visited, Untouched, ReachableDefaults
<1>4. CASE visits(s)
  <2>1. /\ mutex' = {t} /\ visiting' = [visiting EXCEPT ![t] = <<Frame(s)>>]
        /\ status[s] = "uninitialized" /\ status' = [status EXCEPT ![s] = "running"]
        /\ UNCHANGED <<constructed, wants, objects>>
    BY <1>1, <1>4 DEF locks, visits
  <2>2. /\ Visited(Frame(s))' /\ Frame(s) \in Frames /\ Untouched' /\ ReachableDefaults'
    BY <2>1, ComponentStarts DEF DIInv
  <2>3. /\ visiting'[t] = <<Frame(s)>> /\ \A u \in Threads : u # t => visiting'[u] = <<>>
        /\ DOMAIN <<Frame(s)>> = {1} /\ DOMAIN <<>> = {} /\ <<Frame(s)>>[1] = Frame(s)
    BY <1>2, <2>1 DEF DIInv, DITypes
  <2>4. DITypes'
    BY <2>1, <2>2 DEF DIInv, DITypes
  <2>5. Locked'
    BY <2>1, <2>3 DEF Locked
  <2>6. Visits'
    <3>1. \A r \in Sccs : status'[r] = "running" => r = s
      BY <1>2, <2>1 DEF DIInv, DITypes, Visits
    <3> QED
      BY <2>2, <2>3, <3>1 DEF Visits, Frame
  <2> QED
    BY <2>2, <2>4, <2>5, <2>6 DEF DIInv
<1> QED
  BY <1>3, <1>4

\* What is left to show of a step by the thread that visits components.
LEMMA VisitsAfter ==
  ASSUME DIInv, NEW t \in Threads, visiting[t] # <<>>,
         NEW stack \in Seq(Frames), visiting' = [visiting EXCEPT ![t] = stack],
         \A k \in DOMAIN stack : Visited(stack[k])',
         \A j, k \in DOMAIN stack : j < k => Rank[stack[k].scc] < Rank[stack[j].scc],
         \A s \in Sccs : status'[s] = "running" => \E k \in DOMAIN stack : stack[k].scc = s,
         mutex' = mutex
  PROVE  visiting' \in [Threads -> Seq(Frames)] /\ Locked' /\ Visits'
<1>1. visiting'[t] = stack /\ \A u \in Threads : u # t => visiting'[u] = <<>>
  BY OthersWait DEF DIInv, DITypes
<1>2. visiting' \in [Threads -> Seq(Frames)]
  BY DEF DIInv, DITypes
<1>3. Locked'
  BY <1>1 DEF DIInv, Locked
<1>4. Visits'
  BY <1>1, EmptySeq DEF Visits
<1> QED
  BY <1>2, <1>3, <1>4

\* The thread that visits s has all the components that are running above it, so
\* what s depends on is not among them.
LEMMA Above ==
  ASSUME DIInv, NEW t \in Threads, visiting[t] # <<>>
  PROVE  /\ Visited(inner(t))
         /\ \A k \in DOMAIN visiting[t] :
              k < Len(visiting[t]) => Rank[inner(t).scc] < Rank[visiting[t][k].scc]
         /\ \A s \in Sccs : status[s] = "running" =>
              \E k \in DOMAIN visiting[t] : visiting[t][k].scc = s
         /\ \A i \in DOMAIN deps(inner(t).scc) : status[deps(inner(t).scc)[i]] # "running"
<1> USE DEF DIInv
<1>1. /\ Len(visiting[t]) \in DOMAIN visiting[t] /\ DOMAIN visiting[t] = 1 .. Len(visiting[t])
      /\ inner(t) = visiting[t][Len(visiting[t])] /\ inner(t).scc \in Sccs
      /\ \A k \in DOMAIN visiting[t] : visiting[t][k].scc \in Sccs
  <2>1. /\ Len(visiting[t]) \in Nat \ {0} /\ DOMAIN visiting[t] = 1 .. Len(visiting[t])
        /\ inner(t) \in Frames /\ inner(t) = visiting[t][Len(visiting[t])]
        /\ \A k \in DOMAIN visiting[t] : visiting[t][k] \in Frames
    BY Innermost
  <2>2. \A g \in Frames : g.scc \in Sccs
    BY DEF Frames
  <2> QED
    BY <2>1, <2>2
<1>2. Visited(inner(t))
  BY <1>1 DEF Visits
<1>3. \A k \in DOMAIN visiting[t] : k < Len(visiting[t]) => Rank[inner(t).scc] < Rank[visiting[t][k].scc]
  BY <1>1 DEF Visits
<1>4. \A s \in Sccs : status[s] = "running" => \E k \in DOMAIN visiting[t] : visiting[t][k].scc = s
  BY OthersWait, EmptySeq DEF Visits
<1>5. ASSUME NEW i \in DOMAIN deps(inner(t).scc), status[deps(inner(t).scc)[i]] = "running"
      PROVE  FALSE
  <2>1. PICK s \in Sccs : s = deps(inner(t).scc)[i] /\ Rank[s] < Rank[inner(t).scc]
    BY <1>1, Tables, Acyclic
  <2>2. PICK k \in DOMAIN visiting[t] : visiting[t][k].scc = s
    BY <1>4, <1>5, <2>1
  <2>3. k = Len(visiting[t]) \/ Rank[inner(t).scc] < Rank[s]
    BY <1>1, <1>3, <2>2
  <2> QED
    BY <1>1, <2>1, <2>2, <2>3, Acyclic
<1> QED
  BY <1>2, <1>3, <1>4, <1>5

LEMMA DIInvVisitsDependency ==
  ASSUME DIInv, NEW t \in Threads, visits_dependency(t)
  PROVE  DIInv'
<1>1. /\ visiting[t] # <<>> /\ inner(t).done < Len(deps(inner(t).scc))
      /\ constructed' = constructed /\ mutex' = mutex /\ wants' = wants /\ objects' = objects
  BY DEF visits_dependency
<1>2. /\ inner(t).scc \in Sccs /\ inner(t).done \in Nat /\ inner(t) \in Frames
      /\ Visited(inner(t))
      /\ Len(deps(inner(t).scc)) \in Nat
      /\ DOMAIN deps(inner(t).scc) = 1 .. Len(deps(inner(t).scc))
      /\ Len(instances(inner(t).scc)) \in Nat
      /\ DOMAIN instances(inner(t).scc) = 1 .. Len(instances(inner(t).scc))
  <2>1. inner(t) \in Frames /\ Visited(inner(t))
    BY <1>1, Innermost, Above DEF DIInv
  <2>2. inner(t).scc \in Sccs /\ inner(t).done \in Nat
    BY <2>1 DEF Frames
  <2> QED
    BY <2>1, <2>2, Tables
<1>3. PICK s \in Sccs : /\ s = deps(inner(t).scc)[inner(t).done + 1]
                        /\ Rank[s] < Rank[inner(t).scc]
  BY <1>1, <1>2, Tables, Acyclic
<1>4. PICK f \in Frames : f = [scc |-> inner(t).scc, done |-> inner(t).done + 1]
  <2>1. [scc |-> inner(t).scc, done |-> inner(t).done + 1] \in Frames
    BY <1>2 DEF Frames
  <2> QED
    BY <2>1
<1>5. PICK further \in Seq(Frames) :
        /\ further = Further(t) /\ Len(further) = Len(visiting[t]) /\ Len(further) \in Nat \ {0}
        /\ DOMAIN further = 1 .. Len(further) /\ DOMAIN visiting[t] = 1 .. Len(further)
        /\ \A k \in DOMAIN further : further[k] = IF k = Len(further) THEN f ELSE visiting[t][k]
  BY <1>1, <1>4, Innermost DEF DIInv
\* The components of the frames are what they were.
<1>6. /\ \A k \in DOMAIN further : further[k].scc = visiting[t][k].scc /\ further[k].scc \in Sccs
      /\ further[Len(further)].scc = inner(t).scc
  BY <1>1, <1>4, <1>5, Innermost, SMTT(30) DEF DIInv, Frames
<1>7. /\ \A j, k \in DOMAIN further : j < k => Rank[further[k].scc] < Rank[further[j].scc]
      /\ \A r \in Sccs : status[r] = "running" => \E k \in DOMAIN further : further[k].scc = r
  BY <1>1, <1>5, <1>6, Above, SMTT(30) DEF DIInv, Visits
<1>8. /\ f.scc = inner(t).scc /\ f.done = inner(t).done + 1
      /\ f.done <= Len(deps(f.scc)) + Len(instances(f.scc))
      /\ \A i \in DOMAIN deps(f.scc) :
           i <= f.done => status[deps(f.scc)[i]] # "uninitialized" \/ deps(f.scc)[i] = s
      /\ \A i \in DOMAIN instances(f.scc) :
           constructed[instances(f.scc)[i]] = IF Len(deps(f.scc)) + i <= f.done THEN 1 ELSE 0
  <2>1. f.scc = inner(t).scc /\ f.done = inner(t).done + 1
    BY <1>4
  <2>2. f.done <= Len(deps(f.scc)) + Len(instances(f.scc))
    BY <1>1, <1>2, <2>1
  <2>3. ASSUME NEW i \in DOMAIN deps(f.scc), i <= f.done
        PROVE  status[deps(f.scc)[i]] # "uninitialized" \/ deps(f.scc)[i] = s
    <3>1. i <= inner(t).done \/ i = inner(t).done + 1
      BY <1>2, <2>1, <2>3
    <3> QED
      BY <1>2, <1>3, <2>1, <3>1 DEF Visited
  <2>4. ASSUME NEW i \in DOMAIN instances(f.scc)
        PROVE  constructed[instances(f.scc)[i]] = IF Len(deps(f.scc)) + i <= f.done THEN 1 ELSE 0
    <3>1. ~(Len(deps(f.scc)) + i <= f.done) /\ ~(Len(deps(f.scc)) + i <= inner(t).done)
      BY <1>1, <1>2, <2>1
    <3> QED
      BY <1>2, <2>1, <3>1 DEF Visited
  <2> QED
    BY <2>1, <2>2, <2>3, <2>4
<1>9. CASE ~visits(s)
  <2>1. visiting' = [visiting EXCEPT ![t] = further] /\ status' = status
    BY <1>3, <1>5, <1>9 DEF visits_dependency
  <2>2. \A k \in DOMAIN further : Visited(further[k])'
    <3>1. Visited(f)
      BY <1>2, <1>8, <1>9 DEF visits, Visited
    <3>2. \A k \in DOMAIN further : Visited(further[k])
      BY <1>5, <3>1 DEF DIInv, Visits
    <3> QED
      BY <1>1, <2>1, <3>2 DEF Visited
  <2>3. visiting' \in [Threads -> Seq(Frames)] /\ Locked' /\ Visits'
    BY <1>1, <1>7, <2>1, <2>2, VisitsAfter
  <2>4. DITypes' /\ Untouched' /\ ReachableDefaults'
    BY <1>1, <2>1, <2>3 DEF DIInv, DITypes, Untouched, ReachableDefaults
  <2> QED
    BY <2>3, <2>4 DEF DIInv
<1>10. CASE visits(s)
  <2>1. PICK stack \in Seq(Frames) :
          /\ stack = Append(further, Frame(s)) /\ Len(stack) = Len(further) + 1
          /\ DOMAIN stack = 1 .. Len(further) + 1
          /\ \A k \in DOMAIN further : stack[k] = further[k]
          /\ stack[Len(further) + 1] = Frame(s)
    <3>1. Frame(s) \in Frames
      BY DEF Frame, Frames
    <3>2. Append(further, Frame(s)) \in Seq(Frames)
      BY <3>1, AppendProperties
    <3>3. Len(Append(further, Frame(s))) = Len(further) + 1
      BY <3>1, AppendProperties
    <3>4. DOMAIN Append(further, Frame(s)) = 1 .. Len(further) + 1
      BY <3>2, <3>3, LenProperties
    <3>5. \A k \in DOMAIN further : Append(further, Frame(s))[k] = further[k]
      BY <1>5, <3>1, AppendProperties
    <3>6. Append(further, Frame(s))[Len(further) + 1] = Frame(s)
      BY <3>1, AppendProperties
    <3> QED
      BY <3>2, <3>3, <3>4, <3>5, <3>6
  <2>2. /\ visiting' = [visiting EXCEPT ![t] = stack]
        /\ status[s] = "uninitialized" /\ status' = [status EXCEPT ![s] = "running"]
    BY <1>3, <1>5, <1>10, <2>1 DEF visits_dependency, visits
  <2>3. /\ \A g \in Frames : Visited(g) => Visited(g)'
        /\ Visited(Frame(s))' /\ Untouched' /\ ReachableDefaults'
    BY <1>1, <2>2, ComponentStarts DEF DIInv
  <2>4. status'[s] = "running" /\ \A r \in Sccs : r # s => status'[r] = status[r]
    BY <2>2 DEF DIInv, DITypes
  <2>5. Visited(f)'
    <3>1. status'[f.scc] = "running"
      BY <1>2, <1>8, <2>4 DEF Visited
    <3>2. \A i \in DOMAIN deps(f.scc) : deps(f.scc)[i] \in Sccs
      BY <1>2, <1>8, Tables
    <3>3. \A i \in DOMAIN deps(f.scc) : i <= f.done => status'[deps(f.scc)[i]] # "uninitialized"
      BY <1>8, <2>4, <3>2
    <3> QED
      BY <1>1, <1>8, <3>1, <3>3 DEF Visited
  <2>6. \A k \in DOMAIN stack : Visited(stack[k])'
    <3>1. \A k \in DOMAIN further : k # Len(further) => visiting[t][k] \in Frames /\ Visited(visiting[t][k])
      BY <1>1, <1>5, Innermost DEF DIInv, Visits
    <3>2. \A k \in DOMAIN further : Visited(further[k])'
      BY <1>5, <2>3, <2>5, <3>1
    <3>3. \A k \in DOMAIN stack : (k \in DOMAIN further /\ stack[k] = further[k]) \/ stack[k] = Frame(s)
      BY <1>5, <2>1
    <3> QED
      BY <2>3, <3>2, <3>3
  <2>7. \A j, k \in DOMAIN stack : j < k => Rank[stack[k].scc] < Rank[stack[j].scc]
    <3>1. ASSUME NEW k \in DOMAIN further PROVE Rank[s] < Rank[further[k].scc]
      <4>1. /\ Rank[s] \in Nat /\ Rank[inner(t).scc] \in Nat /\ Rank[further[k].scc] \in Nat
        BY <1>2, <1>6, Acyclic
      <4>2. k = Len(further) \/ Rank[inner(t).scc] < Rank[further[k].scc]
        BY <1>5, <1>6, <1>7
      <4> QED
        BY <1>3, <1>6, <4>1, <4>2
    <3> QED
      BY <1>5, <1>7, <2>1, <3>1 DEF Frame
  <2>8. \A r \in Sccs : status'[r] = "running" => \E k \in DOMAIN stack : stack[k].scc = r
    BY <1>5, <1>7, <2>1, <2>4 DEF Frame
  <2>9. visiting' \in [Threads -> Seq(Frames)] /\ Locked' /\ Visits'
    BY <1>1, <2>2, <2>6, <2>7, <2>8, VisitsAfter
  <2>10. DITypes'
    BY <1>1, <2>2, <2>9 DEF DIInv, DITypes
  <2> QED
    BY <2>3, <2>9, <2>10 DEF DIInv
<1> QED
  BY <1>9, <1>10

LEMMA DIInvConstructs ==
  ASSUME DIInv, NEW t \in Threads, constructs(t)
  PROVE  DIInv'
<1>1. /\ visiting[t] # <<>> /\ status' = status
      /\ mutex' = mutex /\ wants' = wants /\ objects' = objects
  BY DEF constructs
<1>2. /\ inner(t).scc \in Sccs /\ inner(t).done \in Nat /\ inner(t) \in Frames
      /\ Visited(inner(t))
      /\ Len(deps(inner(t).scc)) \in Nat
      /\ DOMAIN deps(inner(t).scc) = 1 .. Len(deps(inner(t).scc))
      /\ Len(instances(inner(t).scc)) \in Nat
      /\ DOMAIN instances(inner(t).scc) = 1 .. Len(instances(inner(t).scc))
  <2>1. inner(t) \in Frames /\ Visited(inner(t))
    BY <1>1, Innermost, Above DEF DIInv
  <2>2. inner(t).scc \in Sccs /\ inner(t).done \in Nat
    BY <2>1 DEF Frames
  <2> QED
    BY <2>1, <2>2, Tables
<1>3. PICK n \in DOMAIN instances(inner(t).scc) :
        /\ n = inner(t).done - Len(deps(inner(t).scc)) + 1
        /\ constructed' = [constructed EXCEPT ![instances(inner(t).scc)[n]] = @ + 1]
        /\ visiting' = [visiting EXCEPT ![t] = Further(t)]
  BY DEF constructs
<1>4. inner(t).done + 1 = Len(deps(inner(t).scc)) + n
  BY <1>2, <1>3
<1>5. PICK f \in Frames : f = [scc |-> inner(t).scc, done |-> inner(t).done + 1]
  <2>1. [scc |-> inner(t).scc, done |-> inner(t).done + 1] \in Frames
    BY <1>2 DEF Frames
  <2> QED
    BY <2>1
<1>6. PICK further \in Seq(Frames) :
        /\ further = Further(t) /\ Len(further) = Len(visiting[t]) /\ Len(further) \in Nat \ {0}
        /\ DOMAIN further = 1 .. Len(further) /\ DOMAIN visiting[t] = 1 .. Len(further)
        /\ \A k \in DOMAIN further : further[k] = IF k = Len(further) THEN f ELSE visiting[t][k]
  BY <1>1, <1>5, Innermost DEF DIInv
<1>7. /\ \A k \in DOMAIN further : further[k].scc = visiting[t][k].scc /\ further[k].scc \in Sccs
      /\ further[Len(further)].scc = inner(t).scc
  <2>1. /\ f.scc = inner(t).scc /\ inner(t) = visiting[t][Len(visiting[t])]
        /\ \A k \in DOMAIN visiting[t] : visiting[t][k] \in Frames
    BY <1>1, <1>5, Innermost DEF DIInv
  <2>2. \A g \in Frames : g.scc \in Sccs
    BY DEF Frames
  <2> QED
    BY <1>6, <2>1, <2>2
<1>8. /\ \A j, k \in DOMAIN further : j < k => Rank[further[k].scc] < Rank[further[j].scc]
      /\ \A r \in Sccs : status[r] = "running" => \E k \in DOMAIN further : further[k].scc = r
  BY <1>1, <1>6, <1>7, Above, SMTT(30) DEF DIInv, Visits
\* Of the instances of other components nothing changes, nor of the others of this one.
<1>9. /\ \A r \in Sccs : r # inner(t).scc =>
           \A i \in DOMAIN instances(r) : constructed'[instances(r)[i]] = constructed[instances(r)[i]]
      /\ \A i \in DOMAIN instances(inner(t).scc) :
           constructed'[instances(inner(t).scc)[i]] =
             IF i = n THEN constructed[instances(inner(t).scc)[i]] + 1
             ELSE constructed[instances(inner(t).scc)[i]]
  <2>1. \A r \in Sccs : \A i \in DOMAIN instances(r) :
          /\ instances(r)[i] \in Instances
          /\ instances(r)[i] = instances(inner(t).scc)[n] => r = inner(t).scc /\ i = n
    BY <1>2, Homes, InstancesOf
  <2>2. \A c \in Instances : constructed'[c] = IF c = instances(inner(t).scc)[n] THEN constructed[c] + 1
                                              ELSE constructed[c]
    BY <1>3 DEF DIInv, DITypes
  <2> QED
    BY <1>2, <2>1, <2>2
<1>10. constructed' \in [Instances -> Nat]
  BY <1>2, <1>3, InstancesOf DEF DIInv, DITypes
<1>11. Visited(f)'
  <2>1. f.scc = inner(t).scc /\ f.done = Len(deps(inner(t).scc)) + n
    BY <1>4, <1>5
  <2>2. f.done <= Len(deps(f.scc)) + Len(instances(f.scc))
    BY <1>2, <2>1
  <2>3. \A i \in DOMAIN deps(f.scc) : status[deps(f.scc)[i]] # "uninitialized"
    <3>1. \A i \in DOMAIN deps(inner(t).scc) : i <= inner(t).done
      BY <1>2, <1>3, <1>4
    <3> QED
      BY <1>2, <2>1, <3>1 DEF Visited
  <2>4. ASSUME NEW i \in DOMAIN instances(f.scc)
        PROVE  constructed'[instances(f.scc)[i]] = IF Len(deps(f.scc)) + i <= f.done THEN 1 ELSE 0
    <3>1. constructed[instances(f.scc)[i]] = IF Len(deps(f.scc)) + i <= inner(t).done THEN 1 ELSE 0
      BY <1>2, <2>1 DEF Visited
    <3>2. CASE i = n
      BY <1>2, <1>4, <1>9, <2>1, <3>1, <3>2
    <3>3. CASE i # n
      <4>1. (Len(deps(f.scc)) + i <= f.done) <=> (Len(deps(f.scc)) + i <= inner(t).done)
        BY <1>2, <1>4, <2>1, <3>3
      <4>2. constructed'[instances(f.scc)[i]] = constructed[instances(f.scc)[i]]
        BY <1>9, <2>1, <3>3
      <4> QED
        BY <3>1, <4>1, <4>2
    <3> QED
      BY <3>2, <3>3
  <2> QED
    BY <1>1, <1>2, <2>1, <2>2, <2>3, <2>4 DEF Visited
<1>12. \A k \in DOMAIN further : Visited(further[k])'
  <2>1. ASSUME NEW k \in DOMAIN further, k # Len(further)
        PROVE  Visited(further[k])'
    <3>1. further[k] = visiting[t][k] /\ Visited(further[k]) /\ further[k].scc \in Sccs
      BY <1>6, <1>7, <2>1 DEF DIInv, Visits
    <3>2. further[k].scc # inner(t).scc
      BY <1>2, <1>6, <1>7, <1>8, <2>1, Acyclic
    <3> QED
      BY <1>1, <1>9, <3>1, <3>2 DEF Visited
  <2> QED
    BY <1>6, <1>11, <2>1
<1>13. visiting' \in [Threads -> Seq(Frames)] /\ Locked' /\ Visits'
  BY <1>1, <1>3, <1>6, <1>8, <1>12, VisitsAfter, ZenonT(40)
<1>14. Untouched'
  <2>1. status[inner(t).scc] = "running"
    BY <1>2 DEF Visited
  <2> QED
    BY <1>1, <1>9, <2>1 DEF DIInv, Untouched
<1>15. ReachableDefaults'
  <2>1. status[inner(t).scc] = "running"
    BY <1>2 DEF Visited
  <2> QED
    BY <1>1, <1>9, <2>1 DEF DIInv, ReachableDefaults
<1> QED
  BY <1>1, <1>10, <1>13, <1>14, <1>15 DEF DIInv, DITypes

LEMMA DIInvLeaves ==
  ASSUME DIInv, NEW t \in Threads, leaves(t)
  PROVE  DIInv'
<1>1. /\ visiting[t] # <<>>
      /\ inner(t).done = Len(deps(inner(t).scc)) + Len(instances(inner(t).scc))
      /\ status' = [status EXCEPT ![inner(t).scc] = "initialized"]
      /\ visiting' = [visiting EXCEPT ![t] = SubSeq(visiting[t], 1, Len(visiting[t]) - 1)]
      /\ constructed' = constructed /\ mutex' = mutex /\ wants' = wants /\ objects' = objects
  BY DEF leaves, DIInv, DITypes
<1>2. PICK s \in Sccs :
        /\ s = inner(t).scc /\ inner(t).done \in Nat /\ Visited(inner(t))
        /\ Len(deps(s)) \in Nat /\ DOMAIN deps(s) = 1 .. Len(deps(s))
        /\ Len(instances(s)) \in Nat /\ DOMAIN instances(s) = 1 .. Len(instances(s))
        /\ \A i \in DOMAIN deps(s) : deps(s)[i] \in Sccs
  <2>1. inner(t) \in Frames /\ Visited(inner(t))
    BY <1>1, Innermost, Above DEF DIInv
  <2>2. inner(t).scc \in Sccs /\ inner(t).done \in Nat
    BY <2>1 DEF Frames
  <2> QED
    BY <2>1, <2>2, Tables
<1>3. status'[s] = "initialized" /\ \A r \in Sccs : r # s => status'[r] = status[r]
  BY <1>1, <1>2 DEF DIInv, DITypes
\* The components above it are others.
<1>4. PICK stack \in Seq(Frames) :
        /\ visiting' = [visiting EXCEPT ![t] = stack] /\ Len(stack) = Len(visiting[t]) - 1
        /\ DOMAIN visiting[t] = 1 .. Len(visiting[t]) /\ Len(visiting[t]) \in Nat \ {0}
        /\ DOMAIN stack = 1 .. Len(visiting[t]) - 1
        /\ \A k \in DOMAIN stack : stack[k] = visiting[t][k] /\ stack[k] \in Frames
  <2>1. /\ visiting[t] \in Seq(Frames) /\ Len(visiting[t]) \in Nat \ {0}
        /\ DOMAIN visiting[t] = 1 .. Len(visiting[t])
    BY <1>1, Innermost DEF DIInv, DITypes
  <2>2. PICK stack : stack = SubSeq(visiting[t], 1, Len(visiting[t]) - 1)
    OBVIOUS
  <2>3. /\ stack \in Seq(Frames) /\ Len(stack) = Len(visiting[t]) - 1
        /\ \A k \in 1 .. Len(visiting[t]) - 1 : stack[k] = visiting[t][k]
    <3>1. /\ \A k \in 1 .. Len(visiting[t]) - 1 : visiting[t][k] \in Frames
          /\ 1 \in Int /\ Len(visiting[t]) - 1 \in Int
      BY <2>1, ElementOfSeq
    <3> QED
      BY <2>1, <2>2, <3>1, SubSeqProperties
  <2>4. DOMAIN stack = 1 .. Len(visiting[t]) - 1
    BY <2>3, LenProperties
  <2>5. \A k \in DOMAIN stack : stack[k] \in Frames
    BY <2>3, <2>4, ElementOfSeq
  <2> QED
    BY <1>1, <2>1, <2>2, <2>3, <2>4, <2>5
<1>5. /\ \A k \in DOMAIN stack : /\ stack[k].scc \in Sccs /\ stack[k].scc # s
                                 /\ Visited(stack[k])
      /\ \A j, k \in DOMAIN stack : j < k => Rank[stack[k].scc] < Rank[stack[j].scc]
  <2>1. \A k \in DOMAIN stack : stack[k].scc \in Sccs
    BY <1>4 DEF Frames
  <2>2. \A k \in DOMAIN stack : k \in DOMAIN visiting[t] /\ k < Len(visiting[t])
    BY <1>4
  <2>3. \A k \in DOMAIN stack : Rank[s] < Rank[stack[k].scc]
    BY <1>1, <1>2, <1>4, <2>2, Above
  <2>4. Rank[s] \in Nat
    BY Acyclic
  <2> QED
    BY <1>4, <2>1, <2>2, <2>3, <2>4, SMTT(30) DEF DIInv, Visits
<1>6. \A k \in DOMAIN stack : Visited(stack[k])'
  <2>1. ASSUME NEW k \in DOMAIN stack PROVE Visited(stack[k])'
    <3>1. status'[stack[k].scc] = "running"
      BY <1>3, <1>5 DEF Visited
    <3>2. \A i \in DOMAIN deps(stack[k].scc) : i <= stack[k].done => status'[deps(stack[k].scc)[i]] # "uninitialized"
      BY <1>3, <1>5, Tables DEF Visited
    <3> QED
      BY <1>1, <1>5, <3>1, <3>2 DEF Visited
  <2> QED
    BY <2>1
<1>7. \A r \in Sccs : status'[r] = "running" => \E k \in DOMAIN stack : stack[k].scc = r
  <2>1. ASSUME NEW r \in Sccs, status'[r] = "running"
        PROVE  \E k \in DOMAIN stack : stack[k].scc = r
    <3>1. r # s /\ status[r] = "running"
      BY <1>3, <2>1
    <3>2. PICK k \in DOMAIN visiting[t] : visiting[t][k].scc = r
      BY <1>1, <3>1, Above
    <3>3. k # Len(visiting[t])
      BY <1>1, <1>2, <3>1, <3>2, Innermost DEF DIInv
    <3> QED
      BY <1>4, <3>2, <3>3
  <2> QED
    BY <2>1
<1>8. visiting' \in [Threads -> Seq(Frames)] /\ Locked' /\ Visits'
  BY <1>1, <1>4, <1>5, <1>6, <1>7, VisitsAfter
\* All that s depends on has been visited, and is not running.
<1>9. \A i \in DOMAIN deps(s) : status'[deps(s)[i]] = "initialized"
  <2>1. ASSUME NEW i \in DOMAIN deps(s) PROVE status[deps(s)[i]] = "initialized"
    <3>1. status[deps(s)[i]] # "uninitialized"
      BY <1>1, <1>2 DEF Visited
    <3>2. status[deps(s)[i]] # "running"
      BY <1>1, <1>2, Above
    <3> QED
      BY <1>2, <3>1, <3>2 DEF DIInv, DITypes
  <2> QED
    BY <1>2, <1>3, <2>1
<1>10. \A i \in DOMAIN instances(s) : constructed'[instances(s)[i]] = 1
  BY <1>1, <1>2 DEF Visited
<1>11. ReachableDefaults'
  <2>1. \A u \in Threads : \A i \in DOMAIN objects'[u] : status'[scc_of[objects'[u][i]]] = "initialized"
    <3>1. \A u \in Threads : \A i \in DOMAIN objects[u] : scc_of[objects[u][i]] \in Sccs
      BY ElementOfSeq, LenProperties, OneHome, ClassesAreInstances DEF DIInv, DITypes
    <3> QED
      BY <1>1, <1>3, <3>1 DEF DIInv, ReachableDefaults
  <2>2. ASSUME NEW r \in Sccs, status'[r] = "initialized", NEW i \in DOMAIN instances(r)
        PROVE  /\ constructed'[instances(r)[i]] = 1
               /\ \A c \in Pointees(instances(r)[i]) : status'[scc_of[c]] = "initialized"
    <3>1. CASE r = s
      BY <1>3, <1>9, <1>10, <3>1, PointeesNear
    <3>2. CASE r # s
      <4>1. status[r] = "initialized"
        BY <1>3, <2>2, <3>2
      <4> QED
        BY <1>1, <1>3, <4>1, PointeesNear DEF DIInv, ReachableDefaults
    <3> QED
      BY <3>1, <3>2
  <2> QED
    BY <2>1, <2>2 DEF ReachableDefaults
<1>12. DITypes'
  BY <1>1, <1>2, <1>8 DEF DIInv, DITypes
<1>13. Untouched'
  BY <1>1, <1>3 DEF DIInv, Untouched
<1> QED
  BY <1>8, <1>11, <1>12, <1>13 DEF DIInv

\* Nothing of this depends on who has the lock or which constructors are called.
LEMMA DIInvSame ==
  ASSUME DIInv, status' = status, constructed' = constructed, visiting' = visiting
  PROVE  /\ Visits' /\ Untouched'
         /\ (mutex' = mutex \/ \A t \in Threads : visiting[t] = <<>>) => Locked'
         /\ objects' = objects => ReachableDefaults'
<1>1. Visits'
  BY DEF DIInv, Visits, Visited
<1>2. Untouched'
  BY DEF DIInv, Untouched
<1>3. (mutex' = mutex \/ \A t \in Threads : visiting[t] = <<>>) => Locked'
  BY DEF DIInv, Locked
<1>4. objects' = objects => ReachableDefaults'
  BY DEF DIInv, ReachableDefaults
<1> QED
  BY <1>1, <1>2, <1>3, <1>4

LEMMA DIInvNext == DIInv /\ [Next]_vars => DIInv'
<1> SUFFICES ASSUME DIInv, [Next]_vars PROVE DIInv'
  OBVIOUS
<1>1. ASSUME NEW t \in Threads, NEW c \in Classes, begins(t, c) PROVE DIInv'
  <2>1. /\ wants' \in [Threads -> Classes \cup {"none"}] /\ status' = status
        /\ constructed' = constructed /\ mutex' = mutex /\ visiting' = visiting /\ objects' = objects
    BY <1>1 DEF begins, DIInv, DITypes
  <2>2. DITypes'
    BY <2>1 DEF DIInv, DITypes
  <2> QED
    BY <2>1, <2>2, DIInvSame DEF DIInv
<1>2. ASSUME NEW t \in Threads, finishes(t) PROVE DIInv'
  <2>1. /\ wants[t] \in Classes /\ status[scc_of[wants[t]]] = "initialized"
        /\ objects' = [objects EXCEPT ![t] = Append(objects[t], wants[t])]
        /\ wants' = [wants EXCEPT ![t] = "none"]
        /\ status' = status /\ constructed' = constructed /\ mutex' = mutex /\ visiting' = visiting
    BY <1>2 DEF finishes, is_ready, DIInv, DITypes
  <2>2. PICK made \in Seq(Classes) :
          /\ made = Append(objects[t], wants[t])
          /\ \A i \in DOMAIN made : made[i] = wants[t] \/ (i \in DOMAIN objects[t] /\ made[i] = objects[t][i])
    <3>1. objects[t] \in Seq(Classes) /\ Len(objects[t]) \in Nat /\ DOMAIN objects[t] = 1 .. Len(objects[t])
      BY LenProperties DEF DIInv, DITypes
    <3>2. Append(objects[t], wants[t]) \in Seq(Classes)
      BY <2>1, <3>1, AppendProperties
    <3>3. DOMAIN Append(objects[t], wants[t]) = 1 .. Len(objects[t]) + 1
      BY <2>1, <3>1, <3>2, AppendProperties, LenProperties
    <3>4. \A i \in DOMAIN objects[t] : Append(objects[t], wants[t])[i] = objects[t][i]
      BY <2>1, <3>1, AppendProperties
    <3>5. Append(objects[t], wants[t])[Len(objects[t]) + 1] = wants[t]
      BY <2>1, <3>1, AppendProperties
    <3>6. PICK made : made = Append(objects[t], wants[t])
      OBVIOUS
    <3>7. \A i \in DOMAIN made : i = Len(objects[t]) + 1 \/ i \in DOMAIN objects[t]
      BY <3>1, <3>3, <3>6
    <3> QED
      BY <3>2, <3>4, <3>5, <3>6, <3>7
  <2>3. DITypes'
    BY <2>1, <2>2 DEF DIInv, DITypes
  <2>4. ReachableDefaults'
    <3>1. /\ objects'[t] = made /\ \A u \in Threads : u # t => objects'[u] = objects[u]
      BY <2>1, <2>2 DEF DIInv, DITypes
    <3>2. \A u \in Threads : \A i \in DOMAIN objects'[u] : status[scc_of[objects'[u][i]]] = "initialized"
      BY <2>1, <2>2, <3>1 DEF DIInv, ReachableDefaults
    <3> QED
      BY <2>1, <3>2 DEF DIInv, ReachableDefaults
  <2> QED
    BY <2>1, <2>3, <2>4, DIInvSame DEF DIInv
<1>3. ASSUME NEW t \in Threads, unlocks(t) PROVE DIInv'
  <2>1. /\ status' = status /\ constructed' = constructed /\ visiting' = visiting
        /\ wants' = wants /\ objects' = objects
    BY <1>3 DEF unlocks
  <2>2. \A u \in Threads : visiting[u] = <<>>
    BY <1>3 DEF unlocks, DIInv, Locked
  <2>3. DITypes'
    BY <2>1 DEF DIInv, DITypes
  <2> QED
    BY <2>1, <2>2, <2>3, DIInvSame DEF DIInv
<1>4. ASSUME NEW t \in Threads, locks(t) \/ visits_dependency(t) \/ constructs(t) \/ leaves(t)
      PROVE  DIInv'
  BY <1>4, DIInvLocks, DIInvVisitsDependency, DIInvConstructs, DIInvLeaves
<1>5. CASE UNCHANGED vars
  <2>1. /\ status' = status /\ constructed' = constructed /\ mutex' = mutex /\ visiting' = visiting
        /\ wants' = wants /\ objects' = objects
    BY <1>5 DEF vars
  <2>2. DITypes'
    BY <2>1 DEF DIInv, DITypes
  <2> QED
    BY <2>1, <2>2, DIInvSame DEF DIInv
<1> QED
  BY <1>1, <1>2, <1>3, <1>4, <1>5 DEF Next, Step

\* Whatever threads come first and however many, who has an object of a class has
\* every default instance that can be reached from it, constructed once.
THEOREM ReachableDefaultsHolds == Spec => []ReachableDefaults
<1>1. DIInv => ReachableDefaults
  BY DEF DIInv
<1> QED
  BY <1>1, DIInvInit, DIInvNext, PTL DEF Spec
==============================================================================
