----------------------------- MODULE DemoMessages -----------------------------
(***************************************************************************)
(* The batches that the demo program (main.cpp) builds and sends, statement*)
(* for statement, and what a consumer of its queues reads.  DemoMain.tla   *)
(* has the rest of the program and numbers in place of the batches.        *)
(***************************************************************************)
EXTENDS SenderPayloads, TLC

VARIABLES
  line,      \* the next statement of the block
  event_id   \* the local variable of the block that sends events

demoVars == <<vars, line, event_id>>

DemoMessagesInit ==
  /\ class \in ClassesInUse
  /\ a = New(class)
  /\ b = New(class)
  /\ calls = 0
  /\ line = "batch"
  /\ event_id = New("EventID")

timestamp(seconds, nanos) ==
  [New("Timestamp") EXCEPT !.seconds = seconds, !.nanos = nanos]

\* meta, message_id and connection_id are pointers into the message.
SECOND == 1
raw_message(body) ==
  [New("RawMessage") EXCEPT
     !.metadata = <<[New("RawMessageMetadata") EXCEPT
        !.timestamp = <<timestamp(1234, 5678)>>,
        !.properties = ("requestId" :> "0") @@ ("requestRef" :> "1"),
        !.id = <<[New("MessageID") EXCEPT
           !.direction = SECOND,
           !.sequence = 0,
           !.connection_id = <<[New("ConnectionID") EXCEPT !.session_alias = "session_alias"]>>]>>]>>,
     !.body = body]

Goes(from, to) == line = from /\ line' = to /\ UNCHANGED <<class, b, calls>>

builds_raw ==
  /\ class = "RawMessageBatch" /\ Goes("batch", "send")
  /\ a' = [New(class) EXCEPT !.messages = <<raw_message("Message body")>>]
  /\ UNCHANGED event_id

builds_group ==
  /\ class = "MessageGroupBatch" /\ Goes("batch", "send")
  /\ LET any == [New("AnyMessage") EXCEPT
                   !.kind = [case |-> "raw_message", value |-> raw_message("Group message body")]]
     IN a' = [New(class) EXCEPT !.groups = <<[New("MessageGroup") EXCEPT !.messages = <<any>>]>>]
  /\ UNCHANGED event_id

SUCCESS == 0
builds_event ==
  /\ class = "EventBatch" /\ Goes("batch", "event_id")
  /\ a' = [New(class) EXCEPT !.events = <<[New("Event") EXCEPT
             !.start_timestamp = <<timestamp(1234, 5678)>>,
             !.end_timestamp = <<timestamp(2345, 6789)>>,
             !.status = SUCCESS, !.name = "Demo_event", !.type = "Example",
             !.body = "Event body"]>>]
  /\ UNCHANGED event_id

\* auto event_id = event->id(): the type is EventID and not a reference to one, so
\* that this is a copy of what the event has, or of the default instance.
copies_event_id ==
  /\ Goes("event_id", "set_id")
  /\ event_id' = IF a.events[1].id = <<>> THEN New("EventID") ELSE a.events[1].id[1]
  /\ UNCHANGED a

sets_event_id ==
  /\ Goes("set_id", "send")
  /\ event_id' = [event_id EXCEPT !.id = "ex_event"]
  /\ UNCHANGED a

\* send(batch), and the next round with a batch of its own.
sends ==
  /\ Goes("send", "batch")
  /\ a' = New(class)
  /\ event_id' = New("EventID")

DemoMessagesNext ==
  builds_raw \/ builds_group \/ builds_event \/ copies_event_id \/ sets_event_id \/ sends

DemoMessagesSpec == DemoMessagesInit /\ [][DemoMessagesNext]_demoVars

------------------------------------------------------------------------------
\* The demo gives its events the id "ex_event" before it sends them: a consumer
\* reads events of that id.
EventsHaveTheirId ==
  (class = "EventBatch" /\ line = "send") =>
    LET read == consume("EventBatch", value_to_bytes(a))
    IN /\ read # <<>>
       /\ \A i \in DOMAIN read[1].events : read[1].events[i].id = <<[New("EventID") EXCEPT !.id = "ex_event"]>>
==============================================================================
