---------------------------- MODULE MCDemoMessages ----------------------------
EXTENDS DemoMessages, MCInnerCalls

\* The texts of the demo, with their lengths.
MCTextLength ==
  ("" :> 0) @@ ("0" :> 1) @@ ("1" :> 1) @@ ("requestId" :> 9) @@ ("requestRef" :> 10) @@
  ("session_alias" :> 13) @@ ("Message body" :> 12) @@ ("Group message body" :> 18) @@
  ("Demo_event" :> 10) @@ ("Example" :> 7) @@ ("Event body" :> 10) @@ ("ex_event" :> 8)
MCNotUtf8 == {}
MCNumbers == {0, 1, 1234, 5678, 2345, 6789}
MCClassesInUse == {"RawMessageBatch", "EventBatch", "MessageGroupBatch"}
MCMaxCalls == [c \in MCClassesInUse |-> 0]
==============================================================================
