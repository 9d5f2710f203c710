--------------------------- MODULE MCSenderPayloads ---------------------------
EXTENDS SenderPayloads, MCInnerCalls, TLC

\* No text, one that needs two bytes for its length, one that is not UTF-8.
MCTextLength == ("" :> 0) @@ ("payload" :> 130) @@ ("bytes" :> 2)
MCNotUtf8 == {"bytes"}
MCNumbers == {0, 1, -1}

MCClassesInUse == Classes \ {"Timestamp"}

\* One call more on what is sent.
MCMaxCalls ==
  [c \in MCClassesInUse |-> IF \E kind \in Routing!Kinds : BatchClass[kind] = c THEN 4 ELSE 3]
==============================================================================
