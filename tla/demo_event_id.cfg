\* What a consumer reads of the demo's events.
CONSTANTS
  TextLength <- MCTextLength
  NotUtf8 <- MCNotUtf8
  Numbers <- MCNumbers
  MaxRepeated = 2
  RecursionLimit = 100
  IntMax = 2147483647
  ClassesInUse <- MCClassesInUse
  MaxCalls <- MCMaxCalls
  Inner_MergeFrom <- MCMergeFrom
  Inner_Accessed <- MCAccessed
  Inner_ByteSizeLong <- MCByteSizeLong
  Inner_Serialize <- MCSerialize
  Inner_SizeOf <- MCSizeOf
  Inner_Parse <- MCParse
  Inner_Readable <- MCReadable
SPECIFICATION DemoMessagesSpec
INVARIANT EventsHaveTheirId
CHECK_DEADLOCK FALSE
