\* Two objects of each class, and what is sent of them if they are batches.
CONSTANTS
  TextLength <- MCTextLength
  NotUtf8 <- MCNotUtf8
  Numbers <- MCNumbers
  MaxRepeated = 2
  RecursionLimit = 4
  IntMax = 200
  ClassesInUse <- MCClassesInUse
  MaxCalls <- MCMaxCalls
  Inner_MergeFrom <- MCMergeFrom
  Inner_Accessed <- MCAccessed
  Inner_ByteSizeLong <- MCByteSizeLong
  Inner_Serialize <- MCSerialize
  Inner_SizeOf <- MCSizeOf
  Inner_Parse <- MCParse
  Inner_Readable <- MCReadable
SPECIFICATION Spec
INVARIANTS ReadsBack SizeIsExact ConcatenationMerges RelayKeepsFields PayloadIsRouted
PROPERTY CopyIsEqual
CHECK_DEADLOCK FALSE
