----------------------------- MODULE MCInnerCalls -----------------------------
(***************************************************************************)
(* What the methods of an object call for the objects inside it: the       *)
(* methods themselves, as values for the Inner_ constants of ProtoCodec.   *)
(* Each goes through a LET because TLC, counting how often an expression   *)
(* is evaluated, would follow a method through its constant without end.   *)
(***************************************************************************)
EXTENDS ProtoCodec

MCMergeFrom(c, to, from) == LET merged == MergeFrom(c, to, from) IN merged
MCAccessed(c, m) == LET objects == Accessed(c, m) IN objects
MCByteSizeLong(c, m) == LET size == ByteSizeLong(c, m) IN size
MCSerialize(c, m) == LET fields == Serialize(c, m) IN fields
MCSizeOf(fields) == LET size == SizeOf(fields) IN size
MCParse(c, m, fields, depth, hidden) ==
  LET read == Parse(c, m, fields, depth, hidden) IN read
MCReadable(c, m, depth) == LET answer == Readable(c, m, depth) IN answer
===============================================================================
