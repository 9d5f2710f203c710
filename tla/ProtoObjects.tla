----------------------------- MODULE ProtoObjects -----------------------------
(***************************************************************************)
(* An application that works on two objects of a message class through the *)
(* methods of ProtoCodec.tla, the way senders, the demo program and the    *)
(* applications of the library do: it sets, adds and takes out members     *)
(* anywhere inside an object, copies, merges, swaps and clears.            *)
(***************************************************************************)
EXTENDS ProtoCodec

CONSTANTS
  ClassesInUse,    \* the classes an application may pick
  MaxCalls         \* bound: calls of one behaviour, for each class

ASSUME ObjectsAssumption ==
  /\ ClassesInUse \subseteq Classes
  /\ MaxCalls \in [ClassesInUse -> Nat]

VARIABLES
  class,   \* the class of both objects
  a, b,    \* the objects
  calls    \* how many calls there have been
vars == <<class, a, b, calls>>

Init ==
  /\ class \in ClassesInUse
  /\ a = New(class)
  /\ b = New(class)
  /\ calls = 0

Call == calls < MaxCalls[class] /\ calls' = calls + 1 /\ UNCHANGED class

Access == Call /\ a' \in Accessed(class, a) /\ UNCHANGED b
Clear == Call /\ a' = New(class) /\ UNCHANGED b
Copy == Call /\ b' = CopyFrom(class, b, a) /\ UNCHANGED a
Merge == Call /\ b' = MergeFrom(class, b, a) /\ UNCHANGED a
Swap == Call /\ a' = b /\ b' = a

Next == Access \/ Clear \/ Copy \/ Merge \/ Swap

Spec == Init /\ [][Next]_vars

------------------------------------------------------------------------------
\* A reader of the same common.proto gets the object back, or nothing at all: it
\* rejects what has text that is not UTF-8 or nests too deep, which the writer
\* does not notice, and never reads something else.
ReadsBack ==
  ParseFrom(class, Serialize(class, a)) =
    IF Readable(class, a, RecursionLimit) THEN <<a>> ELSE <<>>

\* The size that a sender asks for before it writes is the size of what is written.
SizeIsExact == ByteSizeLong(class, a) = SizeOf(Serialize(class, a))

\* Reading one object after another into the same object is what MergeFrom does:
\* a reader of two batches put end to end cannot tell them from one.
ConcatenationMerges ==
  Readable(class, a, RecursionLimit) /\ Readable(class, b, RecursionLimit) =>
    ParseFrom(class, Serialize(class, b) \o Serialize(class, a)) = <<MergeFrom(class, b, a)>>

\* A service with an older common.proto, which lacks the last field of each class
\* that has several, passes on what it does not understand: a reader behind it
\* gets the object whole.
Later == {<<c, Len(Wire[c])>> : c \in {k \in Classes : Len(Wire[k]) > 1}}
RelayKeepsFields ==
  LET relayed == Parse(class, New(class), Serialize(class, a), RecursionLimit, Later)
  IN Readable(class, a, RecursionLimit) =>
       relayed # <<>> /\ ParseFrom(class, Serialize(class, relayed[1])) = <<a>>

\* A copy is equal to what it was made from, whatever it held before.
CopyIsEqual == [][Copy => b' = a]_vars
==============================================================================
