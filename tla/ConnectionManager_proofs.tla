----------------------- MODULE ConnectionManager_proofs ----------------------
(***************************************************************************)
(* Proofs about ConnectionManager, for any set of callers, any set of      *)
(* publications, any size of the socket's buffer and any bound.            *)
(***************************************************************************)
EXTENDS ConnectionManager, SequenceTheorems, TLAPS

\* The last position of a publication is a number, 1 for an empty payload.
LEMMA LastPosType ==
  ASSUME published \in Seq(Publication), NEW n \in 1 .. Len(published)
  PROVE  LastPos(n) \in Nat /\ LastPos(n) >= 1
<1>1. published[n] \in Publication
  BY ElementOfSeq
<1> QED
  BY <1>1, ConnectionAssumption DEF LastPos, ConnectionAssumption

\* Appending a publication leaves the last positions of the others alone.
LEMMA LastPosStable ==
  ASSUME published \in Seq(Publication), NEW p \in Publication,
         published' = Append(published, p), NEW n \in 1 .. Len(published)
  PROVE  LastPos(n)' = LastPos(n)
<1>1. published'[n] = published[n]
  BY AppendProperties
<1> QED
  BY <1>1 DEF LastPos

\* A content is a sequence of frames.
LEMMA IdleType == Idle \in Frame /\ Garbled \in Frame
BY DEF Idle, Garbled, Frame

------------------------------------------------------------------------------
(* Type correctness. *)

LEMMA TypeInit == CMInit => CMTypeOK
<1> SUFFICES ASSUME CMInit PROVE CMTypeOK
  OBVIOUS
<1>1. \A S : <<>> \in Seq(S)
  BY EmptySeq
<1>2. publishing \in [Callers -> Frame] /\ \A c \in Callers : publishing[c] = Idle
  BY IdleType DEF CMInit
<1> QED
  BY <1>1, <1>2 DEF CMInit, CMTypeOK

\* Each kind of step keeps the types.
LEMMA TypeBasicPublish ==
  ASSUME CMTypeOK, NEW c \in Callers, NEW p \in Publication, basic_publish(c, p)
  PROVE  CMTypeOK'
<1> USE DEF CMTypeOK, basic_publish, brokerVars
<1> DEFINE n == Len(published) + 1
<1>1. /\ published' \in Seq(Publication) /\ outcome' \in Seq({"running", "ok", "failed"})
      /\ Len(published') = n /\ Len(outcome') = n
  <2>1. published' \in Seq(Publication) /\ Len(published') = n
    BY AppendProperties
  <2>2. outcome' = Append(outcome, "running") /\ "running" \in {"running", "ok", "failed"}
    OBVIOUS
  <2>3. outcome' \in Seq({"running", "ok", "failed"}) /\ Len(outcome') = Len(outcome) + 1
    BY <2>2, AppendProperties
  <2> QED
    BY <2>1, <2>3
<1>2. Len(published) \in Nat
  BY LenProperties
<1>3. [pub |-> n, pos |-> 0] \in Frame
  BY <1>2 DEF Frame
<1>4. publishing' \in [Callers -> Frame]
  BY <1>3
<1>5. \A d \in Callers : publishing'[d] # Idle => publishing'[d].pub \in 1 .. n
  BY <1>2
<1>6. overlapped' \in BOOLEAN
  OBVIOUS
<1> QED
  BY <1>1, <1>4, <1>5, <1>6

LEMMA TypeWriteFrame ==
  ASSUME CMTypeOK, NEW c \in Callers, WriteFrame(c)
  PROVE  CMTypeOK'
<1> USE DEF CMTypeOK, WriteFrame, brokerVars
<1> DEFINE f == publishing[c]
<1>1. f \in Frame /\ f.pub \in 1 .. Len(published) /\ f.pub \in 1 .. Len(outcome)
  OBVIOUS
<1>2. wire' \in Seq(Frame)
  <2>1. CASE \E g \in WrittenAs(f) : wire' = Append(wire, g)
    <3>1. PICK g \in WrittenAs(f) : wire' = Append(wire, g)
      BY <2>1
    <3>2. g \in Frame
      BY <1>1, IdleType DEF WrittenAs
    <3> QED
      BY <3>1, <3>2, AppendProperties
  <2>2. CASE UNCHANGED wire
    BY <2>2
  <2> QED
    BY <2>1, <2>2
<1>3. CASE f.pos = LastPos(f.pub)
  <2>1. publishing' = [publishing EXCEPT ![c] = Idle] /\ outcome' = [outcome EXCEPT ![f.pub] = "ok"]
    BY <1>3 DEF NextFrame
  <2>2. outcome' \in Seq({"running", "ok", "failed"}) /\ Len(outcome') = Len(outcome)
    BY <1>1, <2>1, ExceptSeq
  <2>3. publishing' \in [Callers -> Frame]
    BY <2>1, IdleType
  <2>4. \A d \in Callers : publishing'[d] # Idle => publishing'[d].pub \in 1 .. Len(published)
    BY <2>1
  <2> QED
    BY <1>2, <2>2, <2>3, <2>4
<1>4. CASE f.pos # LastPos(f.pub)
  <2>1. /\ publishing' = [publishing EXCEPT ![c] = [pub |-> f.pub, pos |-> f.pos + 1]]
        /\ UNCHANGED outcome
    BY <1>4 DEF NextFrame
  <2>3. publishing' \in [Callers -> Frame]
    BY <1>1, <2>1 DEF Frame
  <2>4. \A d \in Callers : publishing'[d] # Idle => publishing'[d].pub \in 1 .. Len(published)
    BY <1>1, <2>1
  <2> QED
    BY <1>2, <2>1, <2>3, <2>4
<1> QED
  BY <1>3, <1>4

LEMMA TypePublishFails ==
  ASSUME CMTypeOK, NEW c \in Callers, PublishFails(c)
  PROVE  CMTypeOK'
<1> USE DEF CMTypeOK, PublishFails, brokerVars
<1>1. outcome' \in Seq({"running", "ok", "failed"}) /\ Len(outcome') = Len(outcome)
  BY ExceptSeq
<1>2. publishing' \in [Callers -> Frame]
  BY IdleType
<1>3. \A d \in Callers : publishing'[d] # Idle => publishing'[d].pub \in 1 .. Len(published)
  OBVIOUS
<1> QED
  BY <1>1, <1>2, <1>3

LEMMA TypeBroker ==
  ASSUME CMTypeOK, BrokerStep \/ LinkBreaks
  PROVE  CMTypeOK'
<1> USE DEF CMTypeOK, clientVars, brokerVars
<1>1. CASE BrokerReads
  BY <1>1, HeadTailProperties, AppendProperties DEF BrokerReads
<1>2. CASE BrokerCompletes
  <2>1. Append(assembly, Head(wire)) \in Seq(Frame) /\ Tail(wire) \in Seq(Frame)
    BY <1>2, HeadTailProperties, AppendProperties DEF BrokerCompletes
  <2>2. Append(processed, Append(assembly, Head(wire))) \in Seq(Seq(Frame))
    BY <2>1, AppendProperties
  <2>3. processed' \in Seq(Seq(Frame)) /\ channel' \in {"open", "closing", "dead"}
    BY <1>2, <2>2 DEF BrokerCompletes
  <2> QED
    BY <1>2, <2>1, <2>3 DEF BrokerCompletes
<1>3. CASE BrokerRejects
  BY <1>3 DEF BrokerRejects
<1>4. CASE BrokerIgnores
  BY <1>4, HeadTailProperties DEF BrokerIgnores
<1>5. CASE LinkBreaks
  BY <1>5 DEF LinkBreaks
<1> QED
  BY <1>1, <1>2, <1>3, <1>4, <1>5 DEF BrokerStep

LEMMA TypeNext == CMTypeOK /\ [CMNext]_cmVars => CMTypeOK'
<1> SUFFICES ASSUME CMTypeOK, [CMNext]_cmVars PROVE CMTypeOK'
  OBVIOUS
<1>1. CASE UNCHANGED cmVars
  BY <1>1 DEF cmVars, clientVars, brokerVars, CMTypeOK
<1> QED
  BY <1>1, TypeBasicPublish, TypeWriteFrame, TypePublishFails, TypeBroker DEF CMNext

\* Every state of the connection has the types that CMTypeOK gives it, and a
\* caller inside basic_publish is at a frame of a publication that exists.
THEOREM TypeCorrect == CMSpec => []CMTypeOK
BY TypeInit, TypeNext, PTL DEF CMSpec

------------------------------------------------------------------------------
(***************************************************************************)
(* The inductive invariant.  As long as no two calls have overlapped, the  *)
(* frames that broker and socket hold, and the frame about to be written,  *)
(* form one unbroken run: it starts where the broker is (ReadCursor) and   *)
(* ends where the caller is (WriteCursor).                                 *)
(***************************************************************************)

Busy(c) == publishing[c] # Idle

\* The frame that follows f when calls are made one after another.
NextOf(f) ==
  IF f.pos = LastPos(f.pub)
  THEN [pub |-> f.pub + 1, pos |-> 0]
  ELSE [pub |-> f.pub, pos |-> f.pos + 1]

Before(f, g) == f.pub < g.pub \/ (f.pub = g.pub /\ f.pos < g.pos)

ReadCursor == [pub |-> Len(processed) + 1, pos |-> Len(assembly)]
WriteCursor == IF wire = <<>> THEN ReadCursor ELSE NextOf(wire[Len(wire)])

\* At most one caller is busy, with the last publication, which is still
\* running and which the broker does not have.
OneAtATime ==
  /\ \A c, d \in Callers : Busy(c) /\ Busy(d) => c = d
  /\ \A c \in Callers : Busy(c) =>
        /\ publishing[c].pub = Len(published)
        /\ publishing[c].pos <= LastPos(Len(published))
        /\ outcome[Len(published)] = "running"
        /\ Len(processed) < Len(published)

\* What the broker has is a prefix, and none of it failed.
Delivered ==
  /\ Len(processed) <= Len(published)
  /\ \A n \in 1 .. Len(processed) : processed[n] = Content(n) /\ outcome[n] # "failed"

\* The channel is only closed for an unknown exchange.
ChannelCause ==
  /\ channel # "dead"
  /\ channel = "closing" =>
        /\ Len(processed) < Len(published)
        /\ published[Len(processed) + 1].exchange \notin Exchanges

\* Every frame of the run from the broker to the caller is in its place.
AssemblyInStep ==
  \A k \in 1 .. Len(assembly) : assembly[k] = [pub |-> Len(processed) + 1, pos |-> k - 1]

WireInStep ==
  /\ \A j \in 1 .. Len(wire) :
        /\ wire[j].pub \in 1 .. Len(published)
        /\ wire[j].pos <= LastPos(wire[j].pub)
        /\ Before(wire[j], WriteCursor)
  /\ wire # <<>> => wire[1] = ReadCursor
  /\ \A j \in 1 .. Len(wire) - 1 : wire[j + 1] = NextOf(wire[j])

CallerInStep ==
  /\ \A c \in Callers : Busy(c) => publishing[c] = WriteCursor
  /\ (\A c \in Callers : ~Busy(c)) => WriteCursor = [pub |-> Len(published) + 1, pos |-> 0]

\* A publication only fails when the connection is known to be gone.
NoFailureYet == link # "error" => \A n \in 1 .. Len(published) : outcome[n] # "failed"

InStep == link = "up" /\ channel = "open" => AssemblyInStep /\ WireInStep /\ CallerInStep

Sequential == OneAtATime /\ Delivered /\ ChannelCause /\ NoFailureYet /\ InStep

IInv == CMTypeOK /\ (~overlapped => Sequential)

------------------------------------------------------------------------------
(* IInv holds initially. *)

LEMMA SequentialInit == CMInit => Sequential
<1> SUFFICES ASSUME CMInit PROVE Sequential
  OBVIOUS
<1>1. \A c \in Callers : ~Busy(c)
  BY DEF CMInit, Busy
<1>2. published = <<>> /\ processed = <<>> /\ wire = <<>> /\ assembly = <<>> /\ channel = "open"
  BY DEF CMInit
<1>3. OneAtATime
  BY <1>1 DEF OneAtATime
<1>4. Delivered /\ ChannelCause /\ NoFailureYet
  BY <1>2 DEF Delivered, ChannelCause, NoFailureYet
<1>5. WriteCursor = [pub |-> 1, pos |-> 0]
  BY <1>2 DEF WriteCursor, ReadCursor
<1>6. InStep
  BY <1>1, <1>2, <1>5 DEF InStep, AssemblyInStep, WireInStep, CallerInStep
<1> QED
  BY <1>3, <1>4, <1>6 DEF Sequential

------------------------------------------------------------------------------
(* A call begins: the run gets no frame, but its end is now the caller's.    *)

LEMMA SequentialBasicPublish ==
  ASSUME CMTypeOK, Sequential, ~overlapped',
         NEW c \in Callers, NEW p \in Publication, basic_publish(c, p)
  PROVE  Sequential'
<1> DEFINE L == Len(published)
           P == Len(processed)
<1> USE DEF brokerVars
<1>1. L \in Nat /\ P \in Nat /\ L = Len(outcome)
  BY LenProperties DEF CMTypeOK
<1>2. \A d \in Callers : ~Busy(d)
  BY DEF basic_publish, Busy
<1>3. /\ Len(published') = L + 1
      /\ published'[L + 1] = p
      /\ \A n \in 1 .. L : published'[n] = published[n]
  BY AppendProperties DEF CMTypeOK, basic_publish
<1>4. outcome'[L + 1] = "running" /\ \A n \in 1 .. L : outcome'[n] = outcome[n]
  <2>1. outcome' = Append(outcome, "running") /\ "running" \in {"running", "ok", "failed"}
    BY DEF basic_publish
  <2> QED
    BY <1>1, <2>1, AppendProperties DEF CMTypeOK
<1>5. /\ LastPos(Len(published))' \in Nat
      /\ \A n \in 1 .. L : LastPos(n)' = LastPos(n)
  BY <1>3, ConnectionAssumption DEF LastPos, ConnectionAssumption
<1>6. /\ publishing'[c] = [pub |-> L + 1, pos |-> 0]
      /\ \A d \in Callers : d # c => publishing'[d] = Idle
  BY <1>2 DEF basic_publish, Busy, CMTypeOK
<1>7. UNCHANGED <<link, wire, channel, assembly, processed>>
  BY DEF basic_publish
<1>8. OneAtATime'
  <2>1. P < L + 1
    BY <1>1 DEF Sequential, Delivered
  <2>2. \A d \in Callers : Busy(d)' => d = c
    BY <1>6 DEF Busy
  <2>3. \A d \in Callers : Busy(d)' =>
          /\ publishing'[d].pub = L + 1
          /\ publishing'[d].pos <= LastPos(Len(published))'
    BY <1>5, <1>6, <2>2
  <2> QED
    BY <1>3, <1>4, <1>7, <2>1, <2>2, <2>3 DEF OneAtATime
<1>9. Delivered'
  <2>1. \A n \in 1 .. P : Content(n)' = Content(n) /\ outcome'[n] = outcome[n]
    BY <1>1, <1>4, <1>5 DEF Sequential, Delivered, Content
  <2> QED
    BY <1>1, <1>3, <1>7, <2>1 DEF Sequential, Delivered
<1>10. ChannelCause'
  BY <1>1, <1>3, <1>7 DEF Sequential, ChannelCause
<1>11. ASSUME link' = "up", channel' = "open" PROVE (AssemblyInStep /\ WireInStep /\ CallerInStep)'
  <2>1. AssemblyInStep /\ WireInStep /\ CallerInStep
    BY <1>7, <1>11 DEF Sequential, InStep
  <2>2. \A j \in 1 .. Len(wire) : wire[j].pub \in 1 .. L
    BY <2>1 DEF WireInStep
  <2>3. \A j \in 1 .. Len(wire) : NextOf(wire[j])' = NextOf(wire[j])
    BY <1>5, <1>7, <2>2 DEF NextOf
  <2>4. wire # <<>> => Len(wire) \in 1 .. Len(wire)
    BY EmptySeq DEF CMTypeOK
  <2>5. WriteCursor' = WriteCursor
    BY <1>7, <2>3, <2>4 DEF WriteCursor, ReadCursor
  <2>6. WriteCursor = [pub |-> L + 1, pos |-> 0]
    BY <1>2, <2>1 DEF CallerInStep
  <2>7. AssemblyInStep'
    BY <1>7, <2>1 DEF AssemblyInStep
  <2>8. WireInStep'
    <3>1. \A j \in 1 .. Len(wire) :
            /\ wire[j].pub \in 1 .. L + 1
            /\ wire[j].pos <= LastPos(wire[j].pub)'
            /\ Before(wire[j], WriteCursor)
      BY <1>1, <1>5, <1>7, <2>1, <2>2 DEF WireInStep
    <3>2. wire # <<>> => wire[1] = ReadCursor
      BY <2>1 DEF WireInStep
    <3>3. \A j \in 1 .. Len(wire) - 1 : wire[j + 1] = NextOf(wire[j])'
      BY <1>7, <2>1, <2>3, LenProperties DEF WireInStep, CMTypeOK
    <3> QED
      BY <1>3, <1>7, <2>5, <3>1, <3>2, <3>3 DEF WireInStep, ReadCursor, Before
  <2>9. CallerInStep'
    <3>1. Busy(c)'
      BY <1>1, <1>6 DEF Busy, Idle
    <3>2. \A d \in Callers : Busy(d)' => publishing'[d] = WriteCursor'
      BY <1>6, <2>5, <2>6 DEF Busy
    <3> QED
      BY <3>1, <3>2 DEF CallerInStep
  <2> QED
    BY <2>7, <2>8, <2>9
<1>12. NoFailureYet'
  BY <1>1, <1>3, <1>4, <1>7 DEF Sequential, NoFailureYet
<1> QED
  BY <1>8, <1>9, <1>10, <1>11, <1>12 DEF Sequential, InStep

------------------------------------------------------------------------------
(* A frame is written: the end of the run moves by one frame. *)

LEMMA BeforeNext ==
  ASSUME NEW f \in Frame, LastPos(f.pub) \in Nat
  PROVE  Before(f, NextOf(f)) /\ NextOf(f) \in Frame
BY DEF Before, NextOf, Frame

LEMMA BeforeTransitive ==
  ASSUME NEW f \in Frame, NEW g \in Frame, NEW h \in Frame, Before(f, g), Before(g, h)
  PROVE  Before(f, h)
BY DEF Before, Frame

LEMMA SequentialWriteFrame ==
  ASSUME CMTypeOK, Sequential, ~overlapped, NEW c \in Callers, WriteFrame(c)
  PROVE  Sequential'
<1> DEFINE L == Len(published)
           P == Len(processed)
           f == publishing[c]
<1> USE DEF brokerVars
<1>1. L \in Nat /\ P \in Nat /\ L = Len(outcome)
  BY LenProperties DEF CMTypeOK
<1>2. /\ f \in Frame /\ Busy(c) /\ f.pub = L /\ L \in 1 .. L /\ f.pos <= LastPos(L)
      /\ \A d \in Callers : d # c => ~Busy(d)
  BY <1>1 DEF WriteFrame, CMTypeOK, Sequential, OneAtATime, Busy
<1>3. LastPos(L) \in Nat
  BY <1>2, LastPosType DEF CMTypeOK
<1>4. UNCHANGED <<published, link, channel, assembly, processed>>
  BY DEF WriteFrame
<1>5. \A n \in 1 .. L : n # L => outcome'[n] = outcome[n]
  BY <1>1, <1>2 DEF WriteFrame, NextFrame, CMTypeOK
<1>6. \A d \in Callers : d # c => publishing'[d] = Idle
  BY <1>2 DEF WriteFrame, NextFrame, Busy, CMTypeOK
<1>7. \/ f.pos = LastPos(L) /\ publishing'[c] = Idle /\ outcome'[L] = "ok"
      \/ /\ f.pos # LastPos(L)
         /\ publishing'[c] = [pub |-> L, pos |-> f.pos + 1]
         /\ outcome'[L] = outcome[L]
  BY <1>1, <1>2 DEF WriteFrame, NextFrame, CMTypeOK
<1>8. OneAtATime'
  <2>1. \A d \in Callers : Busy(d)' => d = c
    BY <1>6 DEF Busy
  <2>2. LastPos(L)' = LastPos(L)
    BY <1>4 DEF LastPos
  <2>3. Busy(c)' =>
          /\ publishing'[c].pub = L
          /\ publishing'[c].pos <= LastPos(L)
          /\ outcome'[L] = "running"
    BY <1>2, <1>3, <1>7 DEF Busy, Sequential, OneAtATime, Frame
  <2>4. P < L
    BY <1>2 DEF Sequential, OneAtATime
  <2> QED
    BY <1>4, <2>1, <2>2, <2>3, <2>4 DEF OneAtATime
<1>9. Delivered' /\ NoFailureYet'
  <2>1. outcome'[L] # "failed" \/ (\A n \in 1 .. L : outcome'[n] = outcome[n])
    BY <1>5, <1>7
  <2>2. \A n \in 1 .. L : Content(n)' = Content(n)
    BY <1>4 DEF Content, LastPos
  <2>3. \A n \in 1 .. P : processed[n] = Content(n) /\ n \in 1 .. L /\ outcome[n] # "failed"
    BY <1>1 DEF Sequential, Delivered
  <2>4. P <= L /\ (link # "error" => \A n \in 1 .. L : outcome[n] # "failed")
    BY DEF Sequential, Delivered, NoFailureYet
  <2>5. \A n \in 1 .. L : outcome[n] # "failed" => outcome'[n] # "failed"
    BY <1>5, <2>1
  <2> QED
    BY <1>4, <2>2, <2>3, <2>4, <2>5 DEF Delivered, NoFailureYet
<1>10. ChannelCause'
  BY <1>4 DEF Sequential, ChannelCause
<1>11. ASSUME link' = "up", channel' = "open" PROVE (AssemblyInStep /\ WireInStep /\ CallerInStep)'
  <2>1. AssemblyInStep /\ WireInStep /\ CallerInStep /\ link = "up"
    BY <1>4, <1>11 DEF Sequential, InStep
  <2>2. wire' = Append(wire, f) /\ f = WriteCursor
    BY <1>2, <2>1 DEF WriteFrame, WrittenAs, CallerInStep
  <2>3. /\ Len(wire') = Len(wire) + 1 /\ Len(wire) \in Nat
        /\ wire'[Len(wire) + 1] = f
        /\ \A j \in 1 .. Len(wire) : wire'[j] = wire[j]
    BY <1>2, <2>2, AppendProperties, LenProperties DEF CMTypeOK
  <2>4. Before(f, NextOf(f)) /\ NextOf(f) \in Frame
    BY <1>2, <1>3, BeforeNext
  <2>5. \A g : NextOf(g)' = NextOf(g)
    BY <1>4 DEF NextOf, LastPos
  <2>6. WriteCursor' = NextOf(f)
    <3>1. wire' # <<>> /\ wire'[Len(wire')] = f
      BY <2>3
    <3> QED
      BY <2>5, <3>1 DEF WriteCursor
  <2>7. AssemblyInStep'
    BY <1>4, <2>1 DEF AssemblyInStep
  <2>8. WireInStep'
    <3>1. \A j \in 1 .. Len(wire) : wire[j] \in Frame /\ Before(wire[j], NextOf(f))
      <4> TAKE j \in 1 .. Len(wire)
      <4>1. wire[j] \in Frame /\ Before(wire[j], f)
        BY <2>1, <2>2, ElementOfSeq DEF WireInStep, CMTypeOK
      <4> QED
        BY <1>2, <2>4, <4>1, BeforeTransitive
    <3>2. \A j \in 1 .. Len(wire) + 1 :
            /\ wire'[j].pub \in 1 .. L
            /\ wire'[j].pos <= LastPos(wire'[j].pub)
            /\ Before(wire'[j], NextOf(f))
      BY <1>2, <2>1, <2>3, <2>4, <3>1 DEF WireInStep
    <3>3. \A j \in 1 .. Len(wire) + 1 : LastPos(wire'[j].pub) = LastPos(wire[j].pub)'
      BY <1>4 DEF LastPos
    <3>4. wire'[1] = ReadCursor
      BY <2>1, <2>2, <2>3, EmptySeq DEF WireInStep, WriteCursor, CMTypeOK
    <3>5. \A j \in 1 .. Len(wire) : wire'[j + 1] = NextOf(wire'[j])
      <4> TAKE j \in 1 .. Len(wire)
      <4>1. CASE j < Len(wire)
        BY <2>1, <2>3, <4>1 DEF WireInStep
      <4>2. CASE j = Len(wire)
        BY <2>2, <2>3, <4>2 DEF WriteCursor
      <4> QED
        BY <2>3, <4>1, <4>2
    <3>6. ReadCursor' = ReadCursor
      BY <1>4 DEF ReadCursor
    <3> QED
      BY <1>4, <2>3, <2>5, <2>6, <3>2, <3>3, <3>4, <3>5, <3>6 DEF WireInStep, Before
  <2>9. CallerInStep'
    BY <1>2, <1>4, <1>6, <1>7, <2>6 DEF CallerInStep, NextOf, Busy, Idle, Frame
  <2> QED
    BY <2>7, <2>8, <2>9
<1> QED
  BY <1>8, <1>9, <1>10, <1>11 DEF Sequential, InStep

------------------------------------------------------------------------------
(* A call throws, or the connection is lost: the run is no longer of any     *)
(* consequence, and the publication that failed is not one the broker has.   *)

LEMMA SequentialPublishFails ==
  ASSUME CMTypeOK, Sequential, NEW c \in Callers, PublishFails(c)
  PROVE  Sequential'
<1> DEFINE L == Len(published)
           P == Len(processed)
<1> USE DEF brokerVars
<1>1. L \in Nat /\ P \in Nat /\ L = Len(outcome)
  BY LenProperties DEF CMTypeOK
<1>2. publishing[c].pub = L /\ P < L /\ \A d \in Callers : d # c => ~Busy(d)
  BY DEF PublishFails, CMTypeOK, Sequential, OneAtATime, Busy
<1>3. /\ UNCHANGED <<published, channel, processed>>
      /\ link' = "error"
      /\ \A n \in 1 .. L : n # L => outcome'[n] = outcome[n]
  BY <1>1, <1>2 DEF PublishFails, CMTypeOK
<1>4. \A d \in Callers : ~Busy(d)'
  BY <1>2 DEF PublishFails, Busy, CMTypeOK
<1>5. \A n \in 1 .. L : Content(n)' = Content(n)
  BY <1>3 DEF Content, LastPos
<1>6. OneAtATime'
  BY <1>4 DEF OneAtATime
<1>7. Delivered'
  <2>1. \A n \in 1 .. P : n \in 1 .. L /\ n # L
    BY <1>1, <1>2
  <2> QED
    BY <1>2, <1>3, <1>5, <2>1 DEF Sequential, Delivered
<1>8. ChannelCause' /\ NoFailureYet' /\ InStep'
  BY <1>3 DEF Sequential, ChannelCause, NoFailureYet, InStep
<1> QED
  BY <1>6, <1>7, <1>8 DEF Sequential

\* Steps that change neither what callers do nor what the broker has got.
LEMMA SequentialUnaffected ==
  ASSUME Sequential, UNCHANGED <<clientVars, channel, processed>>,
         link' = link \/ (link = "up" /\ link' = "broken"), InStep'
  PROVE  Sequential'
<1> USE DEF clientVars
<1>1. \A n : Content(n)' = Content(n) /\ LastPos(n)' = LastPos(n)
  BY DEF Content, LastPos
<1>2. OneAtATime'
  BY <1>1 DEF Sequential, OneAtATime, Busy
<1>3. Delivered'
  BY <1>1 DEF Sequential, Delivered
<1>4. ChannelCause' 
  BY DEF Sequential, ChannelCause
<1> QED
  BY <1>2, <1>3, <1>4 DEF Sequential, NoFailureYet

LEMMA SequentialLinkBreaks ==
  ASSUME Sequential, LinkBreaks
  PROVE  Sequential'
<1>1. InStep'
  BY DEF LinkBreaks, InStep
<1> QED
  BY <1>1, SequentialUnaffected DEF LinkBreaks

LEMMA SequentialBrokerIgnores ==
  ASSUME Sequential, BrokerIgnores
  PROVE  Sequential'
<1>1. InStep'
  BY DEF BrokerIgnores, InStep, brokerVars
<1>2. UNCHANGED <<clientVars, channel, processed>> /\ link' = link
  BY DEF BrokerIgnores, brokerVars
<1> QED
  BY <1>1, <1>2, SequentialUnaffected

------------------------------------------------------------------------------
(* The broker reads a frame: the beginning of the run moves by one frame. *)

\* The next frame that the broker reads is the one it wants.
LEMMA HeadOfRun ==
  ASSUME CMTypeOK, Sequential, link = "up", channel = "open", wire # <<>>
  PROVE  LET n == Len(processed) + 1
             A == Len(assembly) IN
         /\ Head(wire) = [pub |-> n, pos |-> A]
         /\ n \in 1 .. Len(published)
         /\ A \in Nat /\ LastPos(n) \in Nat
         /\ A <= LastPos(n)
         /\ Before(Head(wire), WriteCursor)
         /\ Complete(Append(assembly, Head(wire))) <=> A = LastPos(n)
         /\ Acceptable(Head(wire))
<1> DEFINE n == Len(processed) + 1
           A == Len(assembly)
           content == Append(assembly, Head(wire))
<1>1. AssemblyInStep /\ WireInStep
  BY DEF Sequential, InStep
<1>2. 1 \in 1 .. Len(wire) /\ Head(wire) = wire[1] /\ A \in Nat /\ Len(processed) \in Nat
  BY EmptySeq, LenProperties, HeadTailProperties DEF CMTypeOK
<1>3. Head(wire) = [pub |-> n, pos |-> A] /\ Head(wire) \in Frame
  BY <1>1, <1>2 DEF WireInStep, ReadCursor, Frame
<1>4. n \in 1 .. Len(published) /\ A <= LastPos(n) /\ Before(Head(wire), WriteCursor)
  BY <1>1, <1>2, <1>3 DEF WireInStep
<1>5. LastPos(n) \in Nat /\ LastPos(n) >= 1
  BY <1>4, LastPosType DEF CMTypeOK
<1>6. /\ Len(content) = A + 1
      /\ content[A + 1] = Head(wire)
      /\ \A k \in 1 .. A : content[k] = assembly[k]
  BY <1>3, AppendProperties DEF CMTypeOK
<1>7. A >= 1 => content[2].pub = n
  <2> SUFFICES ASSUME A >= 1 PROVE content[2].pub = n
    OBVIOUS
  <2>1. CASE A = 1
    BY <1>3, <1>6, <2>1
  <2>2. CASE A # 1
    <3>1. A \in Nat
      BY <1>2
    <3>2. 2 \in 1 .. A
      <4>1. \A m \in Nat : m >= 1 /\ m # 1 => 2 \in 1 .. m
        OBVIOUS
      <4> QED
        BY <2>2, <3>1, <4>1
    <3>3. assembly[2] = [pub |-> n, pos |-> 2 - 1]
      BY <1>1, <3>2 DEF AssemblyInStep
    <3>4. content[2] = assembly[2]
      BY <1>6, <3>2
    <3> QED
      BY <3>3, <3>4
  <2> QED
    BY <2>1, <2>2
<1>8. Complete(content) <=> A = LastPos(n)
  BY <1>2, <1>5, <1>6, <1>7 DEF Complete
<1>9. Acceptable(Head(wire))
  BY <1>2, <1>3 DEF Acceptable, PartOf, PartWanted, Garbled
<1> QED
  BY <1>2, <1>3, <1>4, <1>5, <1>8, <1>9

\* If the broker is where the frame after the one it read would put it, the
\* rest of the run is in its place.
LEMMA RestOfRun ==
  ASSUME CMTypeOK, Sequential, link = "up", channel = "open", wire # <<>>,
         UNCHANGED clientVars, wire' = Tail(wire), ReadCursor' = NextOf(Head(wire))
  PROVE  (WireInStep /\ CallerInStep)'
<1> USE DEF clientVars
<1>1. WireInStep /\ CallerInStep
  BY DEF Sequential, InStep
<1>2. /\ Len(wire) \in Nat \ {0} /\ Head(wire) = wire[1] /\ Len(wire') = Len(wire) - 1
      /\ \A j \in 1 .. Len(wire) - 1 : wire'[j] = wire[j + 1]
  BY EmptySeq, HeadTailProperties DEF CMTypeOK
<1>3. \A n : LastPos(n)' = LastPos(n)
  BY DEF LastPos
<1>4. \A g : NextOf(g)' = NextOf(g)
  BY <1>3 DEF NextOf
<1>5. WriteCursor' = WriteCursor
  <2>1. CASE Len(wire) = 1
    <3>1. wire' \in Seq(Frame) /\ Len(wire') = 0
      BY <1>2, <2>1, HeadTailProperties DEF CMTypeOK
    <3>2. wire' = <<>>
      BY <3>1, EmptySeq
    <3> QED
      BY <1>2, <2>1, <3>2 DEF WriteCursor
  <2>2. CASE Len(wire) > 1
    <3>1. wire' # <<>>
      BY <1>2, <2>2, EmptySeq
    <3>2. Len(wire') \in 1 .. Len(wire) - 1 /\ Len(wire') + 1 = Len(wire)
      BY <1>2, <2>2
    <3>3. wire'[Len(wire')] = wire[Len(wire)]
      BY <1>2, <3>2
    <3> QED
      BY <1>4, <1>2, <2>2, <3>1, <3>3, EmptySeq DEF WriteCursor
  <2> QED
    BY <1>2, <2>1, <2>2
<1>6. WireInStep'
  <2>1. \A j \in 1 .. Len(wire) - 1 :
          /\ wire'[j].pub \in 1 .. Len(published)
          /\ wire'[j].pos <= LastPos(wire[j + 1].pub)
          /\ LastPos(wire[j].pub)' = LastPos(wire[j + 1].pub)
          /\ Before(wire'[j], WriteCursor)
    <3> TAKE j \in 1 .. Len(wire) - 1
    <3>1. j + 1 \in 1 .. Len(wire) /\ wire'[j] = wire[j + 1]
      BY <1>2
    <3> QED
      BY <1>1, <1>3, <3>1 DEF WireInStep, LastPos
  <2>2. \A j \in 1 .. Len(wire) - 2 : wire'[j + 1] = NextOf(wire'[j])
    <3> TAKE j \in 1 .. Len(wire) - 2
    <3>1. j + 1 \in 1 .. Len(wire) - 1 /\ wire'[j] = wire[j + 1] /\ wire'[j + 1] = wire[(j + 1) + 1]
      BY <1>2
    <3> QED
      BY <1>1, <3>1 DEF WireInStep
  <2>3. wire' # <<>> => wire'[1] = NextOf(Head(wire))
    BY <1>1, <1>2 DEF WireInStep
  <2> QED
    BY <1>2, <1>4, <1>5, <2>1, <2>2, <2>3 DEF WireInStep, Before
<1>7. CallerInStep'
  BY <1>1, <1>5 DEF CallerInStep, Busy
<1> QED
  BY <1>6, <1>7

LEMMA SequentialBrokerReads ==
  ASSUME CMTypeOK, Sequential, BrokerReads
  PROVE  Sequential'
<1> DEFINE n == Len(processed) + 1
           A == Len(assembly)
<1>1. /\ link = "up" /\ channel = "open" /\ wire # <<>>
      /\ UNCHANGED <<clientVars, link, channel, processed>>
      /\ wire' = Tail(wire) /\ assembly' = Append(assembly, Head(wire))
  BY DEF BrokerReads
<1>2. /\ Head(wire) = [pub |-> n, pos |-> A]
      /\ A \in Nat /\ A # LastPos(n) /\ Head(wire) \in Frame
  BY <1>1, HeadOfRun, HeadTailProperties DEF BrokerReads, CMTypeOK
<1>3. NextOf(Head(wire)) = [pub |-> n, pos |-> A + 1]
  BY <1>2 DEF NextOf
<1>4. /\ Len(assembly') = A + 1
      /\ assembly'[A + 1] = Head(wire)
      /\ \A k \in 1 .. A : assembly'[k] = assembly[k]
  BY <1>1, <1>2, AppendProperties DEF CMTypeOK
<1>5. ReadCursor' = NextOf(Head(wire))
  BY <1>1, <1>3, <1>4 DEF ReadCursor
<1>6. AssemblyInStep'
  BY <1>1, <1>2, <1>4 DEF Sequential, InStep, AssemblyInStep
<1>7. InStep'
  BY <1>1, <1>5, <1>6, RestOfRun DEF InStep
<1>8. UNCHANGED <<clientVars, channel, processed>> /\ link' = link
  BY <1>1
<1> QED
  BY <1>7, <1>8, SequentialUnaffected

LEMMA SequentialBrokerRejects ==
  ASSUME CMTypeOK, Sequential, BrokerRejects
  PROVE  FALSE
BY HeadOfRun DEF BrokerRejects

\* What the broker has put together is the content it should be.
LEMMA CompletedContent ==
  ASSUME CMTypeOK, Sequential, BrokerCompletes
  PROVE  LET n == Len(processed) + 1 IN
         /\ Append(assembly, Head(wire)) = Content(n)
         /\ Append(assembly, Head(wire))[1].pub = n
         /\ NextOf(Head(wire)) = [pub |-> n + 1, pos |-> 0]
<1> DEFINE n == Len(processed) + 1
           A == Len(assembly)
           content == Append(assembly, Head(wire))
<1>1. link = "up" /\ channel = "open" /\ wire # <<>> /\ Complete(content)
  BY DEF BrokerCompletes
<1>2. /\ Head(wire) = [pub |-> n, pos |-> A] /\ n \in 1 .. Len(published)
      /\ A \in Nat /\ A = LastPos(n) /\ Head(wire) \in Frame
  BY <1>1, HeadOfRun, HeadTailProperties DEF CMTypeOK
<1>3. AssemblyInStep
  BY <1>1 DEF Sequential, InStep
<1>4. /\ content \in Seq(Frame) /\ Len(content) = A + 1
      /\ content[A + 1] = Head(wire)
      /\ \A k \in 1 .. A : content[k] = assembly[k]
  BY <1>2, AppendProperties DEF CMTypeOK
<1>5. \A k \in 1 .. A + 1 : content[k] = [pub |-> n, pos |-> k - 1]
  <2> TAKE k \in 1 .. A + 1
  <2>1. CASE k = A + 1
    BY <1>2, <1>4, <2>1
  <2>2. CASE k # A + 1
    <3>1. k \in 1 .. A
      BY <1>2, <2>2
    <3> QED
      BY <1>3, <1>4, <3>1 DEF AssemblyInStep
  <2> QED
    BY <2>1, <2>2
<1>6. content = Content(n)
  <2>1. content = [k \in 1 .. A + 1 |-> content[k]]
    BY <1>4, LenProperties
  <2> QED
    BY <1>2, <1>5, <2>1 DEF Content
<1>7. content[1].pub = n
  <2>1. 1 \in 1 .. A + 1
    BY <1>2
  <2>2. content[1] = [pub |-> n, pos |-> 1 - 1]
    BY <1>5, <2>1
  <2> QED
    BY <2>2
<1>8. NextOf(Head(wire)) = [pub |-> n + 1, pos |-> 0]
  BY <1>2 DEF NextOf
<1> QED
  BY <1>6, <1>7, <1>8

LEMMA SequentialBrokerCompletes ==
  ASSUME CMTypeOK, Sequential, BrokerCompletes
  PROVE  Sequential'
<1> DEFINE L == Len(published)
           P == Len(processed)
           content == Append(assembly, Head(wire))
<1> USE DEF clientVars
<1>1. /\ link = "up" /\ channel = "open" /\ wire # <<>>
      /\ UNCHANGED <<clientVars, link>>
      /\ wire' = Tail(wire) /\ assembly' = <<>>
  BY DEF BrokerCompletes
<1>2. L \in Nat /\ P \in Nat /\ P + 1 \in 1 .. L
  BY <1>1, HeadOfRun, LenProperties DEF CMTypeOK
<1>3. /\ content = Content(P + 1) /\ content[1].pub = P + 1
      /\ NextOf(Head(wire)) = [pub |-> (P + 1) + 1, pos |-> 0]
  BY CompletedContent
<1>4. \A n : Content(n)' = Content(n) /\ LastPos(n)' = LastPos(n)
  BY <1>1 DEF Content, LastPos
<1>5. NoFailureYet'
  BY <1>1 DEF Sequential, NoFailureYet
<1>6. CASE published[P + 1].exchange \in Exchanges
  <2>1. processed' = Append(processed, content) /\ channel' = channel
    BY <1>3, <1>6 DEF BrokerCompletes
  <2>2. /\ Len(processed') = P + 1
        /\ processed'[P + 1] = content
        /\ \A n \in 1 .. P : processed'[n] = processed[n]
    <3>1. content \in Seq(Frame)
      BY <1>1, HeadTailProperties, AppendProperties DEF CMTypeOK
    <3> QED
      BY <2>1, <3>1, AppendProperties DEF CMTypeOK
  <2>3. ReadCursor' = NextOf(Head(wire))
    BY <1>1, <1>3, <2>2 DEF ReadCursor
  <2>4. Delivered'
    <3>1. \A n \in 1 .. P : processed'[n] = Content(n)' /\ outcome'[n] # "failed"
      BY <1>1, <1>4, <2>2 DEF Sequential, Delivered
    <3>2. processed'[P + 1] = Content(P + 1) /\ outcome'[P + 1] # "failed"
      BY <1>1, <1>2, <1>3, <2>2 DEF Sequential, NoFailureYet
    <3>3. \A n \in 1 .. P + 1 : processed'[n] = Content(n)' /\ outcome'[n] # "failed"
      BY <1>2, <1>4, <3>1, <3>2
    <3> QED
      BY <1>1, <1>2, <2>2, <3>3 DEF Delivered
  <2>5. OneAtATime'
    <3>1. \A c \in Callers : Busy(c) => P + 1 < L
      <4> TAKE c \in Callers
      <4> SUFFICES ASSUME Busy(c) PROVE P + 1 < L
        OBVIOUS
      <4>1. publishing[c] = WriteCursor /\ publishing[c].pub = L /\ publishing[c].pos <= LastPos(L)
        BY <1>1 DEF Sequential, InStep, CallerInStep, OneAtATime
      <4>2. Before(Head(wire), publishing[c]) /\ Head(wire) = [pub |-> P + 1, pos |-> LastPos(P + 1)]
        BY <1>1, <4>1, HeadOfRun DEF BrokerCompletes
      <4>3. LastPos(P + 1) \in Nat /\ publishing[c].pos \in Nat
        BY <1>2, LastPosType DEF CMTypeOK, Frame
      <4> QED
        BY <1>2, <4>1, <4>2, <4>3 DEF Before
    <3> QED
      BY <1>1, <1>4, <2>2, <3>1 DEF Sequential, OneAtATime, Busy
  <2>6. ChannelCause'
    BY <1>1, <2>1 DEF Sequential, ChannelCause
  <2>7. InStep'
    <3>1. AssemblyInStep'
      BY <1>1 DEF AssemblyInStep
    <3> QED
      BY <1>1, <2>3, <3>1, RestOfRun DEF InStep
  <2> QED
    BY <1>5, <2>4, <2>5, <2>6, <2>7 DEF Sequential
<1>7. CASE published[P + 1].exchange \notin Exchanges
  <2>1. processed' = processed /\ channel' = "closing"
    BY <1>3, <1>7 DEF BrokerCompletes
  <2>2. OneAtATime' /\ Delivered'
    BY <1>1, <1>4, <2>1 DEF Sequential, OneAtATime, Delivered, Busy
  <2>3. ChannelCause'
    BY <1>1, <1>2, <1>7, <2>1 DEF ChannelCause
  <2>4. InStep'
    BY <2>1 DEF InStep
  <2> QED
    BY <1>5, <2>2, <2>3, <2>4 DEF Sequential
<1> QED
  BY <1>6, <1>7

------------------------------------------------------------------------------
(* The theorems. *)

LEMMA Step == IInv /\ [CMNext]_cmVars => IInv'
<1> SUFFICES ASSUME IInv, [CMNext]_cmVars, ~overlapped' PROVE Sequential'
  BY TypeNext DEF IInv
<1>1. ~overlapped
  BY DEF CMNext, cmVars, clientVars, basic_publish, WriteFrame, PublishFails, BrokerStep,
         BrokerReads, BrokerCompletes, BrokerRejects, BrokerIgnores, LinkBreaks
<1>2. CMTypeOK /\ Sequential
  BY <1>1 DEF IInv
<1>3. CASE \E c \in Callers, p \in Publication : basic_publish(c, p)
  BY <1>2, <1>3, SequentialBasicPublish
<1>4. CASE \E c \in Callers : WriteFrame(c) \/ PublishFails(c)
  BY <1>1, <1>2, <1>4, SequentialWriteFrame, SequentialPublishFails
<1>5. CASE BrokerStep
  BY <1>2, <1>5, SequentialBrokerReads, SequentialBrokerCompletes, SequentialBrokerRejects,
     SequentialBrokerIgnores DEF BrokerStep
<1>6. CASE LinkBreaks
  BY <1>2, <1>6, SequentialLinkBreaks
<1>7. CASE UNCHANGED cmVars
  <2>1. UNCHANGED <<clientVars, channel, processed>> /\ link' = link /\ UNCHANGED <<wire, assembly>>
    BY <1>7 DEF cmVars, brokerVars
  <2>2. InStep'
    BY <1>2, <2>1 DEF Sequential, InStep, AssemblyInStep, WireInStep, CallerInStep, ReadCursor,
          WriteCursor, NextOf, LastPos, Before, Busy, clientVars
  <2> QED
    BY <1>2, <2>1, <2>2, SequentialUnaffected
<1> QED
  BY <1>3, <1>4, <1>5, <1>6, <1>7 DEF CMNext

LEMMA Invariant == CMSpec => []IInv
<1>1. CMInit => IInv
  BY TypeInit, SequentialInit DEF IInv
<1> QED
  BY <1>1, Step, PTL DEF CMSpec

\* While calls of basic_publish do not overlap, the broker has accepted a prefix
\* of what was published, whole and in order.
THEOREM PrefixDeliveryHolds == CMSpec => []PrefixDelivery
<1>1. IInv => PrefixDelivery
  BY DEF IInv, Sequential, Delivered, PrefixDelivery
<1> QED
  BY <1>1, Invariant, PTL

\* While calls do not overlap, a publication whose send threw has not been
\* accepted, so it can be sent again on another connection.
THEOREM FailedNeverProcessedHolds == CMSpec => []FailedNeverProcessed
<1>1. IInv => FailedNeverProcessed
  BY DEF IInv, Sequential, Delivered, FailedNeverProcessed
<1> QED
  BY <1>1, Invariant, PTL

\* The broker sees a frame out of place only if calls have overlapped.
THEOREM DeadHasCauseHolds == CMSpec => []DeadHasCause
<1>1. IInv => DeadHasCause
  BY DEF IInv, Sequential, ChannelCause, DeadHasCause
<1> QED
  BY <1>1, Invariant, PTL

\* A publication that is lost although its send returned, on a connection that
\* is up and drained, is lost to a channel closed for an unknown exchange.
THEOREM LossHasCauseHolds == CMSpec => []LossHasCause
<1>1. IInv => LossHasCause
  <2> SUFFICES ASSUME IInv, ~overlapped, link = "up", wire = <<>>,
                      NEW n \in Len(processed) + 1 .. Len(published), outcome[n] = "ok"
               PROVE  channel = "closing" /\ published[Len(processed) + 1].exchange \notin Exchanges
    BY DEF LossHasCause
  <2>1. CMTypeOK /\ Sequential /\ Len(published) \in Nat /\ Len(processed) \in Nat
    BY LenProperties DEF IInv, CMTypeOK
  <2>2. CASE channel = "open"
    <3>1. CallerInStep /\ WriteCursor = ReadCursor
      BY <2>1, <2>2 DEF Sequential, InStep, WriteCursor
    <3>2. CASE \E c \in Callers : Busy(c)
      <4>1. PICK c \in Callers : Busy(c)
        BY <3>2
      <4>2. Len(published) = Len(processed) + 1 /\ outcome[Len(published)] = "running"
        BY <2>1, <3>1, <4>1 DEF Sequential, OneAtATime, CallerInStep, ReadCursor
      <4> QED
        BY <2>1, <4>2
    <3>3. CASE \A c \in Callers : ~Busy(c)
      BY <2>1, <3>1, <3>3 DEF CallerInStep, ReadCursor
    <3> QED
      BY <3>2, <3>3
  <2>3. CASE channel # "open"
    BY <2>1, <2>3 DEF CMTypeOK, Sequential, ChannelCause
  <2> QED
    BY <2>2, <2>3
<1> QED
  BY <1>1, Invariant, PTL

------------------------------------------------------------------------------
(* Refinement: with one caller, publishing is an ordered delivery. *)

OneCaller == \A c, d \in Callers : c = d

AInv == IInv /\ ~overlapped

\* What OrderedDelivery calls delivered, when every content is in its place.
DeliveredSoFar == [n \in 1 .. Len(processed) |-> published[n]]

DeliveredIsPrefix ==
  [n \in 1 .. Len(processed) |-> published[processed[n][1].pub]] = DeliveredSoFar

LEMMA PrefixOfPublished == AInv => DeliveredIsPrefix
<1> SUFFICES ASSUME AInv PROVE DeliveredIsPrefix
  OBVIOUS
<1>1. CMTypeOK /\ Sequential
  BY DEF AInv, IInv
<1>2. Len(published) \in Nat /\ Len(processed) \in Nat /\ Len(processed) <= Len(published)
  BY <1>1, LenProperties DEF CMTypeOK, Sequential, Delivered
<1>3. ASSUME NEW n \in 1 .. Len(processed) PROVE processed[n][1].pub = n
  <2>1. processed[n] = Content(n) /\ n \in 1 .. Len(published)
    BY <1>1, <1>2 DEF Sequential, Delivered
  <2>2. 1 \in 1 .. LastPos(n) + 1
    BY <1>1, <2>1, LastPosType DEF CMTypeOK
  <2>3. Content(n)[1] = [pub |-> n, pos |-> 1 - 1]
    BY <2>2 DEF Content
  <2> QED
    BY <2>1, <2>3
<1> QED
  BY <1>3 DEF DeliveredSoFar, DeliveredIsPrefix

LEMMA OneCallerNeverOverlaps ==
  ASSUME OneCaller, ~overlapped, [CMNext]_cmVars
  PROVE  ~overlapped'
<1>1. ASSUME NEW c \in Callers, NEW p \in Publication, basic_publish(c, p) PROVE ~overlapped'
  BY <1>1 DEF OneCaller, basic_publish
<1> QED
  BY <1>1 DEF CMNext, cmVars, clientVars, WriteFrame, PublishFails, BrokerStep,
         BrokerReads, BrokerCompletes, BrokerRejects, BrokerIgnores, LinkBreaks

LEMMA RefinementInit == CMInit => Abstract!Init
<1> SUFFICES ASSUME CMInit PROVE Abstract!Init
  OBVIOUS
<1>1. published = <<>> /\ Len(processed) = 0 /\ link = "up" /\ channel = "open"
  BY EmptySeq DEF CMInit
<1>2. [n \in 1 .. Len(processed) |-> published[processed[n][1].pub]] = <<>>
  BY <1>1
<1> QED
  BY <1>1, <1>2 DEF Abstract!Init

\* Steps after which the same is requested and delivered.
LEMMA RefinementQuiet ==
  ASSUME AInv, UNCHANGED <<published, processed>>,
         \/ UNCHANGED <<link, channel>>
         \/ link = "up" /\ link' = "broken" /\ channel' = channel
         \/ link # "up" /\ link' # "up"
         \/ link = "up" /\ channel = "open" /\ channel' # "open"
  PROVE  [Abstract!Next]_Abstract!vars
<1>1. CASE link = "up" /\ channel = "open" /\ ~(link' = "up" /\ channel' = "open")
  BY <1>1 DEF Abstract!Next, Abstract!Close
<1>2. CASE ~(link = "up" /\ channel = "open" /\ ~(link' = "up" /\ channel' = "open"))
  BY <1>2 DEF Abstract!vars
<1> QED
  BY <1>1, <1>2

LEMMA RefinementRequest ==
  ASSUME AInv, DeliveredIsPrefix, DeliveredIsPrefix', NEW c \in Callers, NEW p \in Publication, basic_publish(c, p)
  PROVE  Abstract!Request
<1>1. CMTypeOK /\ Len(processed) \in Nat /\ Len(published) \in Nat /\ Len(processed) <= Len(published)
  BY LenProperties DEF AInv, IInv, CMTypeOK, Sequential, Delivered
<1>2. /\ published' = Append(published, p) /\ processed' = processed
      /\ link' = link /\ channel' = channel
  BY DEF basic_publish, brokerVars
<1>3. \A n \in 1 .. Len(processed) : published'[n] = published[n]
  BY <1>1, <1>2, AppendProperties DEF CMTypeOK
<1>4. DeliveredSoFar' = DeliveredSoFar
  BY <1>2, <1>3 DEF DeliveredSoFar
<1>5. [n \in 1 .. Len(processed) |-> published[processed[n][1].pub]]'
        = [n \in 1 .. Len(processed) |-> published[processed[n][1].pub]]
  BY <1>4 DEF DeliveredIsPrefix
<1> QED
  BY <1>2, <1>5 DEF Abstract!Request

LEMMA RefinementCompletes ==
  ASSUME AInv, DeliveredIsPrefix, DeliveredIsPrefix', BrokerCompletes
  PROVE  Abstract!Deliver \/ Abstract!Close
<1> DEFINE P == Len(processed)
           content == Append(assembly, Head(wire))
<1>1. CMTypeOK /\ Sequential
  BY DEF AInv, IInv
<1>2. /\ link = "up" /\ channel = "open" /\ wire # <<>> /\ link' = link
      /\ published' = published
  BY DEF BrokerCompletes, clientVars
<1>3. P \in Nat /\ Len(published) \in Nat /\ P + 1 \in 1 .. Len(published)
  BY <1>1, <1>2, HeadOfRun, LenProperties DEF CMTypeOK
<1>4. content[1].pub = P + 1 /\ content \in Seq(Frame)
  BY <1>1, <1>2, CompletedContent, HeadTailProperties, AppendProperties DEF CMTypeOK
<1>5. CASE published[P + 1].exchange \in Exchanges
  <2>1. processed' = Append(processed, content) /\ channel' = channel
    BY <1>4, <1>5 DEF BrokerCompletes
  <2>2. Len(processed') = P + 1
    BY <1>1, <1>4, <2>1, AppendProperties DEF CMTypeOK
  <2>3. DeliveredSoFar \in Seq(Publication) /\ Len(DeliveredSoFar) = P
    BY <1>1, <1>3 DEF DeliveredSoFar, CMTypeOK
  <2>4. DeliveredSoFar' = Append(DeliveredSoFar, published[P + 1])
    BY <1>2, <1>3, <2>2, <2>3 DEF DeliveredSoFar
  <2>5. Abstract!Deliver
    <3>1. PICK d : d = DeliveredSoFar /\ d = [n \in 1 .. Len(processed) |-> published[processed[n][1].pub]]
      BY DEF DeliveredIsPrefix
    <3>2. [n \in 1 .. Len(processed) |-> published[processed[n][1].pub]]' = Append(d, published[P + 1])
      BY <2>4, <3>1 DEF DeliveredIsPrefix
    <3>3. Len(d) = P /\ P < Len(published)
      BY <1>3, <2>3, <3>1
    <3> QED
      BY <1>2, <2>1, <3>1, <3>2, <3>3 DEF Abstract!Deliver
  <2> QED
    BY <2>5
<1>6. CASE published[P + 1].exchange \notin Exchanges
  <2>1. processed' = processed /\ channel' = "closing"
    BY <1>4, <1>6 DEF BrokerCompletes
  <2> QED
    BY <1>2, <2>1 DEF Abstract!Close
<1> QED
  BY <1>5, <1>6

LEMMA RefinementStep ==
  ASSUME AInv, DeliveredIsPrefix, DeliveredIsPrefix', [CMNext]_cmVars
  PROVE  [Abstract!Next]_Abstract!vars
<1> USE DEF clientVars, brokerVars
<1>1. CMTypeOK /\ Sequential
  BY DEF AInv, IInv
<1>2. CASE \E c \in Callers, p \in Publication : basic_publish(c, p)
  BY <1>2, RefinementRequest DEF Abstract!Next
<1>3. CASE \E c \in Callers : WriteFrame(c) \/ PublishFails(c)
  BY <1>3, RefinementQuiet DEF WriteFrame, PublishFails
<1>4. CASE BrokerReads \/ BrokerIgnores
  BY <1>4, RefinementQuiet DEF BrokerReads, BrokerIgnores
<1>5. CASE BrokerCompletes
  BY <1>5, RefinementCompletes DEF Abstract!Next
<1>6. CASE BrokerRejects
  BY <1>1, <1>6, SequentialBrokerRejects
<1>7. CASE LinkBreaks
  BY <1>7, RefinementQuiet DEF LinkBreaks
<1>8. CASE UNCHANGED cmVars
  BY <1>8, RefinementQuiet DEF cmVars
<1> QED
  BY <1>2, <1>3, <1>4, <1>5, <1>6, <1>7, <1>8 DEF CMNext, BrokerStep

\* With a single caller, the connection does no more and no less than deliver
\* the publications in order until it is closed for good.
THEOREM ImplementsOrderedDelivery ==
  ASSUME OneCaller
  PROVE  CMSpec => OrderedDelivery
<1>1. CMInit => AInv
  BY TypeInit, SequentialInit DEF CMInit, AInv, IInv
<1>2. AInv /\ [CMNext]_cmVars => AInv'
  BY Step, OneCallerNeverOverlaps DEF AInv
<1>3. CMSpec => []AInv
  BY <1>1, <1>2, PTL DEF CMSpec
<1>4. AInv /\ DeliveredIsPrefix /\ DeliveredIsPrefix' /\ [CMNext]_cmVars
        => [Abstract!Next]_Abstract!vars
  BY RefinementStep
<1> QED
  BY <1>3, <1>4, PrefixOfPublished, RefinementInit, PTL
     DEF CMSpec, OrderedDelivery, Abstract!Spec

==============================================================================
