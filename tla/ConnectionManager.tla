-------------------------- MODULE ConnectionManager --------------------------
(***************************************************************************)
(* Publishing over the one AMQP connection that a ConnectionManager owns,  *)
(* once init() has connected, logged in and opened channel 1.  The calls   *)
(* of init() itself belong to CommonFactory.tla.                           *)
(*                                                                         *)
(* basic_publish and send_publish_command (ConnectionManager.h) run on the *)
(* caller's thread and take no lock.  Each publication leaves the process  *)
(* as a method frame, a header frame and BodyFrames(p) body frames.  The   *)
(* frames travel through a socket of bounded capacity to a broker that     *)
(* puts them together again.  librabbitmq and the broker are not part of   *)
(* the repository; they are modelled from how the code uses them: one      *)
(* channel, no publisher confirms, mandatory = 0, no heartbeat, and never  *)
(* a read from the connection after init().                                *)
(***************************************************************************)
EXTENDS Naturals, Sequences

CONSTANTS
  Callers,        \* the threads that publish through this connection
  Publication,    \* records with the exchange, routing key and payload
  BodyFrames(_),  \* number of body frames of a publication, 0 for 0 bytes
  Exchanges,      \* the exchanges that are declared in the broker
  SocketBuffer,   \* frames the socket holds before a write blocks
  MaxPublished    \* bound: number of publications in a behaviour

ASSUME ConnectionAssumption ==
  /\ \A p \in Publication : BodyFrames(p) \in Nat
  /\ SocketBuffer \in Nat \ {0}
  /\ MaxPublished \in Nat

VARIABLES
  published,    \* calls of basic_publish, in the order they were made
  outcome,      \* of each of them: "running", "ok" (returned), "failed" (threw)
  publishing,   \* per caller, the frame it is about to write
  overlapped,   \* history: have two calls ever been in progress at once?
  link,         \* "up", "broken" (client has not noticed), "error" (noticed)
  wire,         \* frames written and not yet read by the broker
  channel,      \* broker's view of channel 1: "open", "closing", "dead"
  assembly,     \* frames of the content the broker is putting together
  processed     \* contents the broker accepted, each a sequence of frames

clientVars == <<published, outcome, publishing, overlapped>>
brokerVars == <<channel, assembly, processed>>
cmVars == <<clientVars, link, wire, brokerVars>>

\* A frame: part pos of publication pub.  0 is the method, 1 the header.
Frame == [pub : Nat, pos : Nat]
Idle == [pub |-> 0, pos |-> 0]      \* of a caller: not in basic_publish
Garbled == [pub |-> 0, pos |-> 0]   \* of a frame: not what was to be written

LastPos(n) == 1 + BodyFrames(published[n])

CMTypeOK ==
  /\ published \in Seq(Publication)
  /\ outcome \in Seq({"running", "ok", "failed"})
  /\ Len(outcome) = Len(published)
  /\ publishing \in [Callers -> Frame]
  /\ \A c \in Callers : publishing[c] # Idle => publishing[c].pub \in 1 .. Len(published)
  /\ overlapped \in BOOLEAN
  /\ link \in {"up", "broken", "error"}
  /\ wire \in Seq(Frame)
  /\ channel \in {"open", "closing", "dead"}
  /\ assembly \in Seq(Frame)
  /\ processed \in Seq(Seq(Frame))

CMInit ==
  /\ published = <<>>
  /\ outcome = <<>>
  /\ publishing = [c \in Callers |-> Idle]
  /\ overlapped = FALSE
  /\ link = "up"
  /\ wire = <<>>
  /\ channel = "open"
  /\ assembly = <<>>
  /\ processed = <<>>

------------------------------------------------------------------------------
(* The client: one call of basic_publish is several steps. *)

\* Mutant: the number of the publication is off by one.
basic_publish_OffByOne(c, p) ==
  /\ publishing[c] = Idle
  /\ Len(published) < MaxPublished
  /\ published' = Append(published, p)
  /\ outcome' = Append(outcome, "running")
  /\ publishing' = [publishing EXCEPT ![c] = [pub |-> Len(published) + 2, pos |-> 0]]
  /\ overlapped' = (overlapped \/ \E d \in Callers : publishing[d] # Idle)
  /\ UNCHANGED <<link, wire, brokerVars>>

\* basic_publish enters amqp_basic_publish with no lock held: nothing keeps
\* another thread from being inside it.
basic_publish(c, p) ==
  /\ publishing[c] = Idle
  /\ Len(published) < MaxPublished
  /\ published' = Append(published, p)
  /\ outcome' = Append(outcome, "running")
  /\ publishing' = [publishing EXCEPT ![c] = [pub |-> Len(published) + 1, pos |-> 0]]
  /\ overlapped' = (overlapped \/ \E d \in Callers : publishing[d] # Idle)
  /\ UNCHANGED <<link, wire, brokerVars>>

\* Mutant: a publication may be sent again after it has been sent.
NextFrame_SendsAgain(c) ==
  LET f == publishing[c] IN
  /\ publishing' = [publishing EXCEPT ![c] =
                      IF f.pos = LastPos(f.pub) THEN [pub |-> f.pub, pos |-> 0]
                                                ELSE [pub |-> f.pub, pos |-> f.pos + 1]]
  /\ UNCHANGED outcome

\* Mutant: the status 0 of success is taken for a failure.
NextFrame_ThrowsOnZero(c) ==
  LET f == publishing[c] IN
  IF f.pos = LastPos(f.pub)
  THEN /\ publishing' = [publishing EXCEPT ![c] = Idle]
       /\ outcome' = [outcome EXCEPT ![f.pub] = "failed"]
  ELSE /\ publishing' = [publishing EXCEPT ![c] = [pub |-> f.pub, pos |-> f.pos + 1]]
       /\ UNCHANGED outcome

\* The caller goes on to its next frame; after the last one it returns.
NextFrame(c) ==
  LET f == publishing[c] IN
  IF f.pos = LastPos(f.pub)
  THEN /\ publishing' = [publishing EXCEPT ![c] = Idle]
       /\ outcome' = [outcome EXCEPT ![f.pub] = "ok"]
  ELSE /\ publishing' = [publishing EXCEPT ![c] = [pub |-> f.pub, pos |-> f.pos + 1]]
       /\ UNCHANGED outcome

\* Two threads inside amqp_basic_publish race on the connection's output
\* buffer, so once calls have overlapped a frame may be written garbled.
WrittenAs(f) == IF overlapped THEN {f, Garbled} ELSE {f}

\* Mutant: the last frame of a publication stays in a buffer.
WriteFrame_NoFlush(c) ==
  /\ publishing[c] # Idle
  /\ \/ /\ link = "up"
        /\ Len(wire) < SocketBuffer
        /\ wire' = IF publishing[c].pos = LastPos(publishing[c].pub)
                   THEN wire ELSE Append(wire, publishing[c])
     \/ /\ link = "broken"
        /\ UNCHANGED wire
  /\ NextFrame(c)
  /\ UNCHANGED <<published, overlapped, link, brokerVars>>

\* amqp_basic_publish hands one frame to the socket.  It blocks while the
\* socket is full.  After the peer is gone the kernel may go on accepting
\* frames that nobody will read.
WriteFrame(c) ==
  /\ publishing[c] # Idle
  /\ \/ /\ link = "up"
        /\ Len(wire) < SocketBuffer
        /\ \E f \in WrittenAs(publishing[c]) : wire' = Append(wire, f)
     \/ /\ link = "broken"
        /\ UNCHANGED wire
  /\ NextFrame(c)
  /\ UNCHANGED <<published, overlapped, link, brokerVars>>

\* Mutant: the failed publication is dropped and the connection made anew.
PublishFails_Reconnects(c) ==
  /\ publishing[c] # Idle
  /\ link \in {"broken", "error"}
  /\ link' = "up"
  /\ outcome' = [outcome EXCEPT ![publishing[c].pub] = "failed"]
  /\ publishing' = [publishing EXCEPT ![c] = Idle]
  /\ UNCHANGED <<published, overlapped, wire, brokerVars>>

\* Mutant: the publication is tried again until it succeeds.
PublishFails_RetriesForever(c) ==
  /\ publishing[c] # Idle
  /\ link \in {"broken", "error"}
  /\ link' = "error"
  /\ publishing' = [publishing EXCEPT ![c] = [pub |-> publishing[c].pub, pos |-> 0]]
  /\ UNCHANGED <<published, outcome, overlapped, wire, brokerVars>>

\* Mutant: a write that takes too long is given up, whatever has been written.
PublishFails_OnTimeout(c) ==
  /\ publishing[c] # Idle
  /\ outcome' = [outcome EXCEPT ![publishing[c].pub] = "failed"]
  /\ publishing' = [publishing EXCEPT ![c] = Idle]
  /\ UNCHANGED <<published, overlapped, link, wire, brokerVars>>

\* amqp_basic_publish returns a negative status and send_publish_command
\* throws.  Nothing reconnects: the same connection is used from then on.
PublishFails(c) ==
  /\ publishing[c] # Idle
  /\ link \in {"broken", "error"}
  /\ link' = "error"
  /\ outcome' = [outcome EXCEPT ![publishing[c].pub] = "failed"]
  /\ publishing' = [publishing EXCEPT ![c] = Idle]
  /\ UNCHANGED <<published, overlapped, wire, brokerVars>>

------------------------------------------------------------------------------
(* The broker and the network between. *)

PartOf(f) ==
  IF f = Garbled THEN "garbled"
  ELSE IF f.pos = 0 THEN "method" ELSE IF f.pos = 1 THEN "header" ELSE "body"

PartWanted ==
  IF Len(assembly) = 0 THEN "method" ELSE IF Len(assembly) = 1 THEN "header" ELSE "body"

\* A garbled frame may still look like a body frame.
Acceptable(f) ==
  \/ PartOf(f) = PartWanted
  \/ PartOf(f) = "garbled" /\ PartWanted = "body"

\* The header announces how much body follows.
Complete(frames) ==
  /\ Len(frames) >= 2
  /\ Len(frames) = LastPos(frames[2].pub) + 1

\* One frame of the content is read.
BrokerReads ==
  /\ link = "up" /\ channel = "open" /\ wire # <<>>
  /\ Acceptable(Head(wire))
  /\ ~Complete(Append(assembly, Head(wire)))
  /\ wire' = Tail(wire)
  /\ assembly' = Append(assembly, Head(wire))
  /\ UNCHANGED <<clientVars, link, channel, processed>>

\* The last frame is read.  A content for a declared exchange is accepted;
\* for any other the broker closes the channel with 404.
BrokerCompletes ==
  LET content == Append(assembly, Head(wire)) IN
  /\ link = "up" /\ channel = "open" /\ wire # <<>>
  /\ Acceptable(Head(wire))
  /\ Complete(content)
  /\ wire' = Tail(wire)
  /\ assembly' = <<>>
  /\ IF published[content[1].pub].exchange \in Exchanges
     THEN /\ processed' = Append(processed, content)
          /\ UNCHANGED channel
     ELSE /\ channel' = "closing"
          /\ UNCHANGED processed
  /\ UNCHANGED <<clientVars, link>>

\* A frame out of place is a connection error (501, 505): the broker closes.
BrokerRejects ==
  /\ link = "up" /\ channel = "open" /\ wire # <<>>
  /\ ~Acceptable(Head(wire))
  /\ channel' = "dead"
  /\ link' = "broken"
  /\ wire' = <<>>
  /\ assembly' = <<>>
  /\ UNCHANGED <<clientVars, processed>>

\* While the channel is closing the broker ignores everything but close-ok,
\* which the client, that never reads, never sends.
BrokerIgnores ==
  /\ link = "up" /\ channel = "closing" /\ wire # <<>>
  /\ wire' = Tail(wire)
  /\ UNCHANGED <<clientVars, link, brokerVars>>

\* The connection is lost with whatever is in flight.
LinkBreaks ==
  /\ link = "up"
  /\ link' = "broken"
  /\ wire' = <<>>
  /\ assembly' = <<>>
  /\ UNCHANGED <<clientVars, channel, processed>>

BrokerStep == BrokerReads \/ BrokerCompletes \/ BrokerRejects \/ BrokerIgnores

CMNext ==
  \/ \E c \in Callers :
        \/ \E p \in Publication : basic_publish(c, p)
        \/ WriteFrame(c)
        \/ PublishFails(c)
  \/ BrokerStep
  \/ LinkBreaks

CMSpec == CMInit /\ [][CMNext]_cmVars

\* A thread inside amqp_basic_publish is scheduled, and the broker reads what
\* it is sent (a broker that stops reading blocks its publishers for ever).
CMFairness ==
  /\ \A c \in Callers : WF_cmVars(WriteFrame(c) \/ PublishFails(c))
  /\ WF_cmVars(BrokerStep)

CMFairSpec == CMSpec /\ CMFairness

------------------------------------------------------------------------------
(* Properties. *)

\* Every frame of publication n, in order.
Content(n) == [k \in 1 .. LastPos(n) + 1 |-> [pub |-> n, pos |-> k - 1]]

\* As long as no two calls of basic_publish have overlapped, what the broker
\* has accepted is a prefix of what was published: whole contents, in the
\* order of the calls, none twice, none left out in the middle, even though
\* the connection can be lost between any two frames.
PrefixDelivery ==
  ~overlapped =>
    /\ Len(processed) <= Len(published)
    /\ \A n \in 1 .. Len(processed) : processed[n] = Content(n)

\* A publication whose send threw was not delivered and never will be, so
\* sending it again on a new connection cannot duplicate it.
FailedNeverProcessed ==
  ~overlapped => \A n \in 1 .. Len(processed) : outcome[n] # "failed"

\* When all that was written has been read, a publication whose send returned
\* normally and that the broker did not accept has one possible cause: an
\* earlier publication, perhaps of another router, named an exchange that
\* does not exist, and closed the channel that all routers share.
LossHasCause ==
  (~overlapped /\ link = "up" /\ wire = <<>>) =>
    \A n \in Len(processed) + 1 .. Len(published) :
      outcome[n] = "ok" =>
        /\ channel = "closing"
        /\ published[Len(processed) + 1].exchange \notin Exchanges

\* The broker meets a frame out of place only if calls have overlapped: no
\* write error and no loss of the connection leaves half a message behind
\* for the next caller to continue.
DeadHasCause == channel = "dead" => overlapped

\* A call of basic_publish always ends: it returns or it throws.
PublishReturns ==
  \A c \in Callers : publishing[c] # Idle ~> publishing[c] = Idle

\* If the connection stays up and the channel open, what was published
\* arrives, provided calls do not overlap.
PublishedArrives ==
  \A n \in 1 .. MaxPublished :
    n <= Len(published) ~>
      n <= Len(processed) \/ link # "up" \/ channel # "open" \/ overlapped

\* The connection as an ordered delivery that can only stop.
Abstract == INSTANCE OrderedDelivery WITH
  Item <- Publication,
  requested <- published,
  delivered <- [n \in 1 .. Len(processed) |-> published[processed[n][1].pub]],
  open <- (link = "up" /\ channel = "open")

\* With one caller the publisher implements OrderedDelivery.
OrderedDelivery == Abstract!Spec

==============================================================================
