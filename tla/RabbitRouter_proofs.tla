-------------------------- MODULE RabbitRouter_proofs ------------------------
(***************************************************************************)
(* The routers use the connection as ConnectionManager.tla says callers    *)
(* do, so that what is proved of the connection holds whatever routers,    *)
(* queues, attributes and batches there are.                               *)
(***************************************************************************)
EXTENDS RabbitRouter, ConnectionManager_proofs, FiniteSetTheorems

\* The sequences of calls grow together, every call is in progress by at most
\* its caller, and what is chosen for a call can be published.
IsSeq(s) == \E S : s \in Seq(S)

Publishable(call) ==
  \A a \in DOMAIN call.targets :
    PublicationOf(call.kind, a, call.targets[a]) \in Publication

RInv ==
  /\ IsSeq(calls)
  /\ \A k \in 1 .. Len(calls) : Publishable(calls[k])
  /\ current \in [Callers -> 0 .. Len(calls)]

LEMMA AppendIsSeq ==
  ASSUME NEW s, IsSeq(s), NEW e
  PROVE  /\ IsSeq(Append(s, e))
         /\ Len(s) \in Nat
         /\ DOMAIN s = 1 .. Len(s)
         /\ Len(Append(s, e)) = Len(s) + 1
         /\ Append(s, e)[Len(s) + 1] = e
         /\ \A i \in 1 .. Len(s) : Append(s, e)[i] = s[i]
<1>1. PICK S : s \in Seq(S)
  BY DEF IsSeq
<1>2. s \in Seq(S \cup {e}) /\ e \in S \cup {e}
  BY <1>1, SeqMonotonic
<1> QED
  BY <1>2, AppendProperties, LenProperties DEF IsSeq

LEMMA AppendDomain ==
  ASSUME NEW s, IsSeq(s), NEW e
  PROVE  /\ DOMAIN Append(s, e) = 1 .. Len(s) + 1
         /\ DOMAIN Append(s, e) = DOMAIN s \cup {Len(s) + 1}
         /\ Len(s) + 1 \notin DOMAIN s
         /\ \A i \in DOMAIN s : Append(s, e)[i] = s[i]
<1>1. IsSeq(Append(s, e)) /\ Len(s) \in Nat /\ DOMAIN s = 1 .. Len(s) /\ Len(Append(s, e)) = Len(s) + 1
      /\ \A i \in 1 .. Len(s) : Append(s, e)[i] = s[i]
  BY AppendIsSeq
<1>2. DOMAIN Append(s, e) = 1 .. Len(Append(s, e))
  BY <1>1, AppendIsSeq
<1> QED
  BY <1>1, <1>2

LEMMA ExceptIsSeq ==
  ASSUME NEW s, IsSeq(s), NEW i \in DOMAIN s, NEW e
  PROVE  /\ IsSeq([s EXCEPT ![i] = e])
         /\ Len([s EXCEPT ![i] = e]) = Len(s)
<1>1. PICK S : s \in Seq(S)
  BY DEF IsSeq
<1>2. s \in Seq(S \cup {e}) /\ e \in S \cup {e} /\ i \in 1 .. Len(s)
  BY <1>1, SeqMonotonic, LenProperties
<1> QED
  BY <1>2, ExceptSeq DEF IsSeq

LEMMA RInvInit == Init => RInv
<1> SUFFICES ASSUME Init PROVE RInv
  OBVIOUS
<1>1. calls = <<>> /\ Len(calls) = 0
  BY EmptySeq DEF Init
<1>2. IsSeq(calls)
  BY <1>1, EmptySeq DEF IsSeq
<1> QED
  BY <1>1, <1>2 DEF Init, RInv

\* A call that starts chooses batches that can be published.
LEMMA RInvStart ==
  ASSUME RInv, NEW c \in Callers, NEW kind \in Kinds, NEW batch \in Batches[kind],
         NEW attrs, NEW op,
         LET targets == find_by_filter(kind, find_queues_by_attr(attrs), batch) IN
         /\ calls' = Append(calls, [caller |-> c, op |-> op, kind |-> kind, batch |-> batch,
                                    attrs |-> attrs, targets |-> targets])
         /\ current' = [current EXCEPT ![c] = Len(calls) + 1] \/ UNCHANGED current
  PROVE  RInv'
<1> DEFINE targets == find_by_filter(kind, find_queues_by_attr(attrs), batch)
           call == [caller |-> c, op |-> op, kind |-> kind, batch |-> batch, attrs |-> attrs,
                    targets |-> targets]
<1>1. find_queues_by_attr(attrs) \in SUBSET Aliases
  BY DEF find_queues_by_attr
<1>2. \A a \in DOMAIN targets : PublicationOf(kind, a, targets[a]) \in Publication
  BY <1>1, RouterAssumption DEF RouterAssumption
<1>3. Publishable(call)
  BY <1>2 DEF Publishable
<1>4. /\ IsSeq(calls') /\ Len(calls) \in Nat /\ Len(calls') = Len(calls) + 1
      /\ calls'[Len(calls) + 1] = call
      /\ \A k \in 1 .. Len(calls) : calls'[k] = calls[k]
  BY AppendIsSeq DEF RInv
<1>5. \A k \in 1 .. Len(calls) + 1 : Publishable(calls'[k])
  BY <1>3, <1>4 DEF RInv
<1>6. current' \in [Callers -> 0 .. Len(calls) + 1]
  BY <1>4 DEF RInv
<1>7. \A k \in 1 .. Len(calls') : Publishable(calls[k])'
  BY <1>4, <1>5 DEF Publishable
<1> QED
  BY <1>4, <1>6, <1>7 DEF RInv

LEMMA RInvNext == RInv /\ [Next]_vars => RInv'
<1> SUFFICES ASSUME RInv, [Next]_vars PROVE RInv'
  OBVIOUS
<1> USE DEF routerVars
<1>1. ASSUME UNCHANGED calls, current' \in [Callers -> 0 .. Len(calls)]
      PROVE  RInv'
  BY <1>1 DEF RInv, Publishable
<1>2. ASSUME NEW c \in Callers, NEW kind \in Kinds, NEW batch \in Batches[kind], send(c, kind, batch)
      PROVE  RInv'
  BY <1>2, RInvStart DEF send, Start
<1>3. ASSUME NEW c \in Callers, NEW kind \in Kinds, NEW batch \in Batches[kind], NEW attrs \in AskedFor,
             send_with(c, kind, batch, attrs) \/ sendAll(c, kind, batch, attrs)
      PROVE  RInv'
  <2>1. CASE send_with(c, kind, batch, attrs)
    BY <2>1, RInvStart DEF send_with, Start
  <2>2. CASE sendAll(c, kind, batch, attrs)
    BY <2>2, RInvStart DEF sendAll, Start
  <2> QED
    BY <1>3, <2>1, <2>2
<1>4. ASSUME NEW c \in Callers, CallStep(c)
      PROVE  RInv'
  <2>1. UNCHANGED calls
    BY <1>4 DEF CallStep, publish_next, write_frame, send_throws, send_returns, Return
  <2>2. UNCHANGED current \/ current' = [current EXCEPT ![c] = 0]
    BY <1>4 DEF CallStep, publish_next, write_frame, send_throws, send_returns, Return
  <2>3. IsSeq(calls) /\ Len(calls) \in Nat
    BY AppendIsSeq DEF RInv
  <2> QED
    BY <1>1, <2>1, <2>2, <2>3 DEF RInv
<1>5. CASE UNCHANGED routerVars
  BY <1>1, <1>5 DEF RInv
<1> QED
  BY <1>2, <1>3, <1>4, <1>5 DEF Next, vars

\* Every step of the routers is a step of ConnectionManager, or none.
LEMMA StepUsesConnection == RInv /\ [Next]_vars => [CMNext]_cmVars
<1> SUFFICES ASSUME RInv, [Next]_vars PROVE [CMNext]_cmVars
  OBVIOUS
<1>1. ASSUME NEW c \in Callers, publish_next(c)
      PROVE  CMNext
  <2>1. PICK a \in Unsent(current[c]) :
          basic_publish(c, PublicationOf(calls[current[c]].kind, a, calls[current[c]].targets[a]))
    BY <1>1 DEF publish_next
  <2>2. current[c] \in 1 .. Len(calls)
    <3>1. Len(calls) \in Nat
      BY AppendIsSeq DEF RInv
    <3> QED
      BY <1>1, <3>1 DEF publish_next, RInv
  <2>3. PublicationOf(calls[current[c]].kind, a, calls[current[c]].targets[a]) \in Publication
    BY <2>2 DEF RInv, Publishable, Unsent
  <2> QED
    BY <2>1, <2>3 DEF CMNext
<1>2. ASSUME NEW c \in Callers, write_frame(c) \/ send_throws(c)
      PROVE  CMNext
  BY <1>2 DEF write_frame, send_throws, CMNext
<1>3. ASSUME NEW c \in Callers, send_returns(c)
      PROVE  UNCHANGED cmVars
  BY <1>3 DEF send_returns
<1>4. ASSUME NEW c \in Callers, NEW kind \in Kinds, NEW batch \in Batches[kind],
             \/ send(c, kind, batch)
             \/ \E attrs \in AskedFor : send_with(c, kind, batch, attrs) \/ sendAll(c, kind, batch, attrs)
      PROVE  UNCHANGED cmVars
  BY <1>4 DEF send, send_with, sendAll, Start
<1>5. CASE BrokerStep \/ LinkBreaks
  BY <1>5 DEF CMNext
<1>6. CASE UNCHANGED vars
  BY <1>6 DEF vars
<1> QED
  BY <1>1, <1>2, <1>3, <1>4, <1>5, <1>6 DEF Next, CallStep

\* Routers, whatever their number of queues and callers, are callers of the
\* connection: every behaviour of theirs is one of ConnectionManager.
LEMMA UsesConnection == Spec => CMSpec
<1>1. Init => CMInit
  BY DEF Init
<1> QED
  BY <1>1, RInvInit, RInvNext, StepUsesConnection, PTL DEF Spec, CMSpec

\* So what the routers publish is accepted in order and whole, as long as their
\* calls do not overlap.
THEOREM RoutersDeliverPrefix == Spec => []PrefixDelivery
BY UsesConnection, PrefixDeliveryHolds, PTL

------------------------------------------------------------------------------
(***************************************************************************)
(* What the calls have published.  The connection knows publications, the  *)
(* application calls: RouterInv ties the two together, and is inductive    *)
(* whether or not calls overlap.                                           *)
(***************************************************************************)

\* Calls are recorded in three sequences.
Recorded ==
  /\ IsSeq(calls) /\ IsSeq(sent) /\ IsSeq(ended)
  /\ Len(sent) = Len(calls) /\ Len(ended) = Len(calls)

\* Where the callers are: a publication in progress is one of the caller's current
\* call, which is the latest of its calls and the only one that has not ended.
Progress ==
  /\ \A c \in Callers : publishing[c] # Idle =>
        /\ current[c] # 0
        /\ \E a \in DOMAIN calls[current[c]].targets : sent[current[c]][a] = publishing[c].pub
  /\ \A c \in Callers : current[c] # 0 =>
        \A j \in DOMAIN calls : calls[j].caller = c => j <= current[c]
  /\ \A k \in DOMAIN calls : ended[k] = "running" => current[calls[k].caller] = k

\* Every publication was made for one alias of one call, and is what that call had
\* chosen for it.
Owned ==
  /\ \A k \in DOMAIN calls : \A a \in DOMAIN calls[k].targets :
        sent[k][a] # 0 =>
          published[sent[k][a]] = PublicationOf(calls[k].kind, a, calls[k].targets[a])
  /\ \A n \in 1 .. Len(published) :
        \E k \in DOMAIN calls : \E a \in DOMAIN calls[k].targets : sent[k][a] = n
  /\ \A j, k \in DOMAIN calls : \A a \in DOMAIN calls[j].targets, b \in DOMAIN calls[k].targets :
        sent[j][a] # 0 /\ sent[j][a] = sent[k][b] => j = k /\ a = b

\* Calls of one caller publish one after the other.
InOrder ==
  \A j, k \in DOMAIN calls : \A a \in DOMAIN calls[j].targets, b \in DOMAIN calls[k].targets :
    (j < k /\ calls[j].caller = calls[k].caller /\ sent[j][a] # 0 /\ sent[k][b] # 0) =>
      sent[j][a] < sent[k][b]

\* How a call has ended, or not, and how its publications have.
Outcome(k) ==
  LET made == {a \in DOMAIN calls[k].targets : sent[k][a] # 0} IN
  /\ ended[k] = "running" =>
       /\ DOMAIN calls[k].targets # {}
       /\ \A a \in made :
            outcome[sent[k][a]] = "ok" \/ publishing[calls[k].caller].pub = sent[k][a]
  /\ ended[k] = "ok" =>
       /\ DOMAIN calls[k].targets # {} /\ made = DOMAIN calls[k].targets
       /\ \A a \in made : outcome[sent[k][a]] = "ok"
  /\ ended[k] = "threw" =>
       \/ made = {}
       \/ \E a \in made :
            /\ outcome[sent[k][a]] = "failed"
            /\ \A b \in made : b # a => outcome[sent[k][b]] = "ok"

Outcomes == \A k \in DOMAIN calls : Outcome(k)

\* The queues of a call have all the attributes that it looked for.
ByAttributes ==
  \A k \in DOMAIN calls : \A a \in DOMAIN calls[k].targets :
    calls[k].attrs \subseteq queues[a].attributes

RouterInv == RTypeOK /\ Recorded /\ Progress /\ Owned /\ InOrder /\ Outcomes /\ ByAttributes

LEMMA RouterInvInit == Init => RouterInv
<1> SUFFICES ASSUME Init PROVE RouterInv
  OBVIOUS
<1>1. CMInit /\ calls = <<>> /\ sent = <<>> /\ ended = <<>> /\ current = [c \in Callers |-> 0]
  BY DEF Init
<1>2. IsSeq(<<>>) /\ Len(<<>>) = 0 /\ DOMAIN <<>> = 1 .. 0
  BY EmptySeq DEF IsSeq
<1>3. CMTypeOK
  BY <1>1, TypeInit
<1>4. published = <<>> /\ \A c \in Callers : publishing[c] = Idle
  BY <1>1 DEF CMInit
<1>5. RTypeOK
  BY <1>1, <1>2, <1>3, <1>4 DEF RTypeOK
<1>6. Recorded
  BY <1>1, <1>2 DEF Recorded
<1>7. Progress /\ Owned /\ InOrder /\ Outcomes /\ ByAttributes
  BY <1>1, <1>2, <1>4 DEF Progress, Owned, InOrder, Outcomes, ByAttributes
<1> QED
  BY <1>5, <1>6, <1>7 DEF RouterInv

\* find_by_filter chooses among the aliases that it is given.
LEMMA TargetsAmongAliases ==
  ASSUME NEW kind, NEW aliases, NEW batch
  PROVE  DOMAIN find_by_filter(kind, aliases, batch) \subseteq aliases
BY DEF find_by_filter, filter

\* What the proofs of the steps need of the records.
LEMMA RecordedFacts ==
  ASSUME RouterInv
  PROVE  /\ Len(calls) \in Nat /\ DOMAIN calls = 1 .. Len(calls)
         /\ DOMAIN sent = DOMAIN calls /\ DOMAIN ended = DOMAIN calls
         /\ Len(published) \in Nat /\ DOMAIN published = 1 .. Len(published)
         /\ Len(outcome) = Len(published) /\ DOMAIN outcome = 1 .. Len(published)
         /\ \A k \in DOMAIN calls :
               /\ calls[k].caller \in Callers
               /\ sent[k] \in [DOMAIN calls[k].targets -> 0 .. Len(published)]
<1>1. CMTypeOK /\ \A k \in DOMAIN calls : CallType(k)
  BY DEF RouterInv, RTypeOK
<1>2. DOMAIN calls = 1 .. Len(calls) /\ Len(calls) \in Nat
  BY AppendIsSeq DEF RouterInv, Recorded
<1>3. DOMAIN sent = DOMAIN calls /\ DOMAIN ended = DOMAIN calls
  BY DEF RouterInv, RTypeOK
<1>4. /\ Len(published) \in Nat /\ DOMAIN published = 1 .. Len(published)
      /\ Len(outcome) = Len(published) /\ DOMAIN outcome = 1 .. Len(outcome)
  BY <1>1, LenProperties DEF CMTypeOK
<1> QED
  BY <1>1, <1>2, <1>3, <1>4 DEF CallType

\* A call that starts has published nothing, and nothing else changes.
LEMMA RouterInvStart ==
  ASSUME RouterInv, CMTypeOK', NEW c \in Callers, NEW kind \in Kinds, NEW batch \in Batches[kind],
         NEW attrs, NEW op \in {"send", "send_with", "sendAll"}, NEW accepted,
         Start(c, op, kind, batch, attrs, accepted), 0 \notin accepted
  PROVE  RouterInv'
<1>0. PICK targets, new, call :
        /\ targets = find_by_filter(kind, find_queues_by_attr(attrs), batch)
        /\ new = Len(calls) + 1
        /\ call = [caller |-> c, op |-> op, kind |-> kind, batch |-> batch, attrs |-> attrs,
                   targets |-> targets]
  OBVIOUS
<1>1. /\ current[c] = 0
      /\ calls' = Append(calls, call)
      /\ sent' = Append(sent, [a \in DOMAIN targets |-> 0])
      /\ UNCHANGED <<published, outcome, publishing>>
  BY <1>0 DEF Start, cmVars, clientVars
<1>2. PICK how \in {"running", "threw"} :
        /\ ended' = Append(ended, how)
        /\ how = "running" => current' = [current EXCEPT ![c] = new] /\ DOMAIN targets # {}
        /\ how = "threw" => UNCHANGED current
  <2>1. CASE Cardinality(DOMAIN targets) \in accepted
    BY <1>0, <2>1, FS_EmptySet DEF Start
  <2>2. CASE Cardinality(DOMAIN targets) \notin accepted
    BY <1>0, <2>2 DEF Start
  <2> QED
    BY <2>1, <2>2
<1>3. /\ RTypeOK /\ Recorded /\ Progress /\ Owned /\ InOrder /\ Outcomes /\ ByAttributes
  BY DEF RouterInv
<1>4. /\ Len(calls) \in Nat /\ DOMAIN calls = 1 .. Len(calls)
      /\ DOMAIN sent = DOMAIN calls /\ DOMAIN ended = DOMAIN calls
      /\ \A k \in DOMAIN calls : calls[k].caller \in Callers
  BY RecordedFacts
<1>5. /\ IsSeq(calls) /\ IsSeq(sent) /\ IsSeq(ended)
      /\ Len(sent) = Len(calls) /\ Len(ended) = Len(calls)
  BY <1>3 DEF Recorded
<1>6. /\ IsSeq(calls') /\ Len(calls') = new /\ DOMAIN calls' = 1 .. new
      /\ calls'[new] = call /\ \A k \in DOMAIN calls : calls'[k] = calls[k]
  <2>1. /\ IsSeq(Append(calls, call)) /\ Len(Append(calls, call)) = Len(calls) + 1
        /\ Append(calls, call)[Len(calls) + 1] = call
    BY <1>5, AppendIsSeq
  <2>2. /\ DOMAIN Append(calls, call) = 1 .. Len(calls) + 1
        /\ \A i \in DOMAIN calls : Append(calls, call)[i] = calls[i]
    BY <1>5, AppendDomain
  <2> QED
    BY <1>0, <1>1, <1>4, <1>5, <2>1, <2>2
<1>7. /\ IsSeq(sent') /\ Len(sent') = new /\ DOMAIN sent' = 1 .. new
      /\ sent'[new] = [a \in DOMAIN targets |-> 0] /\ \A k \in DOMAIN calls : sent'[k] = sent[k]
  <2>1. /\ IsSeq(Append(sent, [a \in DOMAIN targets |-> 0])) /\ Len(Append(sent, [a \in DOMAIN targets |-> 0])) = Len(sent) + 1
        /\ Append(sent, [a \in DOMAIN targets |-> 0])[Len(sent) + 1] = [a \in DOMAIN targets |-> 0]
    BY <1>5, AppendIsSeq
  <2>2. /\ DOMAIN Append(sent, [a \in DOMAIN targets |-> 0]) = 1 .. Len(sent) + 1
        /\ \A i \in DOMAIN sent : Append(sent, [a \in DOMAIN targets |-> 0])[i] = sent[i]
    BY <1>5, AppendDomain
  <2> QED
    BY <1>0, <1>1, <1>4, <1>5, <2>1, <2>2
<1>8. /\ IsSeq(ended') /\ Len(ended') = new /\ DOMAIN ended' = 1 .. new
      /\ ended'[new] = how /\ \A k \in DOMAIN calls : ended'[k] = ended[k]
  <2>1. /\ IsSeq(Append(ended, how)) /\ Len(Append(ended, how)) = Len(ended) + 1
        /\ Append(ended, how)[Len(ended) + 1] = how
    BY <1>5, AppendIsSeq
  <2>2. /\ DOMAIN Append(ended, how) = 1 .. Len(ended) + 1
        /\ \A i \in DOMAIN ended : Append(ended, how)[i] = ended[i]
    BY <1>5, AppendDomain
  <2> QED
    BY <1>0, <1>2, <1>4, <1>5, <2>1, <2>2
<1>9. DOMAIN targets \subseteq Aliases
  BY <1>0, TargetsAmongAliases DEF find_queues_by_attr
<1>10. /\ current' \in [Callers -> 0 .. new]
       /\ \A d \in Callers : current'[d] = IF d = c /\ how = "running" THEN new ELSE current[d]
       /\ \A d \in Callers : current[d] \in 0 .. Len(calls)
  <2>1. current \in [Callers -> 0 .. Len(calls)]
    BY <1>3 DEF RTypeOK
  <2>2. new \in Nat /\ new = Len(calls) + 1 /\ Len(calls) \in Nat
    BY <1>0, <1>4
  <2>3. CASE how = "running"
    BY <1>2, <2>1, <2>2, <2>3
  <2>4. CASE how = "threw"
    BY <1>2, <2>1, <2>2, <2>4
  <2> QED
    BY <2>3, <2>4
<1>11. /\ DOMAIN calls' = DOMAIN calls \cup {new} /\ new \notin DOMAIN calls
       /\ call.caller = c /\ call.targets = targets /\ call.op = op /\ call.kind = kind
       /\ call.batch = batch /\ call.attrs = attrs
  BY <1>0, <1>4, <1>6
<1>12. Recorded'
  BY <1>6, <1>7, <1>8 DEF Recorded
<1>13. RTypeOK'
  <2>1. ASSUME NEW k \in DOMAIN calls PROVE CallType(k)'
    <3>1. CallType(k)
      BY <1>3 DEF RTypeOK
    <3>2. calls'[k] = calls[k] /\ sent'[k] = sent[k] /\ ended'[k] = ended[k] /\ published' = published
      BY <1>1, <1>6, <1>7, <1>8
    <3> QED
      BY <3>1, <3>2 DEF CallType
  <2>2. CallType(new)'
    <3>1. Len(published') \in Nat
      BY LenProperties DEF CMTypeOK
    <3>2. sent'[new] \in [DOMAIN targets -> 0 .. Len(published')]
      BY <1>7, <3>1
    <3> QED
      BY <1>2, <1>6, <1>8, <1>9, <1>11, <3>2 DEF CallType
  <2>3. ASSUME NEW d \in Callers
        PROVE  /\ publishing'[d] # Idle => current'[d] # 0
               /\ current'[d] # 0 => ended'[current'[d]] = "running" /\ calls'[current'[d]].caller = d
    <3>1. CASE d = c /\ how = "running"
      BY <1>4, <1>6, <1>8, <1>10, <1>11, <3>1, <1>0
    <3>2. CASE ~(d = c /\ how = "running")
      <4>1. current'[d] = current[d] /\ (current[d] # 0 => current[d] \in DOMAIN calls)
        BY <1>4, <1>10, <3>2
      <4> QED
        BY <1>1, <1>3, <1>6, <1>8, <4>1 DEF RTypeOK
    <3> QED
      BY <3>1, <3>2
  <2>4. \A k \in DOMAIN calls' : CallType(k)'
    BY <1>11, <2>1, <2>2
  <2> QED
    BY <1>6, <1>7, <1>8, <1>10, <2>3, <2>4 DEF RTypeOK
<1>14. Progress'
  <2>1. ASSUME NEW d \in Callers, publishing'[d] # Idle
        PROVE  /\ current'[d] # 0
               /\ \E a \in DOMAIN calls'[current'[d]].targets :
                    sent'[current'[d]][a] = publishing'[d].pub
    <3>1. current[d] # 0 /\ current'[d] = current[d] /\ current[d] \in DOMAIN calls
      BY <1>1, <1>3, <1>4, <1>10, <2>1 DEF RTypeOK
    <3> QED
      BY <1>1, <1>3, <1>6, <1>7, <2>1, <3>1 DEF Progress
  <2>2. ASSUME NEW d \in Callers, current'[d] # 0, NEW j \in DOMAIN calls', calls'[j].caller = d
        PROVE  j <= current'[d]
    <3>1. CASE d = c
      BY <1>0, <1>1, <1>4, <1>10, <1>11, <2>2, <3>1
    <3>2. CASE d # c
      <4>1. j \in DOMAIN calls /\ current'[d] = current[d]
        BY <1>6, <1>10, <1>11, <2>2, <3>2
      <4> QED
        BY <1>3, <1>6, <2>2, <4>1 DEF Progress
    <3> QED
      BY <3>1, <3>2
  <2>3. ASSUME NEW k \in DOMAIN calls', ended'[k] = "running"
        PROVE  current'[calls'[k].caller] = k
    <3>1. CASE k = new
      BY <1>6, <1>8, <1>10, <1>11, <2>3, <3>1
    <3>2. CASE k \in DOMAIN calls
      <4>1. ended[k] = "running" /\ calls'[k] = calls[k] /\ current[calls[k].caller] = k
        BY <1>3, <1>6, <1>8, <2>3, <3>2 DEF Progress
      <4>2. calls[k].caller # c
        BY <1>1, <1>4, <3>2, <4>1
      <4> QED
        BY <1>4, <1>10, <3>2, <4>1, <4>2
    <3> QED
      BY <1>11, <3>1, <3>2
  <2> QED
    BY <2>1, <2>2, <2>3 DEF Progress
<1>15. \A k \in DOMAIN calls' : \A a \in DOMAIN calls'[k].targets :
          sent'[k][a] # 0 => k \in DOMAIN calls /\ sent'[k] = sent[k] /\ calls'[k] = calls[k]
  BY <1>6, <1>7, <1>11
<1>16. \A k \in DOMAIN calls : k \in DOMAIN calls' /\ sent'[k] = sent[k] /\ calls'[k] = calls[k]
  BY <1>6, <1>7, <1>11
<1>17. Owned'
  <2>1. ASSUME NEW k \in DOMAIN calls', NEW a \in DOMAIN calls'[k].targets, sent'[k][a] # 0
        PROVE  published'[sent'[k][a]] = PublicationOf(calls'[k].kind, a, calls'[k].targets[a])
    <3>1. k \in DOMAIN calls /\ sent'[k] = sent[k] /\ calls'[k] = calls[k]
      BY <1>15, <2>1
    <3>2. published[sent[k][a]] = PublicationOf(calls[k].kind, a, calls[k].targets[a])
      BY <1>3, <2>1, <3>1 DEF Owned
    <3> QED
      BY <1>1, <3>1, <3>2
  <2>2. ASSUME NEW n \in 1 .. Len(published')
        PROVE  \E k \in DOMAIN calls' : \E a \in DOMAIN calls'[k].targets : sent'[k][a] = n
    <3>1. n \in 1 .. Len(published)
      BY <1>1, <2>2
    <3>2. PICK k \in DOMAIN calls : \E a \in DOMAIN calls[k].targets : sent[k][a] = n
      BY <1>3, <3>1 DEF Owned
    <3> QED
      BY <1>16, <3>2
  <2>3. ASSUME NEW j \in DOMAIN calls', NEW k \in DOMAIN calls',
               NEW a \in DOMAIN calls'[j].targets, NEW b \in DOMAIN calls'[k].targets,
               sent'[j][a] # 0, sent'[j][a] = sent'[k][b]
        PROVE  j = k /\ a = b
    BY <1>3, <1>15, <2>3 DEF Owned
  <2> QED
    BY <2>1, <2>2, <2>3 DEF Owned
<1>18. InOrder'
  BY <1>3, <1>15 DEF InOrder
<1>19. Outcomes'
  <2>1. ASSUME NEW k \in DOMAIN calls PROVE Outcome(k)'
    <3>1. calls'[k] = calls[k] /\ sent'[k] = sent[k] /\ ended'[k] = ended[k]
      BY <1>6, <1>7, <1>8, <2>1
    <3>2. outcome' = outcome /\ publishing' = publishing
      BY <1>1
    <3>3. Outcome(k)
      BY <1>3, <2>1 DEF Outcomes
    <3> QED
      BY <3>1, <3>2, <3>3 DEF Outcome
  <2>2. Outcome(new)'
    <3>1. \A a \in DOMAIN calls'[new].targets : sent'[new][a] = 0
      BY <1>6, <1>7, <1>11
    <3>2. ended'[new] # "ok" /\ (ended'[new] = "running" => DOMAIN calls'[new].targets # {})
      BY <1>2, <1>6, <1>8, <1>11
    <3> QED
      BY <3>1, <3>2 DEF Outcome
  <2>3. \A k \in DOMAIN calls' : Outcome(k)'
    BY <1>11, <2>1, <2>2
  <2> QED
    BY <2>3 DEF Outcomes
<1>20. ByAttributes'
  <2>1. ASSUME NEW a \in DOMAIN targets
        PROVE  attrs \subseteq queues[a].attributes
    BY <1>0, <2>1, TargetsAmongAliases DEF find_queues_by_attr, contains_all_attributes
  <2> QED
    BY <1>3, <1>6, <1>11, <2>1 DEF ByAttributes
<1> QED
  BY <1>12, <1>13, <1>14, <1>17, <1>18, <1>19, <1>20 DEF RouterInv

\* A step of the connection that is no publication's beginning nor end.
LEMMA RouterInvQuiet ==
  ASSUME RouterInv, CMTypeOK', UNCHANGED <<published, outcome, publishing>>, UNCHANGED routerVars
  PROVE  RouterInv'
<1>1. /\ published' = published /\ outcome' = outcome /\ publishing' = publishing
      /\ calls' = calls /\ sent' = sent /\ ended' = ended /\ current' = current
  BY DEF routerVars
<1>2. RTypeOK'
  BY <1>1 DEF RouterInv, RTypeOK, CallType
<1>3. Recorded' /\ Progress' /\ Owned' /\ InOrder' /\ ByAttributes'
  BY <1>1 DEF RouterInv, Recorded, Progress, Owned, InOrder, ByAttributes
<1>4. Outcomes'
  BY <1>1 DEF RouterInv, Outcomes, Outcome
<1> QED
  BY <1>2, <1>3, <1>4 DEF RouterInv

\* Another frame of the same publication.
LEMMA RouterInvFrame ==
  ASSUME RouterInv, CMTypeOK', NEW c \in Callers,
         publishing[c] # Idle, UNCHANGED <<published, outcome>>, UNCHANGED routerVars,
         publishing' = [publishing EXCEPT ![c] = [pub |-> publishing[c].pub,
                                                  pos |-> publishing[c].pos + 1]]
  PROVE  RouterInv'
<1>1. /\ published' = published /\ outcome' = outcome
      /\ calls' = calls /\ sent' = sent /\ ended' = ended /\ current' = current
  BY DEF routerVars
<1>2. publishing \in [Callers -> Frame] /\ \A d \in Callers : publishing'[d].pub = publishing[d].pub
  BY DEF RouterInv, RTypeOK, CMTypeOK
<1>3. \A d \in Callers : publishing'[d] # Idle => publishing[d] # Idle
  BY <1>2
<1>4. RTypeOK'
  <2>1. \A k \in DOMAIN calls : CallType(k)'
    BY <1>1 DEF RouterInv, RTypeOK, CallType
  <2> QED
    BY <1>1, <1>3, <2>1 DEF RouterInv, RTypeOK
<1>5. Progress'
  BY <1>1, <1>2, <1>3 DEF RouterInv, Progress
<1>6. Recorded' /\ Owned' /\ InOrder' /\ ByAttributes'
  BY <1>1 DEF RouterInv, Recorded, Owned, InOrder, ByAttributes
<1>7. Outcomes'
  <2>1. \A k \in DOMAIN calls : calls[k].caller \in Callers /\ Outcome(k)
    BY RecordedFacts DEF RouterInv, Outcomes
  <2> QED
    BY <1>1, <1>2, <2>1 DEF Outcomes, Outcome
<1> QED
  BY <1>4, <1>5, <1>6, <1>7 DEF RouterInv

\* The alias that a caller is publishing to: no other publication has its number,
\* and those that its call has made before have been sent.
LEMMA BeingPublished ==
  ASSUME RouterInv, NEW c \in Callers, publishing[c] # Idle
  PROVE  LET k == current[c]
             n == publishing[c].pub
         IN  /\ k \in DOMAIN calls /\ calls[k].caller = c /\ ended[k] = "running"
             /\ n \in 1 .. Len(published)
             /\ \E a \in DOMAIN calls[k].targets :
                   /\ sent[k][a] = n
                   /\ \A j \in DOMAIN calls : \A b \in DOMAIN calls[j].targets :
                        sent[j][b] = n => j = k /\ b = a
                   /\ \A b \in DOMAIN calls[k].targets :
                        sent[k][b] # 0 /\ b # a => outcome[sent[k][b]] = "ok"
<1>1. PICK k, n : k = current[c] /\ n = publishing[c].pub
  OBVIOUS
<1>2. /\ current[c] # 0 /\ k \in DOMAIN calls /\ calls[k].caller = c /\ ended[k] = "running"
  BY <1>1, RecordedFacts DEF RouterInv, RTypeOK
<1>3. n \in 1 .. Len(published)
  BY <1>1 DEF RouterInv, RTypeOK, CMTypeOK
<1>4. PICK a \in DOMAIN calls[k].targets : sent[k][a] = n
  BY <1>1 DEF RouterInv, Progress
<1>5. ASSUME NEW j \in DOMAIN calls, NEW b \in DOMAIN calls[j].targets, sent[j][b] = n
      PROVE  j = k /\ b = a
  BY <1>2, <1>3, <1>4, <1>5 DEF RouterInv, Owned
<1>6. ASSUME NEW b \in DOMAIN calls[k].targets, sent[k][b] # 0, b # a
      PROVE  outcome[sent[k][b]] = "ok"
  <2>1. Outcome(k)
    BY <1>2 DEF RouterInv, Outcomes
  <2>2. sent[k][b] # n
    BY <1>2, <1>5, <1>6
  <2> QED
    BY <1>1, <1>2, <1>6, <2>1, <2>2 DEF Outcome
<1> QED
  BY <1>1, <1>2, <1>3, <1>4, <1>5, <1>6

\* The last frame of a publication: it counts as sent.
LEMMA RouterInvPublished ==
  ASSUME RouterInv, CMTypeOK', NEW c \in Callers, publishing[c] # Idle,
         UNCHANGED published, UNCHANGED routerVars,
         publishing' = [publishing EXCEPT ![c] = Idle],
         outcome' = [outcome EXCEPT ![publishing[c].pub] = "ok"]
  PROVE  RouterInv'
<1>1. /\ published' = published
      /\ calls' = calls /\ sent' = sent /\ ended' = ended /\ current' = current
  BY DEF routerVars
<1>2. PICK k, n : k = current[c] /\ n = publishing[c].pub
  OBVIOUS
<1>3. /\ k \in DOMAIN calls /\ calls[k].caller = c /\ ended[k] = "running"
      /\ n \in 1 .. Len(published)
      /\ \A j \in DOMAIN calls : \A b \in DOMAIN calls[j].targets : sent[j][b] = n => j = k
  BY <1>2, BeingPublished
<1>4. /\ \A d \in Callers : publishing'[d] = IF d = c THEN Idle ELSE publishing[d]
      /\ \A m \in 1 .. Len(published) : outcome'[m] = IF m = n THEN "ok" ELSE outcome[m]
  BY <1>2, RecordedFacts DEF RouterInv, RTypeOK, CMTypeOK
<1>5. RTypeOK'
  <2>1. \A j \in DOMAIN calls : CallType(j)'
    BY <1>1 DEF RouterInv, RTypeOK, CallType
  <2> QED
    BY <1>1, <1>4, <2>1 DEF RouterInv, RTypeOK
<1>6. Progress'
  BY <1>1, <1>4 DEF RouterInv, Progress
<1>7. Recorded' /\ Owned' /\ InOrder' /\ ByAttributes'
  <2>1. Recorded' /\ ByAttributes'
    BY <1>1 DEF RouterInv, Recorded, ByAttributes
  <2>2. Owned'
    BY <1>1 DEF RouterInv, Owned
  <2>3. InOrder'
    BY <1>1 DEF RouterInv, InOrder
  <2> QED
    BY <2>1, <2>2, <2>3
<1>8. Outcomes'
  <2>1. ASSUME NEW j \in DOMAIN calls PROVE Outcome(j)'
    <3>1. /\ Outcome(j) /\ calls[j].caller \in Callers
          /\ \A a \in DOMAIN calls[j].targets : sent[j][a] # 0 => sent[j][a] \in 1 .. Len(published)
      BY RecordedFacts DEF RouterInv, Outcomes
    <3>2. CASE j = k
      <4>1. \A a \in DOMAIN calls[j].targets : sent[j][a] # 0 => outcome'[sent[j][a]] = "ok"
        BY <1>2, <1>3, <1>4, <3>1, <3>2 DEF Outcome
      <4> QED
        BY <1>1, <1>3, <3>1, <3>2, <4>1 DEF Outcome
    <3>3. CASE j # k
      <4>1. \A a \in DOMAIN calls[j].targets : sent[j][a] # 0 => outcome'[sent[j][a]] = outcome[sent[j][a]]
        BY <1>3, <1>4, <3>1, <3>3
      <4>2. ended[j] = "running" => calls[j].caller # c
        BY <1>2, <3>3 DEF RouterInv, Progress
      <4> QED
        BY <1>1, <1>4, <3>1, <4>1, <4>2 DEF Outcome
    <3> QED
      BY <3>2, <3>3
  <2> QED
    BY <1>1, <2>1 DEF Outcomes
<1> QED
  BY <1>5, <1>6, <1>7, <1>8 DEF RouterInv

\* A call ends: of the connection, only its publication in progress may change.
LEMMA ProgressReturn ==
  ASSUME RouterInv, NEW c \in Callers, current[c] # 0, NEW how \in {"ok", "threw"}, Return(c, how),
         UNCHANGED published, CMTypeOK',
         \A d \in Callers : publishing'[d] = IF d = c THEN Idle ELSE publishing[d]
  PROVE  RTypeOK' /\ Recorded' /\ Progress' /\ Owned' /\ InOrder' /\ ByAttributes'
<1>1. PICK k : k = current[c]
  OBVIOUS
<1>2. k \in DOMAIN calls /\ calls[k].caller = c /\ ended[k] = "running"
  BY <1>1, RecordedFacts DEF RouterInv, RTypeOK
<1>3. /\ calls' = calls /\ sent' = sent /\ published' = published
      /\ ended' = [ended EXCEPT ![k] = how] /\ current' = [current EXCEPT ![c] = 0]
  BY <1>1 DEF Return
<1>4. /\ IsSeq(ended') /\ Len(ended') = Len(ended) /\ DOMAIN ended' = DOMAIN ended
      /\ \A j \in DOMAIN calls : ended'[j] = IF j = k THEN how ELSE ended[j]
  <2>1. k \in DOMAIN ended /\ IsSeq(ended)
    BY <1>2, RecordedFacts DEF RouterInv, Recorded
  <2> QED
    BY <1>3, <2>1, RecordedFacts, ExceptIsSeq
<1>5. /\ current' \in [Callers -> 0 .. Len(calls)]
      /\ \A d \in Callers : current'[d] = IF d = c THEN 0 ELSE current[d]
  BY <1>3, RecordedFacts DEF RouterInv, RTypeOK
<1>6. RTypeOK'
  <2>1. \A j \in DOMAIN calls : CallType(j)'
    BY <1>3, <1>4 DEF RouterInv, RTypeOK, CallType
  <2>2. ASSUME NEW d \in Callers
        PROVE  /\ publishing'[d] # Idle => current'[d] # 0
               /\ current'[d] # 0 => ended'[current'[d]] = "running" /\ calls'[current'[d]].caller = d
    <3>1. CASE d = c
      BY <1>5, <3>1
    <3>2. CASE d # c /\ current[d] # 0
      <4>1. current[d] \in DOMAIN calls /\ calls[current[d]].caller = d /\ ended[current[d]] = "running"
        BY <3>2, RecordedFacts DEF RouterInv, RTypeOK
      <4> QED
        BY <1>2, <1>3, <1>4, <1>5, <3>2, <4>1
    <3>3. CASE d # c /\ current[d] = 0
      BY <1>5, <3>3 DEF RouterInv, RTypeOK
    <3> QED
      BY <3>1, <3>2, <3>3
  <2>3. DOMAIN calls' = 1 .. Len(calls') /\ DOMAIN sent' = DOMAIN calls' /\ DOMAIN ended' = DOMAIN calls'
    BY <1>3, <1>4, RecordedFacts
  <2> QED
    BY <1>3, <1>5, <2>1, <2>2, <2>3 DEF RTypeOK
<1>7. Recorded' /\ Owned' /\ InOrder' /\ ByAttributes'
  BY <1>3, <1>4 DEF RouterInv, Recorded, Owned, InOrder, ByAttributes
<1>8. Progress'
  <2>1. ASSUME NEW d \in Callers, publishing'[d] # Idle
        PROVE  /\ current'[d] # 0
               /\ \E a \in DOMAIN calls'[current'[d]].targets :
                    sent'[current'[d]][a] = publishing'[d].pub
    <3>1. d # c /\ publishing'[d] = publishing[d] /\ current'[d] = current[d]
      BY <1>5, <2>1
    <3> QED
      BY <1>3, <2>1, <3>1 DEF RouterInv, Progress
  <2>2. \A d \in Callers : current'[d] # 0 =>
          \A j \in DOMAIN calls' : calls'[j].caller = d => j <= current'[d]
    BY <1>3, <1>5 DEF RouterInv, Progress
  <2>3. ASSUME NEW j \in DOMAIN calls', ended'[j] = "running"
        PROVE  current'[calls'[j].caller] = j
    <3>1. j # k /\ ended[j] = "running" /\ calls[j].caller \in Callers
      BY <1>3, <1>4, <2>3, RecordedFacts
    <3>2. current[calls[j].caller] = j /\ calls[j].caller # c
      BY <1>1, <1>3, <2>3, <3>1 DEF RouterInv, Progress
    <3> QED
      BY <1>3, <1>5, <3>1, <3>2
  <2> QED
    BY <2>1, <2>2, <2>3 DEF Progress
<1> QED
  BY <1>6, <1>7, <1>8

\* The publication fails and its call throws.
LEMMA RouterInvThrows ==
  ASSUME RouterInv, CMTypeOK', NEW c \in Callers, send_throws(c)
  PROVE  RouterInv'
<1>1. /\ publishing[c] # Idle /\ published' = published
      /\ publishing' = [publishing EXCEPT ![c] = Idle]
      /\ outcome' = [outcome EXCEPT ![publishing[c].pub] = "failed"]
      /\ Return(c, "threw")
  BY DEF send_throws, PublishFails
<1>2. PICK k, n : k = current[c] /\ n = publishing[c].pub
  OBVIOUS
<1>3. /\ k \in DOMAIN calls /\ calls[k].caller = c /\ ended[k] = "running"
      /\ n \in 1 .. Len(published)
      /\ \E a \in DOMAIN calls[k].targets :
            /\ sent[k][a] = n
            /\ \A j \in DOMAIN calls : \A b \in DOMAIN calls[j].targets :
                 sent[j][b] = n => j = k /\ b = a
            /\ \A b \in DOMAIN calls[k].targets :
                 sent[k][b] # 0 /\ b # a => outcome[sent[k][b]] = "ok"
  BY <1>1, <1>2, BeingPublished
<1>4. PICK a0 \in DOMAIN calls[k].targets :
        /\ sent[k][a0] = n
        /\ \A j \in DOMAIN calls : \A b \in DOMAIN calls[j].targets : sent[j][b] = n => j = k /\ b = a0
        /\ \A b \in DOMAIN calls[k].targets : sent[k][b] # 0 /\ b # a0 => outcome[sent[k][b]] = "ok"
  BY <1>3
<1>5. /\ \A d \in Callers : publishing'[d] = IF d = c THEN Idle ELSE publishing[d]
      /\ \A m \in 1 .. Len(published) : outcome'[m] = IF m = n THEN "failed" ELSE outcome[m]
  BY <1>1, <1>2, RecordedFacts DEF RouterInv, RTypeOK, CMTypeOK
<1>6. current[c] # 0
  BY <1>2, <1>3, RecordedFacts
<1>7. RTypeOK' /\ Recorded' /\ Progress' /\ Owned' /\ InOrder' /\ ByAttributes'
  BY <1>1, <1>5, <1>6, ProgressReturn
<1>8. /\ calls' = calls /\ sent' = sent
      /\ \A j \in DOMAIN calls : ended'[j] = IF j = k THEN "threw" ELSE ended[j]
  BY <1>1, <1>2, RecordedFacts DEF Return
<1>9. ASSUME NEW j \in DOMAIN calls PROVE Outcome(j)'
  <2>1. /\ Outcome(j) /\ calls[j].caller \in Callers
        /\ \A a \in DOMAIN calls[j].targets : sent[j][a] # 0 => sent[j][a] \in 1 .. Len(published)
    BY RecordedFacts DEF RouterInv, Outcomes
  <2>2. CASE j = k
    <3>1. outcome'[sent[k][a0]] = "failed" /\ sent[k][a0] # 0
      BY <1>3, <1>4, <1>5
    <3>2. \A b \in DOMAIN calls[k].targets : sent[k][b] # 0 /\ b # a0 => outcome'[sent[k][b]] = "ok"
      BY <1>3, <1>4, <1>5, <2>1, <2>2
    <3> QED
      BY <1>8, <2>2, <3>1, <3>2 DEF Outcome
  <2>3. CASE j # k
    <3>1. \A a \in DOMAIN calls[j].targets : sent[j][a] # 0 => outcome'[sent[j][a]] = outcome[sent[j][a]]
      BY <1>4, <1>5, <2>1, <2>3
    <3>2. ended[j] = "running" => calls[j].caller # c
      BY <1>2, <2>3 DEF RouterInv, Progress
    <3> QED
      BY <1>5, <1>8, <2>1, <2>3, <3>1, <3>2 DEF Outcome
  <2> QED
    BY <2>2, <2>3
<1>10. Outcomes'
  BY <1>8, <1>9 DEF Outcomes
<1> QED
  BY <1>7, <1>10 DEF RouterInv

\* The loop is over: every publication of the call has been sent.
LEMMA RouterInvReturns ==
  ASSUME RouterInv, CMTypeOK', NEW c \in Callers, send_returns(c)
  PROVE  RouterInv'
<1>1. /\ publishing[c] = Idle /\ published' = published /\ publishing' = publishing
      /\ outcome' = outcome /\ current[c] # 0 /\ Unsent(current[c]) = {} /\ Return(c, "ok")
  BY DEF send_returns, cmVars, clientVars
<1>2. PICK k : k = current[c]
  OBVIOUS
<1>3. k \in DOMAIN calls /\ calls[k].caller = c /\ ended[k] = "running"
  BY <1>1, <1>2, RecordedFacts DEF RouterInv, RTypeOK
<1>4. RTypeOK' /\ Recorded' /\ Progress' /\ Owned' /\ InOrder' /\ ByAttributes'
  BY <1>1, ProgressReturn
<1>5. /\ calls' = calls /\ sent' = sent
      /\ \A j \in DOMAIN calls : ended'[j] = IF j = k THEN "ok" ELSE ended[j]
  BY <1>1, <1>2, RecordedFacts DEF Return
<1>6. ASSUME NEW j \in DOMAIN calls PROVE Outcome(j)'
  <2>1. Outcome(j)
    BY DEF RouterInv, Outcomes
  <2>2. CASE j = k
    <3>1. \A a \in DOMAIN calls[k].targets : sent[k][a] # 0
      BY <1>1, <1>2 DEF Unsent
    <3>2. \A a \in DOMAIN calls[k].targets : outcome[sent[k][a]] = "ok"
      BY <1>1, <1>3, <2>1, <2>2, <3>1 DEF Outcome, Idle
    <3> QED
      BY <1>1, <1>3, <1>5, <2>1, <2>2, <3>1, <3>2 DEF Outcome
  <2>3. CASE j # k
    BY <1>1, <1>5, <2>1, <2>3 DEF Outcome
  <2> QED
    BY <2>2, <2>3
<1>7. Outcomes'
  BY <1>5, <1>6 DEF Outcomes
<1> QED
  BY <1>4, <1>7 DEF RouterInv

\* A call publishes to one more of its queues.
LEMMA RouterInvPublish ==
  ASSUME RouterInv, CMTypeOK', NEW c \in Callers, publish_next(c)
  PROVE  RouterInv'
<1>1. PICK k, n : k = current[c] /\ n = Len(published) + 1
  OBVIOUS
<1>2. PICK a \in Unsent(k) :
        /\ basic_publish(c, PublicationOf(calls[k].kind, a, calls[k].targets[a]))
        /\ sent' = [sent EXCEPT ![k] = [sent[k] EXCEPT ![a] = n]]
  BY <1>1 DEF publish_next
<1>3. /\ k \in DOMAIN calls /\ calls[k].caller = c /\ ended[k] = "running" /\ current[c] # 0
      /\ a \in DOMAIN calls[k].targets /\ sent[k][a] = 0
  BY <1>1, <1>2, RecordedFacts DEF publish_next, Unsent, RouterInv, RTypeOK
<1>4. /\ calls' = calls /\ ended' = ended /\ current' = current /\ publishing[c] = Idle
      /\ published' = Append(published, PublicationOf(calls[k].kind, a, calls[k].targets[a]))
      /\ outcome' = Append(outcome, "running")
      /\ publishing' = [publishing EXCEPT ![c] = [pub |-> n, pos |-> 0]]
  BY <1>1, <1>2 DEF publish_next, basic_publish
<1>5. n \in Nat \ {0} /\ n \notin 1 .. Len(published) /\ Len(published) \in Nat
  BY <1>1, RecordedFacts
<1>6. /\ Len(published') = n
      /\ published'[n] = PublicationOf(calls[k].kind, a, calls[k].targets[a])
      /\ \A m \in 1 .. Len(published) : published'[m] = published[m] /\ outcome'[m] = outcome[m]
  <2>1. IsSeq(published) /\ IsSeq(outcome) /\ Len(outcome) = Len(published)
    BY DEF RouterInv, RTypeOK, CMTypeOK, IsSeq
  <2> QED
    BY <1>1, <1>4, <2>1, AppendIsSeq
<1>7. /\ \A d \in Callers : d # c => publishing'[d] = publishing[d]
      /\ publishing'[c].pub = n
  BY <1>4 DEF RouterInv, RTypeOK, CMTypeOK
<1>8. /\ IsSeq(sent') /\ Len(sent') = Len(sent) /\ DOMAIN sent' = DOMAIN sent
      /\ \A j \in DOMAIN calls : j # k => sent'[j] = sent[j]
      /\ sent'[k] = [sent[k] EXCEPT ![a] = n]
  <2>1. k \in DOMAIN sent /\ IsSeq(sent)
    BY <1>3, RecordedFacts DEF RouterInv, Recorded
  <2> QED
    BY <1>2, <2>1, ExceptIsSeq, RecordedFacts
<1>9. /\ sent'[k][a] = n
      /\ \A j \in DOMAIN calls : \A b \in DOMAIN calls[j].targets :
            ~(j = k /\ b = a) => sent'[j][b] = sent[j][b]
      /\ \A j \in DOMAIN calls : \A b \in DOMAIN calls[j].targets :
            sent[j][b] # 0 => sent[j][b] \in 1 .. Len(published)
  BY <1>3, <1>8, RecordedFacts
<1>10. Recorded'
  BY <1>4, <1>8 DEF RouterInv, Recorded
<1>11. RTypeOK'
  <2>1. ASSUME NEW j \in DOMAIN calls PROVE CallType(j)'
    <3>1. CallType(j)
      BY DEF RouterInv, RTypeOK
    <3>2. sent'[j] \in [DOMAIN calls[j].targets -> 0 .. n]
      <4>1. sent[j] \in [DOMAIN calls[j].targets -> 0 .. n]
        BY <1>1, <1>5, RecordedFacts
      <4>2. CASE j = k
        BY <1>3, <1>5, <1>8, <4>1, <4>2
      <4>3. CASE j # k
        BY <1>8, <4>1, <4>3
      <4> QED
        BY <4>2, <4>3
    <3> QED
      BY <1>4, <1>6, <3>1, <3>2 DEF CallType
  <2>2. ASSUME NEW d \in Callers
        PROVE  /\ publishing'[d] # Idle => current'[d] # 0
               /\ current'[d] # 0 => ended'[current'[d]] = "running" /\ calls'[current'[d]].caller = d
    BY <1>3, <1>4, <1>7 DEF RouterInv, RTypeOK
  <2>3. \A j \in DOMAIN calls' : CallType(j)'
    BY <1>4, <2>1
  <2> QED
    BY <1>4, <1>8, <2>2, <2>3, RecordedFacts DEF RouterInv, RTypeOK
<1>12. Progress'
  <2>1. ASSUME NEW d \in Callers, publishing'[d] # Idle
        PROVE  /\ current'[d] # 0
               /\ \E b \in DOMAIN calls'[current'[d]].targets :
                    sent'[current'[d]][b] = publishing'[d].pub
    <3>1. CASE d = c
      BY <1>1, <1>3, <1>4, <1>7, <1>9, <3>1
    <3>2. CASE d # c
      <4>1. publishing[d] # Idle
        BY <1>7, <2>1, <3>2
      <4>2. current[d] \in DOMAIN calls /\ calls[current[d]].caller = d
        BY <4>1, BeingPublished
      <4>3. PICK b \in DOMAIN calls[current[d]].targets : sent[current[d]][b] = publishing[d].pub
        BY <4>1 DEF RouterInv, Progress
      <4>4. sent'[current[d]][b] = sent[current[d]][b]
        BY <1>3, <1>9, <3>2, <4>2
      <4> QED
        BY <1>4, <1>7, <2>1, <3>2, <4>1, <4>3, <4>4, RecordedFacts, <4>2
    <3> QED
      BY <3>1, <3>2
  <2> QED
    BY <1>4, <2>1 DEF RouterInv, Progress
<1>13. Owned'
  <2>1. ASSUME NEW j \in DOMAIN calls, NEW b \in DOMAIN calls[j].targets, sent'[j][b] # 0
        PROVE  published'[sent'[j][b]] = PublicationOf(calls[j].kind, b, calls[j].targets[b])
    <3>1. CASE j = k /\ b = a
      BY <1>6, <1>9, <3>1
    <3>2. CASE ~(j = k /\ b = a)
      <4>1. sent'[j][b] = sent[j][b] /\ sent[j][b] \in 1 .. Len(published)
        BY <1>9, <2>1, <3>2
      <4>2. published[sent[j][b]] = PublicationOf(calls[j].kind, b, calls[j].targets[b])
        BY <2>1, <4>1 DEF RouterInv, Owned
      <4> QED
        BY <1>6, <4>1, <4>2
    <3> QED
      BY <3>1, <3>2
  <2>2. ASSUME NEW m \in 1 .. Len(published')
        PROVE  \E j \in DOMAIN calls : \E b \in DOMAIN calls[j].targets : sent'[j][b] = m
    <3>1. CASE m = n
      BY <1>3, <1>9, <3>1
    <3>2. CASE m \in 1 .. Len(published)
      <4>1. PICK j \in DOMAIN calls : \E b \in DOMAIN calls[j].targets : sent[j][b] = m
        BY <3>2 DEF RouterInv, Owned
      <4>2. PICK b \in DOMAIN calls[j].targets : sent[j][b] = m
        BY <4>1
      <4>3. sent'[j][b] = m
        BY <1>3, <1>9, <3>2, <4>2
      <4> QED
        BY <4>3
    <3> QED
      BY <1>1, <1>5, <1>6, <3>1, <3>2
  <2>3. ASSUME NEW i \in DOMAIN calls, NEW j \in DOMAIN calls,
               NEW d \in DOMAIN calls[i].targets, NEW b \in DOMAIN calls[j].targets,
               sent'[i][d] # 0, sent'[i][d] = sent'[j][b]
        PROVE  i = j /\ d = b
    <3>1. CASE i = k /\ d = a
      BY <1>5, <1>9, <2>3, <3>1
    <3>2. CASE j = k /\ b = a
      BY <1>5, <1>9, <2>3, <3>2
    <3>3. CASE ~(i = k /\ d = a) /\ ~(j = k /\ b = a)
      BY <1>9, <2>3, <3>3 DEF RouterInv, Owned
    <3> QED
      BY <3>1, <3>2, <3>3
  <2>4. calls' = calls
    BY <1>4
  <2> QED
    BY <2>1, <2>2, <2>3, <2>4 DEF Owned
<1>14. InOrder'
  <2>1. ASSUME NEW i \in DOMAIN calls, NEW j \in DOMAIN calls,
               NEW d \in DOMAIN calls[i].targets, NEW b \in DOMAIN calls[j].targets,
               i < j, calls[i].caller = calls[j].caller, sent'[i][d] # 0, sent'[j][b] # 0
        PROVE  sent'[i][d] < sent'[j][b]
    <3>1. i # k
      <4>1. calls[j].caller = c => j <= k
        BY <1>1, <1>3 DEF RouterInv, Progress
      <4> QED
        BY <1>3, <2>1, <4>1, RecordedFacts
    <3>2. sent'[i][d] = sent[i][d] /\ sent[i][d] \in 1 .. Len(published)
      BY <1>9, <2>1, <3>1
    <3>3. CASE j = k /\ b = a
      BY <1>1, <1>9, <3>2, <3>3, RecordedFacts
    <3>4. CASE ~(j = k /\ b = a)
      <4>1. sent'[j][b] = sent[j][b] /\ sent[j][b] # 0
        BY <1>9, <2>1, <3>4
      <4> QED
        BY <2>1, <3>2, <4>1 DEF RouterInv, InOrder
    <3> QED
      BY <3>3, <3>4
  <2> QED
    BY <1>4, <2>1 DEF InOrder
<1>15. ASSUME NEW j \in DOMAIN calls PROVE Outcome(j)'
  <2>1. Outcome(j) /\ calls[j].caller \in Callers
    BY RecordedFacts DEF RouterInv, Outcomes
  <2>2. CASE j = k
    <3>1. ASSUME NEW b \in DOMAIN calls[k].targets, sent'[k][b] # 0
          PROVE  outcome'[sent'[k][b]] = "ok" \/ publishing'[c].pub = sent'[k][b]
      <4>1. CASE b = a
        BY <1>7, <1>9, <4>1
      <4>2. CASE b # a
        <5>1. sent'[k][b] = sent[k][b] /\ sent[k][b] \in 1 .. Len(published)
          BY <1>3, <1>9, <3>1, <4>2
        <5>2. outcome[sent[k][b]] = "ok"
          <6>1. publishing[c].pub = 0 /\ sent[k][b] # 0
            BY <1>4, <3>1, <5>1 DEF Idle
          <6> QED
            BY <1>3, <2>1, <2>2, <6>1 DEF Outcome
        <5> QED
          BY <1>6, <5>1, <5>2
      <4> QED
        BY <4>1, <4>2
    <3> QED
      BY <1>3, <1>4, <2>2, <3>1 DEF Outcome
  <2>3. CASE j # k
    <3>1. \A b \in DOMAIN calls[j].targets :
            /\ sent'[j][b] = sent[j][b]
            /\ sent[j][b] # 0 => outcome'[sent[j][b]] = outcome[sent[j][b]]
      BY <1>6, <1>9, <2>3
    <3>2. ended[j] = "running" => calls[j].caller # c
      BY <1>1, <2>3 DEF RouterInv, Progress
    <3>3. ended[j] = "running" => publishing'[calls[j].caller] = publishing[calls[j].caller]
      BY <1>7, <2>1, <3>2
    <3>4. calls'[j] = calls[j] /\ ended'[j] = ended[j]
      BY <1>4
    <3> QED
      BY <2>1, <3>1, <3>3, <3>4 DEF Outcome
  <2> QED
    BY <2>2, <2>3
<1>16. Outcomes' /\ ByAttributes'
  BY <1>4, <1>15 DEF RouterInv, Outcomes, ByAttributes
<1> QED
  BY <1>10, <1>11, <1>12, <1>13, <1>14, <1>16 DEF RouterInv

\* Another frame is written: the last of its publication or one before.
LEMMA RouterInvWrites ==
  ASSUME RouterInv, CMTypeOK', NEW c \in Callers, write_frame(c)
  PROVE  RouterInv'
<1>1. publishing[c] # Idle /\ UNCHANGED published /\ UNCHANGED routerVars /\ NextFrame(c)
  BY DEF write_frame, WriteFrame
<1>2. CASE publishing[c].pos = LastPos(publishing[c].pub)
  BY <1>1, <1>2, RouterInvPublished DEF NextFrame
<1>3. CASE publishing[c].pos # LastPos(publishing[c].pub)
  BY <1>1, <1>3, RouterInvFrame DEF NextFrame
<1> QED
  BY <1>2, <1>3

LEMMA RouterInvNext == RouterInv /\ CMTypeOK' /\ [Next]_vars => RouterInv'
<1> SUFFICES ASSUME RouterInv, CMTypeOK', [Next]_vars PROVE RouterInv'
  OBVIOUS
<1>1. ASSUME NEW c \in Callers, NEW kind \in Kinds, NEW batch \in Batches[kind], send(c, kind, batch)
      PROVE  RouterInv'
  <2>1. Start(c, "send", kind, batch, required_send_attributes(kind), {1}) /\ 0 \notin {1}
    BY <1>1 DEF send
  <2> QED
    BY <2>1, RouterInvStart
<1>2. ASSUME NEW c \in Callers, NEW kind \in Kinds, NEW batch \in Batches[kind], NEW attrs \in AskedFor,
             send_with(c, kind, batch, attrs) \/ sendAll(c, kind, batch, attrs)
      PROVE  RouterInv'
  <2>1. CASE send_with(c, kind, batch, attrs)
    <3>1. Start(c, "send_with", kind, batch, attrs, {1}) /\ 0 \notin {1}
      BY <2>1 DEF send_with
    <3> QED
      BY <3>1, RouterInvStart
  <2>2. CASE sendAll(c, kind, batch, attrs)
    <3>1. Start(c, "sendAll", kind, batch, attrs, Nat \ {0}) /\ 0 \notin Nat \ {0}
      BY <2>2 DEF sendAll
    <3> QED
      BY <3>1, RouterInvStart
  <2> QED
    BY <1>2, <2>1, <2>2
<1>3. ASSUME NEW c \in Callers, CallStep(c)
      PROVE  RouterInv'
  BY <1>3, RouterInvPublish, RouterInvWrites, RouterInvThrows, RouterInvReturns DEF CallStep
<1>4. CASE (BrokerStep \/ LinkBreaks) /\ UNCHANGED routerVars
  <2>1. UNCHANGED <<published, outcome, publishing>>
    BY <1>4 DEF BrokerStep, BrokerReads, BrokerCompletes, BrokerRejects, BrokerIgnores, LinkBreaks,
                clientVars
  <2> QED
    BY <1>4, <2>1, RouterInvQuiet
<1>5. CASE UNCHANGED vars
  BY <1>5, RouterInvQuiet DEF vars, cmVars, clientVars
<1> QED
  BY <1>1, <1>2, <1>3, <1>4, <1>5 DEF Next

LEMMA RouterInvariant == Spec => []RouterInv
<1>1. RouterInv /\ RInv /\ [Next]_vars => RouterInv'
  <2>1. RouterInv => CMTypeOK
    BY DEF RouterInv, RTypeOK
  <2> QED
    BY <2>1, StepUsesConnection, TypeNext, RouterInvNext
<1> QED
  BY <1>1, RouterInvInit, RInvInit, RInvNext, PTL DEF Spec

\* Every state of the routers has the types that RTypeOK gives it, and a caller
\* inside basic_publish is inside a call that has not ended.
THEOREM RouterTypeCorrect == Spec => []RTypeOK
<1>1. RouterInv => RTypeOK
  BY DEF RouterInv
<1> QED
  BY <1>1, RouterInvariant, PTL

------------------------------------------------------------------------------
(***************************************************************************)
(* What the application is promised: RouterInv and what is proved of the   *)
(* connection, together.                                                   *)
(***************************************************************************)

\* What the routers know of the connection they use.
LEMMA ConnectionHolds ==
  Spec => [](CMTypeOK /\ PrefixDelivery /\ FailedNeverProcessed /\ LossHasCause)
<1>1. CMSpec => [](CMTypeOK /\ PrefixDelivery /\ FailedNeverProcessed /\ LossHasCause)
  BY TypeCorrect, PrefixDeliveryHolds, FailedNeverProcessedHolds, LossHasCauseHolds, PTL
<1> QED
  BY <1>1, UsesConnection, PTL

\* The broker has a publication once if at all, in its place.
LEMMA AcceptedOnce ==
  ASSUME CMTypeOK, PrefixDelivery, ~overlapped, NEW n \in 1 .. Len(published)
  PROVE  /\ n <= Len(processed) => Accepted(n) = {n}
         /\ n > Len(processed) => Accepted(n) = {}
         /\ Len(processed) \in Nat /\ DOMAIN processed = 1 .. Len(processed)
         /\ Len(processed) <= Len(published) /\ Len(published) \in Nat
<1>1. /\ Len(processed) \in Nat /\ DOMAIN processed = 1 .. Len(processed)
      /\ Len(published) \in Nat /\ Len(processed) <= Len(published)
      /\ \A i \in 1 .. Len(processed) : processed[i] = Content(i)
  BY LenProperties DEF CMTypeOK, PrefixDelivery
<1>2. ASSUME NEW i \in 1 .. Len(published) PROVE Content(i)[1].pub = i
  <2>1. 1 \in 1 .. LastPos(i) + 1
    BY LastPosType DEF CMTypeOK
  <2> QED
    BY <2>1 DEF Content
<1>3. ASSUME NEW i \in 1 .. Len(processed), processed[i] = Content(n)
      PROVE  i = n
  <2>1. i \in 1 .. Len(published) /\ Content(i) = Content(n)
    BY <1>1, <1>3
  <2> QED
    BY <1>2, <2>1
<1> QED
  BY <1>1, <1>3 DEF Accepted

\* The publications of a call are numbered like those of the connection.
LEMMA PublicationsExist ==
  ASSUME RouterInv, NEW k \in DOMAIN calls, NEW n \in PublicationsOf(k)
  PROVE  /\ n \in 1 .. Len(published)
         /\ \E a \in DOMAIN calls[k].targets : sent[k][a] = n /\ n # 0
BY RecordedFacts DEF PublicationsOf

\* A call that returned has reached each of its queues once and with what it
\* chose for it, as far as the broker has read.
THEOREM OkMeansDeliveredHolds == Spec => []OkMeansDelivered
<1>1. ASSUME RouterInv, CMTypeOK, PrefixDelivery, LossHasCause
      PROVE  OkMeansDelivered
  <2> SUFFICES ASSUME ~overlapped, link = "up", channel = "open", wire = <<>>,
                      NEW k \in DOMAIN calls, ended[k] = "ok"
               PROVE  /\ DOMAIN calls[k].targets # {}
                      /\ \A a \in DOMAIN calls[k].targets :
                           LET n == sent[k][a] IN
                           /\ n \in DOMAIN published
                           /\ published[n] = PublicationOf(calls[k].kind, a, calls[k].targets[a])
                           /\ Cardinality(Accepted(n)) = 1
    BY DEF OkMeansDelivered
  <2>1. Outcome(k)
    BY <1>1 DEF RouterInv, Outcomes
  <2>2. ASSUME NEW a \in DOMAIN calls[k].targets, NEW n, n = sent[k][a]
        PROVE  /\ n \in DOMAIN published
               /\ published[n] = PublicationOf(calls[k].kind, a, calls[k].targets[a])
               /\ Cardinality(Accepted(n)) = 1
    <3>1. n # 0 /\ outcome[n] = "ok"
      BY <2>1, <2>2 DEF Outcome
    <3>2. n \in 1 .. Len(published) /\ n \in DOMAIN published
      BY <1>1, <2>2, <3>1, RecordedFacts
    <3>3. published[n] = PublicationOf(calls[k].kind, a, calls[k].targets[a])
      BY <1>1, <2>2, <3>1 DEF RouterInv, Owned
    <3>4. n <= Len(processed)
      <4>1. SUFFICES ASSUME ~(n <= Len(processed)) PROVE FALSE
        OBVIOUS
      <4>2. Len(processed) \in Nat
        BY <1>1, <3>2, AcceptedOnce
      <4>3. n \in Len(processed) + 1 .. Len(published)
        BY <3>2, <4>1, <4>2
      <4> QED
        BY <1>1, <3>1, <4>3 DEF LossHasCause
    <3>5. Accepted(n) = {n}
      BY <1>1, <3>2, <3>4, AcceptedOnce
    <3> QED
      BY <3>2, <3>3, <3>5, FS_Singleton
  <2> QED
    BY <2>1, <2>2 DEF Outcome
<1> QED
  BY <1>1, RouterInvariant, ConnectionHolds, PTL

\* A call that threw published nothing, or failed at exactly one publication,
\* which the broker does not get.
THEOREM ThrewMeansIncompleteHolds == Spec => []ThrewMeansIncomplete
<1>1. ASSUME RouterInv, CMTypeOK, PrefixDelivery, FailedNeverProcessed
      PROVE  ThrewMeansIncomplete
  <2> SUFFICES ASSUME ~overlapped, NEW k \in DOMAIN calls, ended[k] = "threw",
                      PublicationsOf(k) # {}
               PROVE  \E n \in PublicationsOf(k) :
                        /\ {m \in PublicationsOf(k) : outcome[m] # "ok"} = {n}
                        /\ outcome[n] = "failed" /\ Accepted(n) = {}
    BY DEF ThrewMeansIncomplete
  <2>1. PICK a \in DOMAIN calls[k].targets :
          /\ sent[k][a] # 0 /\ outcome[sent[k][a]] = "failed"
          /\ \A b \in DOMAIN calls[k].targets :
               sent[k][b] # 0 /\ b # a => outcome[sent[k][b]] = "ok"
    <3>1. Outcome(k)
      BY <1>1 DEF RouterInv, Outcomes
    <3>2. \E b \in DOMAIN calls[k].targets : sent[k][b] # 0
      BY <1>1, PublicationsExist
    <3> QED
      BY <3>1, <3>2 DEF Outcome
  <2>2. PICK n : n = sent[k][a]
    OBVIOUS
  <2>3. n \in PublicationsOf(k) /\ n \in 1 .. Len(published) /\ outcome[n] = "failed"
    BY <1>1, <2>1, <2>2, PublicationsExist DEF PublicationsOf
  <2>4. ASSUME NEW m \in PublicationsOf(k), outcome[m] # "ok"
        PROVE  m = n
    BY <1>1, <2>1, <2>2, <2>4, PublicationsExist
  <2>5. Accepted(n) = {}
    <3>1. Len(processed) \in Nat /\ (n > Len(processed) => Accepted(n) = {})
      BY <1>1, <2>3, AcceptedOnce
    <3>2. ~(n \in 1 .. Len(processed))
      BY <1>1, <2>3 DEF FailedNeverProcessed
    <3> QED
      BY <2>3, <3>1, <3>2
  <2> QED
    BY <2>3, <2>4, <2>5
<1> QED
  BY <1>1, RouterInvariant, ConnectionHolds, PTL

\* Each content that the broker accepted belongs to exactly one call.
THEOREM NothingStrayHolds == Spec => []NothingStray
<1>1. ASSUME RouterInv, CMTypeOK, PrefixDelivery
      PROVE  NothingStray
  <2> SUFFICES ASSUME ~overlapped, NEW i \in DOMAIN processed
               PROVE  Cardinality({k \in DOMAIN calls :
                                     \E n \in PublicationsOf(k) : Accepted(n) = {i}}) = 1
    BY DEF NothingStray
  <2>1. i \in 1 .. Len(published) /\ i \in 1 .. Len(processed) /\ Len(processed) \in Nat
    BY <1>1, LenProperties DEF PrefixDelivery, CMTypeOK
  <2>2. Accepted(i) = {i}
    BY <1>1, <2>1, AcceptedOnce
  <2>3. PICK k \in DOMAIN calls : \E a \in DOMAIN calls[k].targets : sent[k][a] = i
    BY <1>1, <2>1 DEF RouterInv, Owned
  <2>4. i \in PublicationsOf(k)
    BY <2>1, <2>3 DEF PublicationsOf
  <2>5. ASSUME NEW j \in DOMAIN calls, NEW n \in PublicationsOf(j), Accepted(n) = {i}
        PROVE  j = k
    <3>1. n \in 1 .. Len(published)
      BY <1>1, PublicationsExist
    <3>2. Accepted(n) = {n} \/ Accepted(n) = {}
      BY <1>1, <2>1, <3>1, AcceptedOnce
    <3>3. n = i
      BY <2>5, <3>2
    <3>4. PICK a \in DOMAIN calls[j].targets : sent[j][a] = i
      BY <1>1, <3>3, PublicationsExist
    <3> QED
      BY <1>1, <2>1, <2>3, <3>4 DEF RouterInv, Owned
  <2>6. {j \in DOMAIN calls : \E n \in PublicationsOf(j) : Accepted(n) = {i}} = {k}
    BY <2>2, <2>4, <2>5
  <2> QED
    BY <2>6, FS_Singleton
<1> QED
  BY <1>1, RouterInvariant, ConnectionHolds, PTL

\* Of two calls of a caller, all of the first is at the broker before anything of
\* the second.
THEOREM CallsInOrderHolds == Spec => []CallsInOrder
<1>1. ASSUME RouterInv, CMTypeOK, PrefixDelivery
      PROVE  CallsInOrder
  <2> SUFFICES ASSUME ~overlapped, NEW j \in DOMAIN calls, NEW k \in DOMAIN calls,
                      j < k, calls[j].caller = calls[k].caller,
                      NEW m \in PublicationsOf(j), NEW n \in PublicationsOf(k), Accepted(n) # {}
               PROVE  Accepted(m) # {} /\ \A x \in Accepted(m), y \in Accepted(n) : x < y
    BY DEF CallsInOrder
  <2>1. m \in 1 .. Len(published) /\ n \in 1 .. Len(published)
    BY <1>1, PublicationsExist
  <2>2. m < n
    BY <1>1, PublicationsExist DEF RouterInv, InOrder
  <2>3. n <= Len(processed) /\ Accepted(n) = {n} /\ Len(processed) \in Nat
    BY <1>1, <2>1, AcceptedOnce
  <2>4. m <= Len(processed)
    BY <2>1, <2>2, <2>3
  <2>5. Accepted(m) = {m}
    BY <1>1, <2>1, <2>4, AcceptedOnce
  <2> QED
    BY <2>2, <2>3, <2>5
<1> QED
  BY <1>1, RouterInvariant, ConnectionHolds, PTL

\* A publication is made on a connection that no earlier one has failed on, or it
\* fails.  (Sequential has the rest: a failed publication leaves the link in error,
\* and no other is in progress when one fails.)
NoneAfterFailure ==
  ~overlapped =>
    \A m, n \in 1 .. Len(published) :
      outcome[m] = "failed" /\ m < n => outcome[n] # "ok"

LEMMA NoneAfterStep ==
  IInv /\ NoneAfterFailure /\ [CMNext]_cmVars => NoneAfterFailure'
<1> SUFFICES ASSUME IInv, NoneAfterFailure, [CMNext]_cmVars, ~overlapped'
             PROVE  \A m, n \in 1 .. Len(published') :
                      outcome'[m] = "failed" /\ m < n => outcome'[n] # "ok"
  BY DEF NoneAfterFailure
<1>1. CMTypeOK /\ Len(published) \in Nat /\ Len(outcome) = Len(published)
      /\ DOMAIN outcome = 1 .. Len(published)
  BY LenProperties DEF IInv, CMTypeOK
<1>2. ASSUME UNCHANGED <<published, outcome, overlapped>>
      PROVE  \A m, n \in 1 .. Len(published') :
               outcome'[m] = "failed" /\ m < n => outcome'[n] # "ok"
  BY <1>2 DEF NoneAfterFailure
<1>3. ASSUME NEW c \in Callers, NEW p \in Publication, basic_publish(c, p)
      PROVE  \A m, n \in 1 .. Len(published') :
               outcome'[m] = "failed" /\ m < n => outcome'[n] # "ok"
  <2>1. ~overlapped
    BY <1>3 DEF basic_publish
  <2>2. /\ Len(published') = Len(published) + 1 /\ outcome'[Len(published) + 1] = "running"
        /\ \A n \in 1 .. Len(published) : outcome'[n] = outcome[n]
    <3>1. published' = Append(published, p) /\ outcome' = Append(outcome, "running")
          /\ published \in Seq(Publication) /\ IsSeq(outcome)
      BY <1>1, <1>3 DEF basic_publish, CMTypeOK, IsSeq
    <3>2. Len(published') = Len(published) + 1
      BY <3>1, AppendProperties
    <3> QED
      BY <1>1, <3>1, <3>2, AppendIsSeq
  <2> QED
    BY <1>1, <2>1, <2>2 DEF NoneAfterFailure
<1>4. ASSUME NEW c \in Callers, WriteFrame(c)
      PROVE  \A m, n \in 1 .. Len(published') :
               outcome'[m] = "failed" /\ m < n => outcome'[n] # "ok"
  <2>1. link # "error" /\ ~overlapped /\ UNCHANGED published
    BY <1>4 DEF WriteFrame
  <2>2. \A n \in 1 .. Len(published) : outcome[n] # "failed"
    BY <2>1 DEF IInv, Sequential, NoFailureYet
  <2>3. \A n \in 1 .. Len(published) : outcome'[n] # "failed"
    BY <1>1, <1>4, <2>2 DEF WriteFrame, NextFrame
  <2> QED
    BY <2>1, <2>3
<1>5. ASSUME NEW c \in Callers, PublishFails(c)
      PROVE  \A m, n \in 1 .. Len(published') :
               outcome'[m] = "failed" /\ m < n => outcome'[n] # "ok"
  <2>1. ~overlapped /\ UNCHANGED published /\ outcome' = [outcome EXCEPT ![publishing[c].pub] = "failed"]
    BY <1>5 DEF PublishFails
  <2>2. publishing[c].pub = Len(published)
    BY <1>5, <2>1 DEF PublishFails, IInv, Sequential, OneAtATime, Busy
  <2>3. \A n \in 1 .. Len(published) :
          outcome'[n] = IF n = Len(published) THEN "failed" ELSE outcome[n]
    BY <1>1, <2>1, <2>2
  <2>4. ASSUME NEW m \in 1 .. Len(published), NEW n \in 1 .. Len(published),
               outcome'[m] = "failed", m < n
        PROVE  outcome'[n] # "ok"
    <3>1. m # Len(published)
      <4>1. PICK last \in Nat : last = Len(published)
        BY <1>1
      <4>2. n <= last /\ m < n /\ m \in Nat /\ n \in Nat
        BY <2>4, <4>1
      <4> QED
        BY <4>1, <4>2
    <3>2. outcome'[m] = outcome[m]
      BY <2>3, <3>1, Zenon
    <3> QED
      BY <2>1, <2>3, <2>4, <3>2 DEF NoneAfterFailure
  <2> QED
    BY <2>1, <2>4
<1>6. CASE BrokerStep \/ LinkBreaks \/ UNCHANGED cmVars
  BY <1>2, <1>6 DEF BrokerStep, BrokerReads, BrokerCompletes, BrokerRejects, BrokerIgnores, LinkBreaks,
                    clientVars, cmVars
<1> QED
  BY <1>3, <1>4, <1>5, <1>6 DEF CMNext

LEMMA NoneAfterHolds == CMSpec => []NoneAfterFailure
<1>1. CMInit => NoneAfterFailure
  BY EmptySeq DEF CMInit, NoneAfterFailure
<1> QED
  BY <1>1, NoneAfterStep, Invariant, PTL DEF CMSpec

\* After an exception of a publication no call of any router publishes anything
\* that returns normally or is accepted.
THEOREM FailureIsFinalHolds == Spec => []FailureIsFinal
<1>1. ASSUME RouterInv, CMTypeOK, PrefixDelivery, FailedNeverProcessed, NoneAfterFailure
      PROVE  FailureIsFinal
  <2> SUFFICES ASSUME ~overlapped, NEW j \in DOMAIN calls, NEW k \in DOMAIN calls,
                      NEW m \in PublicationsOf(j), NEW n \in PublicationsOf(k),
                      outcome[m] = "failed", m < n
               PROVE  outcome[n] # "ok" /\ Accepted(n) = {} /\ ended[k] # "ok"
    BY DEF FailureIsFinal
  <2>1. m \in 1 .. Len(published) /\ n \in 1 .. Len(published)
    BY <1>1, PublicationsExist
  <2>2. outcome[n] # "ok"
    BY <1>1, <2>1 DEF NoneAfterFailure
  <2>3. Accepted(n) = {}
    <3>1. /\ Len(processed) \in Nat
          /\ n > Len(processed) => Accepted(n) = {}
      BY <1>1, <2>1, AcceptedOnce
    <3>2. ~(m \in 1 .. Len(processed))
      BY <1>1 DEF FailedNeverProcessed
    <3> QED
      BY <2>1, <3>1, <3>2
  <2>4. ended[k] # "ok"
    <3>1. Outcome(k)
      BY <1>1 DEF RouterInv, Outcomes
    <3>2. \E a \in DOMAIN calls[k].targets : sent[k][a] = n /\ n # 0
      BY <1>1, PublicationsExist
    <3> QED
      BY <2>2, <3>1, <3>2 DEF Outcome
  <2> QED
    BY <2>2, <2>3, <2>4
<1>2. Spec => []NoneAfterFailure
  BY UsesConnection, NoneAfterHolds, PTL
<1> QED
  BY <1>1, <1>2, RouterInvariant, ConnectionHolds, PTL

\* A set whose elements are all the same has at most one.
LEMMA AtMostOne ==
  ASSUME NEW S, \A x, y \in S : x = y
  PROVE  Cardinality(S) <= 1
<1>1. CASE S = {}
  BY <1>1, FS_EmptySet
<1>2. CASE S # {}
  <2>1. PICK x \in S : S = {x}
    BY <1>2
  <2> QED
    BY <2>1, FS_Singleton
<1> QED
  BY <1>1, <1>2

\* What a router sends by tells which type of batch it sends.
LEMMA TypeByAttribute ==
  ASSUME NEW kind \in Kinds, NEW a, NEW batch
  PROVE  LET type == PublicationOf(kind, a, batch).payload.type
             required == required_send_attributes(kind)
         IN  \/ type = "MessageBatch" /\ "parsed" \in required
             \/ type = "MessageGroupBatch" /\ "raw" \in required
             \/ type = "EventBatch" /\ "event" \in required
BY DEF Kinds, PublicationOf, value_to_bytes, RabbitParsedBatchSender, RabbitRawBatchSender,
       RabbitMessageGroupBatchSender, EventBatchSender, required_send_attributes, RouterClass,
       RabbitParsedBatchRouter, RabbitRawBatchRouter, RabbitMessageGroupBatchRouter, EventBatchRouter

\* A queue that names one kind of message is sent one type of batch, by whatever
\* routers share it.
THEOREM OneTypePerQueueHolds == Spec => []OneTypePerQueue
<1>1. ASSUME RouterInv
      PROVE  OneTypePerQueue
  <2> SUFFICES ASSUME NEW a \in Aliases,
                      Cardinality(queues[a].attributes \cap {"parsed", "raw", "event"}) = 1
               PROVE  Cardinality({published[sent[k][a]].payload.type :
                                     k \in {k \in DOMAIN calls :
                                              /\ required_send_attributes(calls[k].kind) \subseteq calls[k].attrs
                                              /\ a \in DOMAIN calls[k].targets
                                              /\ sent[k][a] # 0}}) <= 1
    BY DEF OneTypePerQueue
  <2>1. PICK A : A = queues[a].attributes
    OBVIOUS
  <2>2. PICK name : A \cap {"parsed", "raw", "event"} = {name}
    <3>1. IsFiniteSet({"parsed", "raw", "event"})
      <4>1. IsFiniteSet({"parsed"} \cup {"raw"})
        BY FS_Singleton, FS_AddElement
      <4>2. IsFiniteSet(({"parsed"} \cup {"raw"}) \cup {"event"})
        BY <4>1, FS_AddElement
      <4>3. {"parsed", "raw", "event"} = ({"parsed"} \cup {"raw"}) \cup {"event"}
        OBVIOUS
      <4> QED
        BY <4>2, <4>3
    <3>2. IsFiniteSet(A \cap {"parsed", "raw", "event"})
      BY <3>1, FS_Subset
    <3> QED
      BY <2>1, <3>2, FS_Singleton
  <2>3. ASSUME NEW k \in DOMAIN calls, required_send_attributes(calls[k].kind) \subseteq calls[k].attrs,
               a \in DOMAIN calls[k].targets, sent[k][a] # 0
        PROVE  published[sent[k][a]].payload.type =
                 IF name = "parsed" THEN "MessageBatch"
                 ELSE IF name = "raw" THEN "MessageGroupBatch" ELSE "EventBatch"
    <3>1. PICK kind : kind = calls[k].kind
      OBVIOUS
    <3>2. kind \in Kinds /\ required_send_attributes(kind) \subseteq A
      BY <1>1, <2>1, <2>3, <3>1 DEF RouterInv, RTypeOK, CallType, ByAttributes
    <3>3. published[sent[k][a]] = PublicationOf(kind, a, calls[k].targets[a])
      BY <1>1, <2>3, <3>1 DEF RouterInv, Owned
    <3>4. \A x \in {"parsed", "raw", "event"} : x \in required_send_attributes(kind) => x = name
      BY <2>2, <3>2
    <3>5. PICK type : type = published[sent[k][a]].payload.type
      OBVIOUS
    <3>6. \/ type = "MessageBatch" /\ "parsed" \in required_send_attributes(kind)
          \/ type = "MessageGroupBatch" /\ "raw" \in required_send_attributes(kind)
          \/ type = "EventBatch" /\ "event" \in required_send_attributes(kind)
      BY <3>2, <3>3, <3>5, TypeByAttribute
    <3> QED
      BY <3>4, <3>5, <3>6
  <2> QED
    BY <2>3, AtMostOne
<1> QED
  BY <1>1, RouterInvariant, PTL

==============================================================================
