--------------------------- MODULE DemoMain_proofs ---------------------------
(***************************************************************************)
(* The program, for any number of batches, any batches, any mq.json and    *)
(* whatever it is started with.  It uses the routers as RabbitRouter.tla   *)
(* and the factory as CommonFactory.tla say, so that what is proved of     *)
(* these holds in it; what is added here is the order of its batches.      *)
(***************************************************************************)
EXTENDS DemoMain, RabbitRouter_proofs, MessageRouting_proofs

\* CommonFactory.tla again, with what is proved of it.
Proved == INSTANCE CommonFactory_proofs WITH Given <- {}, MaxAttempts <- 1

\* The program has one thread, and calls its routers with batches of theirs.
LEMMA Demonstrated ==
  /\ thread \in Callers /\ \A c \in Callers : c = thread
  /\ batch_total \in Nat \ {0}
  /\ \A kind \in DOMAIN Demo : kind \in Kinds /\ Demo[kind] \in Batches[kind]
BY DemoAssumption DEF DemoAssumption

LEMMA FactoryAssumed == Proved!FactoryAssumption
<1>1. IsFiniteSet(Kinds)
  <2>1. IsFiniteSet({"parsed"} \cup {"raw"})
    BY FS_Singleton, FS_AddElement
  <2>2. IsFiniteSet(({"parsed"} \cup {"raw"}) \cup {"group"})
    BY <2>1, FS_AddElement
  <2>3. IsFiniteSet((({"parsed"} \cup {"raw"}) \cup {"group"}) \cup {"event"})
    BY <2>2, FS_AddElement
  <2>4. Kinds = (({"parsed"} \cup {"raw"}) \cup {"group"}) \cup {"event"}
    BY DEF Kinds
  <2> QED
    BY <2>3, <2>4
<1> QED
  BY <1>1 DEF Proved!FactoryAssumption, Proved!IsFiniteSet, IsFiniteSet

------------------------------------------------------------------------------
(* The parts of the program. *)

\* What main() does to the routers is something that callers of them do.
LEMMA RouterStep == [DemoNext]_demoVars => [Next]_vars
<1> SUFFICES ASSUME [DemoNext]_demoVars PROVE [Next]_vars
  OBVIOUS
<1>1. ASSUME UNCHANGED vars PROVE [Next]_vars
  BY <1>1
<1>2. ASSUME NEW kind \in DOMAIN Demo, sends(kind) PROVE Next
  BY <1>2, Demonstrated DEF sends, Next
<1>3. CASE call_goes_on \/ call_throws
  BY <1>3, Demonstrated DEF call_goes_on, call_throws, CallStep, Next
<1>4. CASE ReadsStep \/ BreaksStep
  BY <1>4 DEF ReadsStep, BreaksStep, Next
<1>5. CASE constructs \/ rejects_arguments \/ init_reads \/ init_cannot_read \/ init_returns
  BY <1>1, <1>5 DEF constructs, rejects_arguments, init_reads, init_cannot_read, init_returns
<1>6. ASSUME NEW k \in Kinds, init_evaluates(k) \/ init_throws(k) PROVE [Next]_vars
  BY <1>1, <1>6 DEF init_evaluates, init_throws
<1>7. ASSUME NEW n \in DOMAIN Blocks, block_ends(n) PROVE [Next]_vars
  BY <1>1, <1>7 DEF block_ends
<1>8. CASE UNCHANGED demoVars
  BY <1>1, <1>8 DEF demoVars
<1> QED
  BY <1>2, <1>3, <1>4, <1>5, <1>6, <1>7, <1>8 DEF DemoNext, MainStep

\* So every promise of RabbitRouter.tla is kept in the program.
LEMMA UsesRouters == DemoSpec => Spec
<1>1. DemoInit => Init
  BY DEF DemoInit
<1> QED
  BY <1>1, RouterStep, PTL DEF DemoSpec, Spec

LEMMA SameFactory ==
  /\ Factory!Init => Proved!Init
  /\ Factory!FTypeOK <=> Proved!FTypeOK
  /\ \A k : Factory!Usable(k) <=> Proved!Usable(k)
<1>1. Factory!Init => Proved!Init
  BY DEF Factory!Init, Proved!Init, Factory!Foreign, Proved!Foreign
<1>2. Factory!FTypeOK <=> Proved!FTypeOK
  BY DEF Factory!FTypeOK, Proved!FTypeOK, Factory!Router, Proved!Router
<1>3. ASSUME NEW k PROVE Factory!Usable(k) <=> Proved!Usable(k)
  BY DEF Factory!Usable, Proved!Usable
<1> QED
  BY <1>1, <1>2, <1>3

LEMMA SameGetters ==
  ASSUME NEW k \in Kinds
  PROVE  /\ Factory!Returns(k) <=> Proved!Returns(k)
         /\ Factory!Throws(k) <=> Proved!Throws(k)
<1>1. Factory!Returns(k) <=> Proved!Returns(k)
  BY DEF Factory!Returns, Proved!Returns, Factory!get_rmq_connection_manager, Proved!get_rmq_connection_manager,
     Factory!WithRouter, Proved!WithRouter, Factory!Initialized, Proved!Initialized,
     Factory!connection, Proved!connection, Factory!configurations, Proved!configurations
<1>2. Factory!Throws(k) <=> Proved!Throws(k)
  BY DEF Factory!Throws, Proved!Throws, Factory!connection_throws, Proved!connection_throws,
     Factory!WithRouter, Proved!WithRouter, Factory!Blank, Proved!Blank,
     Factory!configurations, Proved!configurations
<1> QED
  BY <1>1, <1>2

LEMMA FactoryStep == [DemoNext]_demoVars => [Proved!Next]_(Proved!vars)
<1> SUFFICES ASSUME [DemoNext]_demoVars PROVE [Proved!Next]_(Proved!vars)
  OBVIOUS
<1> USE DEF Factory!configurations, Factory!connection, Factory!control,
            Proved!configurations, Proved!connection, Proved!control
<1>1. ASSUME UNCHANGED factoryVars PROVE UNCHANGED Proved!vars
  BY <1>1 DEF factoryVars, Proved!vars
<1>2. ASSUME NEW kind \in DOMAIN Demo, sends(kind) PROVE [Proved!Next]_(Proved!vars)
  <2>1. kind \in Kinds
    BY Demonstrated
  <2>2. CASE UNCHANGED factoryVars
    BY <1>1, <2>2
  <2>3. CASE Factory!get_router(kind)
    <3>1. Proved!get_router(kind)
      BY <2>1, <2>3, SameGetters DEF Factory!get_router, Proved!get_router
    <3> QED
      BY <2>1, <3>1 DEF Proved!Next
  <2> QED
    BY <1>2, <2>2, <2>3 DEF sends
<1>3. CASE call_goes_on \/ call_throws \/ constructs \/ rejects_arguments
  BY <1>1, <1>3 DEF call_goes_on, call_throws, constructs, rejects_arguments
<1>4. CASE ReadsStep \/ BreaksStep
  BY <1>1, <1>4 DEF ReadsStep, BreaksStep
<1>5. ASSUME init_reads PROVE Proved!Next
  <2>1. Factory!init_begins
    BY <1>5 DEF init_reads
  <2>2. Proved!init_begins
    BY <2>1 DEF Factory!init_begins, Proved!init_begins, Factory!load_configurations, Proved!load_configurations
  <2> QED
    BY <2>2 DEF Proved!Next
<1>6. ASSUME init_cannot_read PROVE Proved!Next
  <2>1. PICK file \in {"rmq_cfg", "message_router_cfg"} : Factory!init_throws_reading(file)
    BY <1>6 DEF init_cannot_read
  <2>2. Proved!init_throws_reading(file)
    BY <2>1 DEF Factory!init_throws_reading, Proved!init_throws_reading, Factory!load_throws, Proved!load_throws
  <2> QED
    BY <2>2 DEF Proved!Next
<1>7. ASSUME init_returns PROVE Proved!Next
  <2>1. Factory!init_returns
    BY <1>7 DEF init_returns
  <2>2. Proved!init_returns
    BY <2>1 DEF Factory!init_returns, Proved!init_returns
  <2> QED
    BY <2>2 DEF Proved!Next
<1>8. ASSUME NEW k \in Kinds, init_evaluates(k) \/ init_throws(k) PROVE Proved!Next
  <2>1. Factory!init_evaluates(k) \/ Factory!init_throws(k)
    BY <1>8 DEF init_evaluates, init_throws
  <2>2. Proved!init_evaluates(k) \/ Proved!init_throws(k)
    BY <2>1, SameGetters DEF Factory!init_evaluates, Proved!init_evaluates, Factory!init_throws, Proved!init_throws
  <2> QED
    BY <2>2 DEF Proved!Next
<1>9. ASSUME NEW n \in DOMAIN Blocks, block_ends(n) PROVE UNCHANGED Proved!vars
  BY <1>1, <1>9 DEF block_ends
<1>10. CASE UNCHANGED demoVars
  BY <1>1, <1>10 DEF demoVars
<1> QED
  BY <1>2, <1>3, <1>4, <1>5, <1>6, <1>7, <1>8, <1>9, <1>10 DEF DemoNext, MainStep

\* And every promise of CommonFactory.tla.
LEMMA UsesFactory == DemoSpec => Proved!Spec
<1>1. DemoInit => Proved!Init
  BY SameFactory DEF DemoInit
<1> QED
  BY <1>1, FactoryStep, PTL DEF DemoSpec, Proved!Spec

\* What the steps below rely on.
LEMMA PartsHold ==
  DemoSpec => [](RouterInv /\ Proved!FTypeOK /\ Proved!UnusableHasCause)
<1>1. Spec => []RouterInv
  BY RouterInvariant
<1>2. Proved!Spec => []Proved!FTypeOK
  BY FactoryAssumed, Proved!FactoryTypeCorrect
<1>3. Proved!Spec => []Proved!UnusableHasCause
  BY FactoryAssumed, Proved!UnusableHasCauseHolds
<1> QED
  BY <1>1, <1>2, <1>3, UsesRouters, UsesFactory, PTL

------------------------------------------------------------------------------
(* The order of the batches. *)

\* Until the first batch nothing has failed, and main() has come past init() only
\* if init() returned.  From then on the getters only give out what is there.
Prepared ==
  /\ ~replaced
  /\ pc \in {"start", "init"} => Len(calls) = 0 /\ failures = {} /\ i = 0
  /\ pc \in {"raw", "event", "group", "finished"} \/ Len(calls) # 0 =>
       returned /\ failures = {} /\ phase = "idle"

\* The blocks count the calls.
Counted ==
  /\ pc \in Places /\ i \in 0 .. batch_total
  /\ \A n \in DOMAIN Blocks : pc = Blocks[n] => Len(calls) = (n - 1) * batch_total + i
  /\ pc = "finished" => Len(calls) = Len(Blocks) * batch_total
  /\ pc \in {"finished", "terminated"} => current[thread] = 0

\* Every call sends the batch whose turn it is.
InTurn ==
  \A k \in DOMAIN calls :
    /\ calls[k].kind = RouterOf(k) /\ RouterOf(k) \in DOMAIN Demo
    /\ \A a \in DOMAIN calls[k].targets : calls[k].targets[a] = Demo[RouterOf(k)]

\* And as publication number k: each call before it has sent one.
OneEach ==
  \A k \in DOMAIN calls :
    /\ \A a \in DOMAIN calls[k].targets : sent[k][a] \in {0, k}
    /\ k < Len(calls) => ended[k] = "ok"
    /\ ended[k] = "threw" => pc = "terminated"
    /\ ended[k] # "threw" => \E a : DOMAIN calls[k].targets = {a}

DemoInv == Prepared /\ Counted /\ InTurn /\ OneEach

LEMMA ThreeBlocks ==
  /\ DOMAIN Blocks = 1 .. 3 /\ Len(Blocks) = 3
  /\ Blocks[1] = "raw" /\ Blocks[2] = "event" /\ Blocks[3] = "group"
BY DEF Blocks

\* The router of a batch is that of its block.
LEMMA RouterOfBlock ==
  ASSUME NEW n \in DOMAIN Blocks, NEW j \in 0 .. batch_total, j < batch_total
  PROVE  RouterOf((n - 1) * batch_total + j + 1) = Blocks[n]
<1>1. batch_total \in Nat \ {0}
  BY Demonstrated
<1>2. n \in 1 .. 3
  BY ThreeBlocks
<1>3. ASSUME NEW B \in Nat \ {0}, NEW m \in 0 .. B, m < B
      PROVE  /\ m \div B = 0
             /\ (B + m) \div B = 1
             /\ (2 * B + m) \div B = 2
  BY <1>3
<1>4. ((n - 1) * batch_total + j) \div batch_total = n - 1
  <2>1. CASE n = 1
    BY <1>1, <1>3, <2>1
  <2>2. CASE n = 2
    BY <1>1, <1>3, <2>2
  <2>3. CASE n = 3
    BY <1>1, <1>3, <2>3
  <2> QED
    BY <1>2, <2>1, <2>2, <2>3
<1>5. PICK q \in Nat : q = (n - 1) * batch_total + j
  <2>1. (n - 1) * batch_total \in Nat
    BY <1>1, <1>2
  <2> QED
    BY <1>1, <2>1
<1>6. (q + 1) - 1 = q /\ (n - 1) + 1 = n
  BY <1>2
<1>7. RouterOf(q + 1) = Blocks[n]
  BY <1>4, <1>5, <1>6 DEF RouterOf
<1> QED
  BY <1>5, <1>7

\* What a call that starts sends, and to which queues.
LEMMA SendsEffect ==
  ASSUME RouterInv, NEW kind \in DOMAIN Demo, send(thread, kind, Demo[kind])
  PROVE  LET new == Len(calls) + 1
             chosen == find_queues_by_attr(required_send_attributes(kind))
         IN  /\ current[thread] = 0
             /\ Len(calls) \in Nat /\ DOMAIN calls = 1 .. Len(calls)
             /\ Len(calls') = new /\ DOMAIN calls' = 1 .. new
             /\ \A k \in DOMAIN calls :
                  calls'[k] = calls[k] /\ sent'[k] = sent[k] /\ ended'[k] = ended[k]
             /\ calls'[new].kind = kind
             /\ calls'[new].targets = [a \in chosen |-> Demo[kind]]
             /\ sent'[new] = [a \in chosen |-> 0]
             /\ \/ Cardinality(chosen) = 1 /\ ended'[new] = "running" /\ current'[thread] = new
                \/ Cardinality(chosen) # 1 /\ ended'[new] = "threw" /\ current'[thread] = 0
<1>1. PICK new, chosen, call :
        /\ new = Len(calls) + 1
        /\ chosen = find_queues_by_attr(required_send_attributes(kind))
        /\ call = [caller |-> thread, op |-> "send", kind |-> kind, batch |-> Demo[kind],
                   attrs |-> required_send_attributes(kind), targets |-> find_by_filter(kind, chosen, Demo[kind])]
  OBVIOUS
<1>2. find_by_filter(kind, chosen, Demo[kind]) = [a \in chosen |-> Demo[kind]]
  <2>1. chosen \in SUBSET Aliases
    BY <1>1 DEF find_queues_by_attr
  <2>2. kind \in Kinds /\ Demo[kind] # <<>> /\ Demo[kind] \in Seq({Demo[kind][n] : n \in DOMAIN Demo[kind]})
    BY DemoAssumption DEF DemoAssumption
  <2> QED
    BY <2>1, <2>2, BatchesAreWhole
<1>3. /\ current[thread] = 0
      /\ calls' = Append(calls, call)
      /\ sent' = Append(sent, [a \in chosen |-> 0])
      /\ \/ /\ Cardinality(chosen) = 1
            /\ ended' = Append(ended, "running")
            /\ current' = [current EXCEPT ![thread] = new]
         \/ /\ Cardinality(chosen) # 1
            /\ ended' = Append(ended, "threw")
            /\ UNCHANGED current
  BY <1>1, <1>2 DEF send, Start
<1>4. /\ IsSeq(calls) /\ IsSeq(sent) /\ IsSeq(ended)
      /\ Len(sent) = Len(calls) /\ Len(ended) = Len(calls)
  BY DEF RouterInv, Recorded
<1>5. /\ Len(calls) \in Nat /\ DOMAIN calls = 1 .. Len(calls)
      /\ DOMAIN sent = DOMAIN calls /\ DOMAIN ended = DOMAIN calls
  BY RecordedFacts
<1>6. /\ Len(calls') = new /\ DOMAIN calls' = 1 .. new
      /\ calls'[new] = call /\ \A k \in DOMAIN calls : calls'[k] = calls[k]
  BY <1>1, <1>3, <1>4, <1>5, AppendIsSeq, AppendDomain
<1>7. sent'[new] = [a \in chosen |-> 0] /\ \A k \in DOMAIN calls : sent'[k] = sent[k]
  BY <1>1, <1>3, <1>4, <1>5, AppendIsSeq, AppendDomain
<1>8. \A k \in DOMAIN calls : ended'[k] = ended[k]
  BY <1>3, <1>4, <1>5, AppendDomain
<1>9. \/ Cardinality(chosen) = 1 /\ ended'[new] = "running" /\ current'[thread] = new
      \/ Cardinality(chosen) # 1 /\ ended'[new] = "threw" /\ current'[thread] = 0
  <2>1. thread \in DOMAIN current
    BY Demonstrated DEF RouterInv, RTypeOK
  <2>2. \A e : Append(ended, e)[new] = e
    BY <1>1, <1>4, AppendIsSeq
  <2> QED
    BY <1>3, <2>1, <2>2
<1> QED
  BY <1>1, <1>2, <1>3, <1>5, <1>6, <1>7, <1>8, <1>9

\* The program has one caller: a call in progress is the last one.
LEMMA LastCall ==
  ASSUME RouterInv
  PROVE  /\ Len(calls) \in Nat /\ DOMAIN calls = 1 .. Len(calls)
         /\ \A k \in DOMAIN calls : calls[k].caller = thread
         /\ current[thread] \in 0 .. Len(calls)
         /\ current[thread] # 0 => current[thread] = Len(calls) /\ ended[Len(calls)] = "running"
         /\ \A k \in DOMAIN calls : ended[k] = "running" => current[thread] = k
<1>1. /\ Len(calls) \in Nat /\ DOMAIN calls = 1 .. Len(calls)
      /\ \A k \in DOMAIN calls : calls[k].caller = thread
  BY RecordedFacts, Demonstrated
<1>2. current[thread] \in 0 .. Len(calls)
  BY Demonstrated DEF RouterInv, RTypeOK
<1>3. ASSUME current[thread] # 0
      PROVE  current[thread] = Len(calls) /\ ended[Len(calls)] = "running"
  <2>1. Len(calls) \in DOMAIN calls
    BY <1>1, <1>2, <1>3
  <2>2. Len(calls) <= current[thread]
    BY <1>1, <1>3, <2>1, Demonstrated DEF RouterInv, Progress
  <2>3. current[thread] = Len(calls)
    BY <1>1, <1>2, <2>2
  <2>4. ended[current[thread]] = "running"
    BY <1>3, Demonstrated DEF RouterInv, RTypeOK
  <2> QED
    BY <2>3, <2>4
<1>4. \A k \in DOMAIN calls : ended[k] = "running" => current[thread] = k
  BY <1>1 DEF RouterInv, Progress
<1> QED
  BY <1>1, <1>2, <1>3, <1>4

LEMMA DemoInvInit == DemoInit => DemoInv
<1> SUFFICES ASSUME DemoInit PROVE DemoInv
  OBVIOUS
<1>1. calls = <<>> /\ Len(calls) = 0 /\ DOMAIN calls = 1 .. 0
  BY EmptySeq DEF DemoInit, Init
<1>2. ~replaced /\ failures = {} /\ i = 0 /\ pc = "start"
  BY DEF DemoInit, Factory!Init
<1>3. Prepared
  BY <1>1, <1>2 DEF Prepared
<1>4. Counted
  BY <1>2, ThreeBlocks, Demonstrated DEF Counted, Places
<1>5. InTurn /\ OneEach
  BY <1>1 DEF InTurn, OneEach
<1> QED
  BY <1>3, <1>4, <1>5 DEF DemoInv

LEMMA DemoInvQuiet ==
  ASSUME DemoInv, UNCHANGED routerVars, UNCHANGED mainVars, UNCHANGED factoryVars
  PROVE  DemoInv'
<1>1. calls' = calls /\ sent' = sent /\ ended' = ended /\ current' = current /\ pc' = pc /\ i' = i
  BY DEF routerVars, mainVars
<1>2. /\ replaced' = replaced /\ failures' = failures /\ returned' = returned /\ phase' = phase
  BY DEF factoryVars
<1>3. Prepared'
  BY <1>1, <1>2 DEF DemoInv, Prepared
<1>4. Counted'
  BY <1>1 DEF DemoInv, Counted
<1>5. InTurn'
  BY <1>1 DEF DemoInv, InTurn
<1>6. OneEach'
  BY <1>1 DEF DemoInv, OneEach
<1> QED
  BY <1>3, <1>4, <1>5, <1>6 DEF DemoInv

\* Until the first block nothing is sent.
LEMMA DemoInvBefore ==
  ASSUME DemoInv, RouterInv, pc \in {"start", "init"}, UNCHANGED routerVars, i' = i,
         replaced' = replaced,
         \/ pc' = "init" /\ failures' = failures
         \/ pc' = "terminated"
         \/ pc' = "raw" /\ failures' = failures /\ returned' /\ phase' = "idle"
  PROVE  DemoInv'
<1>1. calls' = calls /\ sent' = sent /\ ended' = ended /\ current' = current
  BY DEF routerVars
<1>2. Len(calls) = 0 /\ failures = {} /\ i = 0 /\ ~replaced
  BY DEF DemoInv, Prepared
<1>3. Prepared'
  BY <1>1, <1>2 DEF Prepared
<1>4. DOMAIN calls = {} /\ current[thread] = 0
  BY <1>2, LastCall
<1>5. batch_total \in Nat /\ 0 * batch_total + 0 = 0
  BY Demonstrated
<1>6. Counted'
  BY <1>1, <1>2, <1>4, <1>5, ThreeBlocks DEF Counted, Places
<1>7. InTurn' /\ OneEach'
  BY <1>1, <1>4 DEF InTurn, OneEach
<1> QED
  BY <1>3, <1>6, <1>7 DEF DemoInv

\* A block gets a router that is there.
LEMMA GetterReads ==
  ASSUME Prepared, Proved!UnusableHasCause, NEW kind \in Kinds,
         pc \in {"raw", "event", "group"}, Factory!get_router(kind)
  PROVE  /\ replaced' = replaced /\ failures' = failures
         /\ returned' = returned /\ phase' = phase
<1>1. Proved!Usable(kind)
  BY DEF Prepared, Proved!UnusableHasCause
<1>2. kind \in DOMAIN router
  BY <1>1 DEF Proved!Usable
<1>3. Factory!Returns(kind)
  BY <1>2 DEF Factory!get_router, Factory!Throws
<1> QED
  BY <1>3 DEF Factory!get_router, Factory!Returns, Factory!control

LEMMA DemoInvSends ==
  ASSUME DemoInv, RouterInv, Proved!UnusableHasCause, NEW kind \in DOMAIN Demo, sends(kind)
  PROVE  DemoInv'
<1>1. /\ pc = kind /\ i < batch_total /\ send(thread, kind, Demo[kind])
      /\ i' = i + 1 /\ pc' = (IF current'[thread] = 0 THEN "terminated" ELSE pc)
  BY DEF sends
<1>2. kind \in {"raw", "event", "group"}
  BY <1>1, Demonstrated DEF DemoInv, Counted, Places, Kinds
<1>3. PICK n \in DOMAIN Blocks : kind = Blocks[n]
  BY <1>2, ThreeBlocks
<1>4. PICK new, chosen :
        /\ new = Len(calls) + 1
        /\ chosen = find_queues_by_attr(required_send_attributes(kind))
  OBVIOUS
<1>5. /\ current[thread] = 0
      /\ Len(calls) \in Nat /\ DOMAIN calls = 1 .. Len(calls)
      /\ Len(calls') = new /\ DOMAIN calls' = 1 .. new
      /\ \A k \in DOMAIN calls :
           calls'[k] = calls[k] /\ sent'[k] = sent[k] /\ ended'[k] = ended[k]
      /\ calls'[new].kind = kind
      /\ calls'[new].targets = [a \in chosen |-> Demo[kind]]
      /\ sent'[new] = [a \in chosen |-> 0]
      /\ \/ Cardinality(chosen) = 1 /\ ended'[new] = "running" /\ current'[thread] = new
         \/ Cardinality(chosen) # 1 /\ ended'[new] = "threw" /\ current'[thread] = 0
  BY <1>1, <1>4, SendsEffect
<1>6. Len(calls) = (n - 1) * batch_total + i /\ i \in 0 .. batch_total
  BY <1>1, <1>3 DEF DemoInv, Counted
<1>7. RouterOf(new) = kind
  BY <1>1, <1>3, <1>4, <1>6, RouterOfBlock
<1>8. Prepared'
  <2>1. /\ replaced' = replaced /\ failures' = failures /\ returned' = returned /\ phase' = phase
    <3>1. CASE UNCHANGED factoryVars
      BY <3>1 DEF factoryVars
    <3>2. CASE Factory!get_router(kind)
      BY <1>1, <1>2, <3>2, Demonstrated, GetterReads DEF DemoInv
    <3> QED
      BY <3>1, <3>2 DEF sends
  <2> QED
    BY <1>1, <1>2, <2>1 DEF DemoInv, Prepared
<1>9. Counted'
  <2>1. i' \in 0 .. batch_total
    BY <1>1, <1>6, Demonstrated
  <2>2. Len(calls') = (n - 1) * batch_total + i'
    <3>1. PICK q \in Nat : q = (n - 1) * batch_total
      BY <1>3, ThreeBlocks, Demonstrated
    <3> QED
      BY <1>1, <1>4, <1>5, <1>6, <3>1
  <2>3. \A m \in DOMAIN Blocks : pc' = Blocks[m] => m = n
    BY <1>1, <1>2, <1>3, ThreeBlocks
  <2>4. pc' \in Places /\ pc' # "finished"
    BY <1>1, <1>2 DEF Places
  <2>5. pc' = "terminated" => current'[thread] = 0
    BY <1>1, <1>2
  <2> QED
    BY <2>1, <2>2, <2>3, <2>4, <2>5 DEF Counted
<1>10. InTurn'
  BY <1>4, <1>5, <1>7 DEF DemoInv, InTurn
<1>11. OneEach'
  <2>1. ASSUME NEW k \in DOMAIN calls PROVE ended[k] = "ok"
    <3>1. ended[k] # "running"
      BY <1>5, <2>1, LastCall
    <3>2. ended[k] # "threw"
      BY <1>1, <1>2, <2>1 DEF DemoInv, OneEach
    <3> QED
      BY <2>1, <3>1, <3>2 DEF RouterInv, RTypeOK, CallType
  <2>2. Cardinality(chosen) = 1 => \E a : chosen = {a}
    <3>1. IsFiniteSet(chosen)
      BY <1>4, RouterAssumption, FS_Subset DEF RouterAssumption, find_queues_by_attr
    <3> QED
      BY <3>1, FS_Singleton
  <2>3. ASSUME NEW k \in DOMAIN calls
        PROVE  /\ \A a \in DOMAIN calls'[k].targets : sent'[k][a] \in {0, k}
               /\ ended'[k] = "ok"
               /\ \E a : DOMAIN calls'[k].targets = {a}
    <3>1. calls'[k] = calls[k] /\ sent'[k] = sent[k] /\ ended'[k] = ended[k] /\ ended[k] = "ok"
      BY <1>5, <2>1, <2>3
    <3>2. \A a \in DOMAIN calls[k].targets : sent[k][a] \in {0, k}
      BY <2>3 DEF DemoInv, OneEach
    <3>3. \E a : DOMAIN calls[k].targets = {a}
      BY <2>3, <3>1 DEF DemoInv, OneEach
    <3> QED
      BY <3>1, <3>2, <3>3
  <2>4. /\ \A a \in DOMAIN calls'[new].targets : sent'[new][a] \in {0, new}
        /\ ended'[new] = "threw" => pc' = "terminated"
        /\ ended'[new] # "threw" => \E a : DOMAIN calls'[new].targets = {a}
    BY <1>1, <1>5, <2>2
  <2>5. \A k \in DOMAIN calls' : k \in DOMAIN calls \/ k = new
    BY <1>4, <1>5
  <2>6. ~(new < Len(calls'))
    BY <1>4, <1>5
  <2> QED
    BY <2>3, <2>4, <2>5, <2>6 DEF OneEach
<1> QED
  BY <1>8, <1>9, <1>10, <1>11 DEF DemoInv

\* What the last call publishes is numbered as the call is.
LEMMA PublishesInTurn ==
  ASSUME DemoInv, RouterInv, current[thread] # 0,
         NEW a \in DOMAIN calls[Len(calls)].targets, sent[Len(calls)][a] = 0
  PROVE  Len(published) + 1 = Len(calls)
<1>1. PICK k : k = Len(calls)
  OBVIOUS
<1>2. k \in Nat /\ DOMAIN calls = 1 .. k /\ k \in DOMAIN calls /\ ended[k] = "running"
  BY <1>1, LastCall
<1>3. DOMAIN calls[k].targets = {a}
  BY <1>1, <1>2 DEF DemoInv, OneEach
<1>4. /\ Len(published) \in Nat
      /\ \A j \in DOMAIN calls : sent[j] \in [DOMAIN calls[j].targets -> 0 .. Len(published)]
  BY RecordedFacts
<1>5. ASSUME NEW m \in 1 .. Len(published) PROVE m < k
  <2>1. PICK j \in DOMAIN calls : \E b \in DOMAIN calls[j].targets : sent[j][b] = m
    BY <1>5 DEF RouterInv, Owned
  <2>2. j = m
    BY <1>4, <1>5, <2>1 DEF DemoInv, OneEach
  <2>3. j # k
    BY <1>1, <1>3, <1>5, <2>1
  <2> QED
    BY <1>2, <2>1, <2>2, <2>3
<1>6. ASSUME NEW j \in DOMAIN calls, j < k PROVE j <= Len(published)
  <2>1. ended[j] = "ok"
    BY <1>1, <1>6 DEF DemoInv, OneEach
  <2>2. Outcome(j)
    BY DEF RouterInv, Outcomes
  <2>3. PICK b \in DOMAIN calls[j].targets : sent[j][b] # 0
    BY <2>1, <2>2 DEF Outcome
  <2>4. sent[j][b] = j
    BY <2>3 DEF DemoInv, OneEach
  <2> QED
    BY <1>4, <2>3, <2>4
<1>7. Len(published) < k
  BY <1>2, <1>4, <1>5
<1>8. k - 1 <= Len(published)
  <2>1. CASE k = 1
    BY <1>4, <2>1
  <2>2. CASE k # 1
    <3>1. k - 1 \in DOMAIN calls /\ k - 1 < k
      BY <1>2, <2>2
    <3> QED
      BY <1>6, <3>1
  <2> QED
    BY <2>1, <2>2
<1> QED
  BY <1>1, <1>2, <1>4, <1>7, <1>8

LEMMA DemoInvCall ==
  ASSUME DemoInv, RouterInv, call_goes_on \/ call_throws
  PROVE  DemoInv'
<1>1. PICK k : k = Len(calls)
  OBVIOUS
<1>2. calls' = calls /\ i' = i /\ UNCHANGED factoryVars
  BY DEF call_goes_on, call_throws, publish_next, write_frame, send_returns, send_throws, Return,
         routerVars, mainVars
<1>3. ASSUME publish_next(thread), UNCHANGED mainVars PROVE DemoInv'
  <2>1. /\ current[thread] # 0 /\ ended' = ended /\ current' = current /\ pc' = pc
    BY <1>3 DEF publish_next, mainVars
  <2>2. current[thread] = k /\ k \in DOMAIN calls
    BY <1>1, <2>1, LastCall
  <2>3. PICK a \in DOMAIN calls[k].targets :
          /\ sent[k][a] = 0
          /\ sent' = [sent EXCEPT ![k] = [sent[k] EXCEPT ![a] = Len(published) + 1]]
    BY <1>3, <2>2 DEF publish_next, Unsent
  <2>4. Len(published) + 1 = k
    BY <1>1, <2>1, <2>3, PublishesInTurn
  <2>5. \A j \in DOMAIN calls : \A b \in DOMAIN calls[j].targets :
          sent'[j][b] = sent[j][b] \/ (j = k /\ sent'[j][b] = k)
    <3>1. /\ DOMAIN sent = DOMAIN calls
          /\ sent[k] \in [DOMAIN calls[k].targets -> 0 .. Len(published)]
      BY <2>2, RecordedFacts
    <3> QED
      BY <2>2, <2>3, <2>4, <3>1
  <2>6. OneEach'
    <3>1. ASSUME NEW j \in DOMAIN calls, NEW b \in DOMAIN calls[j].targets
          PROVE  sent'[j][b] \in {0, j}
      BY <2>5, <3>1 DEF DemoInv, OneEach
    <3> QED
      BY <1>2, <2>1, <3>1 DEF DemoInv, OneEach
  <2>7. Prepared'
    BY <1>2, <2>1 DEF DemoInv, Prepared, factoryVars
  <2>8. Counted' /\ InTurn'
    BY <1>2, <2>1 DEF DemoInv, Counted, InTurn
  <2> QED
    BY <2>6, <2>7, <2>8 DEF DemoInv
<1>4. ASSUME write_frame(thread), UNCHANGED mainVars PROVE DemoInv'
  BY <1>2, <1>4, DemoInvQuiet DEF write_frame
<1>5. ASSUME NEW how \in {"ok", "threw"}, Return(thread, how), current[thread] # 0,
             how = "ok" => pc' = pc, how = "threw" => pc' = "terminated"
      PROVE  DemoInv'
  <2>1. current[thread] = k /\ k \in DOMAIN calls /\ ended[k] = "running"
    BY <1>1, <1>5, LastCall
  <2>2. sent' = sent /\ current'[thread] = 0
    <3>1. thread \in DOMAIN current
      BY Demonstrated DEF RouterInv, RTypeOK
    <3> QED
      BY <1>5, <3>1 DEF Return
  <2>3. \A j \in DOMAIN calls : ended'[j] = IF j = k THEN how ELSE ended[j]
    <3>1. DOMAIN ended = DOMAIN calls
      BY RecordedFacts
    <3> QED
      BY <1>5, <2>1, <3>1 DEF Return
  <2>4. pc # "finished" /\ pc # "terminated"
    BY <1>5 DEF DemoInv, Counted
  <2>5. Prepared'
    BY <1>2, <1>5, <2>4 DEF DemoInv, Prepared, factoryVars
  <2>6. Counted'
    BY <1>2, <1>5, <2>2, ThreeBlocks DEF DemoInv, Counted, Places
  <2>7. InTurn'
    BY <1>2 DEF DemoInv, InTurn
  <2>8. ASSUME NEW j \in DOMAIN calls
        PROVE  /\ \A a \in DOMAIN calls[j].targets : sent[j][a] \in {0, j}
               /\ j < Len(calls) => ended'[j] = "ok"
               /\ ended'[j] = "threw" => pc' = "terminated"
               /\ ended'[j] # "threw" => \E a : DOMAIN calls[j].targets = {a}
    <3>1. j # k => ended'[j] = ended[j]
      BY <2>3, <2>8
    <3>2. j = k => ended'[j] = how
      BY <2>3, <2>8
    <3>3. /\ \A a \in DOMAIN calls[j].targets : sent[j][a] \in {0, j}
          /\ j < Len(calls) => ended[j] = "ok"
          /\ ended[j] = "threw" => pc = "terminated"
          /\ ended[j] # "threw" => \E a : DOMAIN calls[j].targets = {a}
      BY <2>8 DEF DemoInv, OneEach
    <3>4. CASE j = k
      BY <1>1, <1>5, <2>1, <3>2, <3>3, <3>4, LastCall
    <3>5. CASE j # k
      BY <2>4, <3>1, <3>3, <3>5
    <3> QED
      BY <3>4, <3>5
  <2>9. OneEach'
    BY <1>2, <2>2, <2>8 DEF OneEach
  <2> QED
    BY <2>5, <2>6, <2>7, <2>9 DEF DemoInv
<1>6. ASSUME send_returns(thread), UNCHANGED mainVars PROVE DemoInv'
  BY <1>5, <1>6 DEF send_returns, mainVars
<1>7. ASSUME call_throws PROVE DemoInv'
  <2>1. publishing[thread] # Idle /\ Return(thread, "threw") /\ pc' = "terminated"
    BY <1>7 DEF call_throws, send_throws, PublishFails
  <2>2. current[thread] # 0
    BY <2>1, Demonstrated DEF RouterInv, RTypeOK
  <2> QED
    BY <1>5, <2>1, <2>2
<1> QED
  BY <1>3, <1>4, <1>6, <1>7 DEF call_goes_on

LEMMA DemoInvBlockEnds ==
  ASSUME DemoInv, RouterInv, NEW n \in DOMAIN Blocks, block_ends(n)
  PROVE  DemoInv'
<1>1. /\ pc = Blocks[n] /\ i = batch_total /\ current[thread] = 0 /\ i' = 0
      /\ calls' = calls /\ sent' = sent /\ ended' = ended /\ current' = current
      /\ pc' = IF n = Len(Blocks) THEN "finished" ELSE Blocks[n + 1]
      /\ replaced' = replaced /\ failures' = failures /\ returned' = returned /\ phase' = phase
  BY DEF block_ends, vars, routerVars, factoryVars
<1>2. PICK B \in Nat \ {0} : B = batch_total
  BY Demonstrated
<1>3. Len(calls) = (n - 1) * B + B
  BY <1>1, <1>2 DEF DemoInv, Counted
<1>4. Prepared'
  BY <1>1, ThreeBlocks DEF DemoInv, Prepared
<1>5. Counted'
  <2>1. CASE n = 1
    <3>1. pc' = Blocks[2] /\ Len(calls) = 1 * B + 0
      BY <1>1, <1>2, <1>3, <2>1, ThreeBlocks
    <3> QED
      BY <1>1, <1>2, <3>1, ThreeBlocks DEF Counted, Places
  <2>2. CASE n = 2
    <3>1. pc' = Blocks[3] /\ Len(calls) = 2 * B + 0
      BY <1>1, <1>2, <1>3, <2>2, ThreeBlocks
    <3> QED
      BY <1>1, <1>2, <3>1, ThreeBlocks DEF Counted, Places
  <2>3. CASE n = 3
    <3>1. pc' = "finished" /\ Len(calls) = 3 * B
      BY <1>1, <1>2, <1>3, <2>3, ThreeBlocks
    <3> QED
      BY <1>1, <1>2, <3>1, ThreeBlocks DEF Counted, Places
  <2> QED
    BY <2>1, <2>2, <2>3, ThreeBlocks
<1>6. pc # "terminated"
  BY <1>1, ThreeBlocks
<1>7. InTurn' /\ OneEach'
  BY <1>1, <1>6 DEF DemoInv, InTurn, OneEach
<1> QED
  BY <1>4, <1>5, <1>7 DEF DemoInv

LEMMA DemoInvNext ==
  DemoInv /\ RouterInv /\ Proved!UnusableHasCause /\ [DemoNext]_demoVars => DemoInv'
<1> SUFFICES ASSUME DemoInv, RouterInv, Proved!UnusableHasCause, [DemoNext]_demoVars
             PROVE  DemoInv'
  OBVIOUS
<1> USE DEF routerVars, factoryVars
<1>1. CASE constructs \/ rejects_arguments
  BY <1>1, DemoInvBefore DEF constructs, rejects_arguments, vars
<1>2. CASE init_reads
  BY <1>2, DemoInvBefore DEF init_reads, vars, mainVars, Factory!init_begins
<1>3. CASE init_cannot_read
  BY <1>3, DemoInvBefore DEF init_cannot_read, vars, Factory!init_throws_reading
<1>4. CASE init_returns
  BY <1>4, ThreeBlocks, DemoInvBefore DEF init_returns, vars, Factory!init_returns
<1>5. ASSUME NEW k \in Kinds, init_evaluates(k) PROVE DemoInv'
  BY <1>5, DemoInvBefore DEF init_evaluates, vars, mainVars, Factory!init_evaluates, Factory!Returns
<1>6. ASSUME NEW k \in Kinds, init_throws(k) PROVE DemoInv'
  BY <1>6, DemoInvBefore DEF init_throws, vars, Factory!init_throws, Factory!Throws
<1>7. ASSUME NEW kind \in DOMAIN Demo, sends(kind) PROVE DemoInv'
  BY <1>7, DemoInvSends
<1>8. CASE call_goes_on \/ call_throws
  BY <1>8, DemoInvCall
<1>9. ASSUME NEW n \in DOMAIN Blocks, block_ends(n) PROVE DemoInv'
  BY <1>9, DemoInvBlockEnds
<1>10. CASE ReadsStep \/ BreaksStep \/ UNCHANGED demoVars
  BY <1>10, DemoInvQuiet DEF ReadsStep, BreaksStep, demoVars, vars
<1> QED
  BY <1>1, <1>2, <1>3, <1>4, <1>5, <1>6, <1>7, <1>8, <1>9, <1>10 DEF DemoNext, MainStep

LEMMA DemoInvariant ==
  DemoSpec => [](DemoInv /\ RouterInv /\ Proved!FTypeOK /\ Proved!UnusableHasCause)
<1>1. DemoInit => DemoInv
  BY DemoInvInit
<1>2. DemoInv /\ RouterInv /\ Proved!UnusableHasCause /\ [DemoNext]_demoVars => DemoInv'
  BY DemoInvNext
<1> QED
  BY <1>1, <1>2, PartsHold, PTL DEF DemoSpec

------------------------------------------------------------------------------
(* What the program promises. *)

\* The program, its routers and its factory never leave their types.
THEOREM DemoTypeCorrect == DemoSpec => []DTypeOK
<1>1. DemoInv /\ RouterInv /\ Proved!FTypeOK => DTypeOK
  BY SameFactory DEF DTypeOK, DemoInv, Counted, RouterInv
<1> QED
  BY <1>1, DemoInvariant, PTL

\* init() that returned without an exception is enough for the blocks: whatever
\* the program is started with, it never calls a router that is not initialized.
THEOREM SendsThroughUsableHolds == DemoSpec => []SendsThroughUsable
<1>1. DemoInv /\ RouterInv /\ Proved!UnusableHasCause => SendsThroughUsable
  <2> SUFFICES ASSUME DemoInv, RouterInv, Proved!UnusableHasCause, calls # <<>>,
                      NEW kind \in DOMAIN Demo
               PROVE  Factory!Usable(kind)
    BY DEF SendsThroughUsable
  <2>1. Len(calls) # 0
    BY EmptySeq DEF RouterInv, Recorded, IsSeq
  <2>2. returned /\ ~replaced /\ failures = {} /\ phase = "idle"
    BY <2>1 DEF DemoInv, Prepared
  <2>3. kind \in Kinds
    BY Demonstrated
  <2>4. Proved!Usable(kind)
    BY <2>2, <2>3 DEF Proved!UnusableHasCause
  <2> QED
    BY <2>4, SameFactory
<1> QED
  BY <1>1, DemoInvariant, PTL

\* Whatever the batches and mq.json: what is published is one publication of each
\* batch, in the order of the blocks, and all of them when main() returns.
THEOREM PublishesItsBatchesHolds == DemoSpec => []PublishesItsBatches
<1>1. ASSUME DemoInv, RouterInv PROVE PublishesItsBatches
  <2>1. /\ Len(published) \in Nat /\ DOMAIN published = 1 .. Len(published)
        /\ Len(calls) \in Nat /\ DOMAIN calls = 1 .. Len(calls)
        /\ \A k \in DOMAIN calls : sent[k] \in [DOMAIN calls[k].targets -> 0 .. Len(published)]
    BY <1>1, RecordedFacts
  <2>2. ASSUME NEW n \in DOMAIN published
        PROVE  /\ n \in DOMAIN calls
               /\ published[n].payload = value_to_bytes(RouterOf(n), Demo[RouterOf(n)])
    <3>1. PICK k \in DOMAIN calls : \E a \in DOMAIN calls[k].targets : sent[k][a] = n
      BY <1>1, <2>1, <2>2 DEF RouterInv, Owned
    <3>2. PICK a \in DOMAIN calls[k].targets : sent[k][a] = n
      BY <3>1
    <3>3. n # 0 /\ k = n
      BY <1>1, <2>1, <2>2, <3>2 DEF DemoInv, OneEach
    <3>4. published[n] = PublicationOf(calls[k].kind, a, calls[k].targets[a])
      BY <1>1, <3>2, <3>3 DEF RouterInv, Owned
    <3>5. calls[k].kind = RouterOf(n) /\ calls[k].targets[a] = Demo[RouterOf(n)]
      BY <1>1, <3>3 DEF DemoInv, InTurn
    <3> QED
      BY <3>3, <3>4, <3>5 DEF PublicationOf
  <2>3. ASSUME pc = "finished"
        PROVE  /\ Len(published) = Len(Blocks) * batch_total
               /\ \A n \in DOMAIN published : outcome[n] = "ok"
    <3>1. Len(calls) = Len(Blocks) * batch_total /\ current[thread] = 0
      BY <1>1, <2>3 DEF DemoInv, Counted
    <3>2. ASSUME NEW k \in DOMAIN calls PROVE k \in 1 .. Len(published) /\ outcome[k] = "ok"
      <4>1. ended[k] # "running"
        BY <1>1, <2>1, <3>1, <3>2, LastCall
      <4>2. ended[k] # "threw"
        BY <1>1, <2>3, <3>2 DEF DemoInv, OneEach
      <4>3. ended[k] = "ok" /\ Outcome(k)
        BY <1>1, <3>2, <4>1, <4>2 DEF RouterInv, RTypeOK, CallType, Outcomes
      <4>4. PICK a \in DOMAIN calls[k].targets : sent[k][a] # 0 /\ outcome[sent[k][a]] = "ok"
        BY <4>3 DEF Outcome
      <4>5. sent[k][a] = k
        BY <1>1, <4>4 DEF DemoInv, OneEach
      <4> QED
        BY <2>1, <3>2, <4>4, <4>5
    <3>3. \A n \in 1 .. Len(calls) : n <= Len(published)
      BY <2>1, <3>2
    <3>4. \A n \in 1 .. Len(published) : n <= Len(calls)
      BY <2>1, <2>2
    <3>5. Len(calls) <= Len(published)
      <4>1. Len(calls) = 0 \/ Len(calls) \in 1 .. Len(calls)
        BY <2>1
      <4> QED
        BY <2>1, <3>3, <4>1
    <3>6. Len(published) <= Len(calls)
      <4>1. Len(published) = 0 \/ Len(published) \in 1 .. Len(published)
        BY <2>1
      <4> QED
        BY <2>1, <3>4, <4>1
    <3>7. Len(published) = Len(calls)
      <4>1. Len(published) \in Nat /\ Len(calls) \in Nat
        BY <2>1
      <4>2. \A m, n \in Nat : m <= n /\ n <= m => m = n
        OBVIOUS
      <4> QED
        BY <3>5, <3>6, <4>1, <4>2
    <3> QED
      BY <2>1, <3>1, <3>2, <3>7
  <2> QED
    BY <2>2, <2>3 DEF PublishesItsBatches
<1> QED
  BY <1>1, DemoInvariant, PTL

\* cfg/mq.json has one queue for each router of main().
OneQueueEach ==
  \A kind \in DOMAIN Demo : Cardinality(find_queues_by_attr(required_send_attributes(kind))) = 1

LEMMA CauseKept ==
  ASSUME OneQueueEach, DemoInv, RouterInv, TerminatedHasCause, [DemoNext]_demoVars
  PROVE  TerminatedHasCause'
<1> USE DEF surroundings
<1>1. ASSUME pc' = "terminated", pc # "terminated" PROVE TerminatedHasCause'
  <2>1. ASSUME NEW kind \in DOMAIN Demo, sends(kind) PROVE FALSE
    <3>1. current'[thread] = Len(calls) + 1 /\ Len(calls) \in Nat
      BY <2>1, SendsEffect DEF sends, OneQueueEach
    <3>2. current'[thread] # 0
      BY <3>1
    <3> QED
      BY <1>1, <2>1, <3>2 DEF sends
  <2>2. CASE rejects_arguments
    BY <2>2 DEF rejects_arguments, TerminatedHasCause
  <2>3. CASE init_cannot_read
    <3>1. PICK file \in {"rmq_cfg", "message_router_cfg"} : ~Loads(file)
      BY <2>3 DEF init_cannot_read
    <3>2. Loads(file)' <=> Loads(file)
      BY <2>3 DEF init_cannot_read, Loads
    <3> QED
      BY <3>1, <3>2 DEF TerminatedHasCause
  <2>4. ASSUME NEW k \in Kinds, init_throws(k) PROVE TerminatedHasCause'
    BY <2>4 DEF init_throws, Factory!init_throws, Factory!Throws, TerminatedHasCause
  <2>5. CASE call_throws
    BY <2>5 DEF call_throws, send_throws, PublishFails, TerminatedHasCause
  <2>6. CASE UNCHANGED pc
    BY <1>1, <2>6
  <2>7. ASSUME NEW n \in DOMAIN Blocks, block_ends(n) PROVE FALSE
    <3>1. pc' \in {"finished", "raw", "event", "group"}
      BY <2>7, ThreeBlocks DEF block_ends
    <3> QED
      BY <1>1, <3>1
  <2>8. CASE constructs \/ init_returns
    BY <1>1, <2>8, ThreeBlocks DEF constructs, init_returns
  <2>9. CASE init_reads \/ call_goes_on \/ ReadsStep \/ BreaksStep \/ UNCHANGED demoVars
    BY <2>6, <2>9 DEF init_reads, call_goes_on, ReadsStep, BreaksStep, demoVars, mainVars
  <2>10. ASSUME NEW k \in Kinds, init_evaluates(k) PROVE UNCHANGED pc
    BY <2>10 DEF init_evaluates, mainVars
  <2> QED
    BY <2>1, <2>2, <2>3, <2>4, <2>5, <2>6, <2>7, <2>8, <2>9, <2>10 DEF DemoNext, MainStep
<1>2. ASSUME pc = "terminated" PROVE TerminatedHasCause'
  <2>1. ~MainStep
    <3>1. current[thread] = 0
      BY <1>2 DEF DemoInv, Counted
    <3>2. publishing[thread] = Idle
      BY <3>1, Demonstrated DEF RouterInv, RTypeOK
    <3>3. ~call_goes_on /\ ~call_throws
      BY <3>1, <3>2 DEF call_goes_on, call_throws, publish_next, write_frame, WriteFrame,
                        send_returns, send_throws, PublishFails
    <3>4. /\ ~constructs /\ ~rejects_arguments /\ ~init_reads /\ ~init_cannot_read /\ ~init_returns
          /\ \A k \in Kinds : ~init_evaluates(k) /\ ~init_throws(k)
      BY <1>2 DEF constructs, rejects_arguments, init_reads, init_cannot_read, init_returns,
                  init_evaluates, init_throws
    <3>5. \A kind \in DOMAIN Demo : ~sends(kind)
      BY <1>2, Demonstrated DEF sends, Kinds
    <3>6. \A n \in DOMAIN Blocks : ~block_ends(n)
      BY <1>2, ThreeBlocks DEF block_ends
    <3> QED
      BY <3>3, <3>4, <3>5, <3>6 DEF MainStep
  <2>2. /\ arguments' = arguments /\ files' = files /\ RABBITMQ_PASS' = RABBITMQ_PASS
        /\ paths' = paths /\ failures' = failures
    BY <2>1 DEF DemoNext, ReadsStep, BreaksStep, demoVars, mainVars, factoryVars
  <2>3. link = "error" => link' = "error"
    BY <2>1 DEF DemoNext, ReadsStep, BreaksStep, BrokerStep, BrokerReads, BrokerCompletes, BrokerRejects,
                BrokerIgnores, LinkBreaks, demoVars, vars, cmVars
  <2>4. Loads("rmq_cfg")' <=> Loads("rmq_cfg")
    BY <2>2 DEF Loads
  <2>5. Loads("message_router_cfg")' <=> Loads("message_router_cfg")
    BY <2>2 DEF Loads
  <2> QED
    BY <1>2, <2>2, <2>3, <2>4, <2>5 DEF TerminatedHasCause
<1>3. CASE pc' # "terminated"
  BY <1>3 DEF TerminatedHasCause
<1> QED
  BY <1>1, <1>2, <1>3

\* With an mq.json that has one queue for each router, whatever its other queues:
\* no exception ends the program but those of its arguments, its files, the
\* broker's refusal and a connection that broke.
THEOREM TerminatedHasCauseHolds ==
  ASSUME OneQueueEach
  PROVE  DemoSpec => []TerminatedHasCause
<1>1. DemoInit => TerminatedHasCause
  BY DEF DemoInit, TerminatedHasCause
<1>2. TerminatedHasCause /\ DemoInv /\ RouterInv /\ [DemoNext]_demoVars => TerminatedHasCause'
  BY CauseKept
<1> QED
  BY <1>1, <1>2, DemoInvariant, PTL DEF DemoSpec

\* From main() to the broker: the one thread of the program makes the connection
\* the ordered, gapless delivery that OrderedDelivery.tla promises.
THEOREM DemoDeliversInOrder == DemoSpec => OrderedDelivery
<1>1. \A c, d \in Callers : c = d
  BY Demonstrated
<1>2. CMSpec => OrderedDelivery
  BY <1>1, ImplementsOrderedDelivery DEF OneCaller
<1> QED
  BY <1>2, UsesRouters, UsesConnection, PTL

LEMMA NeverOverlaps == DemoSpec => []~overlapped
<1>1. CMInit => ~overlapped
  BY DEF CMInit
<1>2. ~overlapped /\ [CMNext]_cmVars => ~overlapped'
  <2>1. OneCaller
    BY Demonstrated DEF OneCaller
  <2> QED
    BY <2>1, OneCallerNeverOverlaps
<1>3. CMSpec => []~overlapped
  BY <1>1, <1>2, PTL DEF CMSpec
<1> QED
  BY <1>3, UsesRouters, UsesConnection, PTL

\* What FinishedDelivers leads to, as far as it can be said of a state.
FinishedMeansDelivered ==
  (pc = "finished" /\ link = "up" /\ channel = "open" /\ wire = <<>>) =>
    \A n \in 1 .. Len(Blocks) * batch_total :
      /\ published[n].payload = value_to_bytes(RouterOf(n), Demo[RouterOf(n)])
      /\ Cardinality(Accepted(n)) = 1

\* When the program has finished and the broker has read all of a connection that is
\* alive, it has each batch of each block exactly once.
THEOREM FinishedMeansDeliveredHolds == DemoSpec => []FinishedMeansDelivered
<1>1. ASSUME DemoInv, RouterInv, PublishesItsBatches, OkMeansDelivered, ~overlapped
      PROVE  FinishedMeansDelivered
  <2> SUFFICES ASSUME pc = "finished", link = "up", channel = "open", wire = <<>>,
                      NEW n \in 1 .. Len(Blocks) * batch_total
               PROVE  /\ published[n].payload = value_to_bytes(RouterOf(n), Demo[RouterOf(n)])
                      /\ Cardinality(Accepted(n)) = 1
    BY DEF FinishedMeansDelivered
  <2>1. Len(calls) = Len(Blocks) * batch_total /\ current[thread] = 0
    BY <1>1 DEF DemoInv, Counted
  <2>2. n \in DOMAIN calls
    BY <1>1, <2>1, LastCall
  <2>3. ended[n] = "ok"
    <3>1. ended[n] # "running"
      BY <1>1, <2>1, <2>2, LastCall
    <3>2. ended[n] # "threw"
      BY <1>1, <2>2 DEF DemoInv, OneEach
    <3> QED
      BY <1>1, <2>2, <3>1, <3>2 DEF RouterInv, RTypeOK, CallType
  <2>4. PICK a \in DOMAIN calls[n].targets :
          sent[n][a] \in DOMAIN published /\ Cardinality(Accepted(sent[n][a])) = 1
    BY <1>1, <2>2, <2>3 DEF OkMeansDelivered
  <2>5. sent[n][a] = n
    <3>1. sent[n][a] # 0
      BY <1>1, <2>4, RecordedFacts
    <3> QED
      BY <1>1, <2>2, <2>4, <3>1 DEF DemoInv, OneEach
  <2> QED
    BY <1>1, <2>4, <2>5 DEF PublishesItsBatches
<1> QED
  BY <1>1, DemoInvariant, NeverOverlaps, PublishesItsBatchesHolds, OkMeansDeliveredHolds, UsesRouters, PTL
==============================================================================
