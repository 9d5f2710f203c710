------------------------- MODULE CommonFactory_proofs ------------------------
(***************************************************************************)
(* Proofs about CommonFactory, for any set of kinds of router and any bound*)
(* on the attempts to connect.                                             *)
(***************************************************************************)
EXTENDS CommonFactory, FiniteSetTheorems, SequenceTheorems, TLAPS

\* The only connection that was ever established is the one that is kept.
KeptConnection ==
  /\ rmq_connection_manager # 0 =>
        rmq_cfg /\ attempts[rmq_connection_manager] = "ready"
  /\ \A i \in DOMAIN attempts : attempts[i] = "ready" => i = rmq_connection_manager
  /\ \A k \in DOMAIN router :
        router[k].owner = "factory" /\ router[k].conn # 0 => router[k].conn = rmq_connection_manager

\* Where the control is, and what must be there then.
Control ==
  /\ phase = "crashed" => left = {} /\ ~rmq_cfg /\ ~returned
  /\ left # {} => phase = "evaluating"
  /\ phase = "evaluating" => rmq_cfg /\ message_router_cfg /\ Kinds \ left \subseteq DOMAIN router
  /\ returned => rmq_cfg /\ message_router_cfg
  /\ returned /\ ~replaced => Kinds \subseteq DOMAIN router

\* Nothing has thrown: then the configurations are read together, and no router
\* has been left half made.
Unharmed ==
  failures = {} =>
    /\ rmq_cfg => message_router_cfg
    /\ phase # "crashed" => \A k \in DOMAIN router : Usable(k)

\* A router has been made for every attempt to connect.
Attempts == ~replaced => Len(attempts) <= Cardinality(DOMAIN router)

FInv == FTypeOK /\ KeptConnection /\ Control /\ Unharmed /\ Attempts

------------------------------------------------------------------------------

LEMMA FInvInit == Init => FInv
<1> SUFFICES ASSUME Init PROVE FInv
  OBVIOUS
<1>1. DOMAIN router = {} /\ attempts = <<>> /\ Len(attempts) = 0 /\ Cardinality(DOMAIN router) = 0
  BY EmptySeq, FS_EmptySet DEF Init
<1>2. FTypeOK
  <2>1. attempts \in Seq({"ready", "failed"})
    BY <1>1, EmptySeq
  <2>2. rmq_connection_manager \in 0 .. Len(attempts)
    BY <1>1 DEF Init
  <2> QED
    BY <1>1, <2>1, <2>2 DEF Init, FTypeOK
<1>3. KeptConnection
  BY <1>1 DEF Init, KeptConnection
<1> QED
  BY <1>1, <1>2, <1>3 DEF Init, FInv, Control, Unharmed, Attempts

\* A router that was not there is put into its field.
LEMMA WithRouterProperties ==
  ASSUME FTypeOK, NEW k \in Kinds, k \notin DOMAIN router, NEW r \in Router
  PROVE  /\ DOMAIN WithRouter(k, r) = DOMAIN router \cup {k}
         /\ WithRouter(k, r)[k] = r
         /\ \A j \in DOMAIN router : WithRouter(k, r)[j] = router[j]
         /\ Cardinality(DOMAIN WithRouter(k, r)) = Cardinality(DOMAIN router) + 1
         /\ Cardinality(DOMAIN router) \in Nat
<1>1. IsFiniteSet(DOMAIN router)
  BY FactoryAssumption, FS_Subset DEF FactoryAssumption, FTypeOK
<1>2. DOMAIN WithRouter(k, r) = DOMAIN router \cup {k}
  BY DEF WithRouter
<1> QED
  BY <1>1, <1>2, FS_AddElement, FS_CardinalityType DEF WithRouter

\* A getter that returns keeps the invariant, and has made its router.
LEMMA FInvReturns ==
  ASSUME FInv, NEW k \in Kinds, Returns(k), UNCHANGED phase, phase # "crashed",
         left' \subseteq Kinds, returned' \in BOOLEAN
  PROVE  /\ FTypeOK' /\ KeptConnection' /\ Unharmed' /\ Attempts'
         /\ DOMAIN router' = DOMAIN router \cup {k}
         /\ \A j \in DOMAIN router : router'[j] = router[j]
<1> USE DEF FInv, configurations, connection
<1>1. CASE k \in DOMAIN router
  <2>1. UNCHANGED <<router, configurations, connection, failures, replaced>>
    BY <1>1 DEF Returns
  <2> QED
    BY <1>1, <2>1 DEF FTypeOK, KeptConnection, Unharmed, Attempts, Usable
<1>2. CASE k \notin DOMAIN router
  <2> DEFINE r == Initialized(rmq_connection_manager')
  <2>1. /\ get_rmq_connection_manager
        /\ router' = WithRouter(k, r)
        /\ UNCHANGED <<configurations, failures, replaced>>
    BY <1>2 DEF Returns
  <2>2. /\ attempts' \in Seq({"ready", "failed"})
        /\ rmq_connection_manager' \in 1 .. Len(attempts')
        /\ attempts'[rmq_connection_manager'] = "ready"
        /\ rmq_cfg
        /\ \A i \in DOMAIN attempts' : attempts'[i] = "ready" => i = rmq_connection_manager'
        /\ Len(attempts') \in Nat
        /\ Len(attempts') <= Len(attempts) + 1
        /\ rmq_connection_manager # 0 => rmq_connection_manager' = rmq_connection_manager
    <3>0. Len(attempts) \in Nat /\ DOMAIN attempts = 1 .. Len(attempts)
      BY LenProperties DEF FTypeOK
    <3>1. CASE rmq_connection_manager # 0
      BY <2>1, <3>0, <3>1 DEF get_rmq_connection_manager, FTypeOK, KeptConnection
    <3>2. CASE rmq_connection_manager = 0
      <4>1. /\ attempts' = Append(attempts, "ready") /\ rmq_cfg
            /\ rmq_connection_manager' = Len(attempts) + 1
        BY <2>1, <3>2 DEF get_rmq_connection_manager
      <4>2. "ready" \in {"ready", "failed"}
        OBVIOUS
      <4>3. /\ attempts' \in Seq({"ready", "failed"}) /\ Len(attempts') = Len(attempts) + 1
            /\ attempts'[Len(attempts) + 1] = "ready"
            /\ \A i \in 1 .. Len(attempts) : attempts'[i] = attempts[i]
        BY <4>1, <4>2, AppendProperties DEF FTypeOK
      <4>4. DOMAIN attempts' = 1 .. Len(attempts) + 1
        BY <4>3, LenProperties
      <4> QED
        BY <3>0, <3>2, <4>1, <4>3, <4>4 DEF KeptConnection
    <3> QED
      BY <3>1, <3>2
  <2>3. r \in Router /\ r = [owner |-> "factory", conn |-> rmq_connection_manager', cfg |-> message_router_cfg]
    BY <2>2 DEF Initialized, Router, FTypeOK
  <2>4. /\ DOMAIN router' = DOMAIN router \cup {k}
        /\ router'[k] = r
        /\ \A j \in DOMAIN router : router'[j] = router[j]
        /\ Cardinality(DOMAIN router') = Cardinality(DOMAIN router) + 1
        /\ Cardinality(DOMAIN router) \in Nat
    BY <1>2, <2>1, <2>3, WithRouterProperties
  <2>5. FTypeOK'
    BY <2>1, <2>2, <2>3, <2>4 DEF FTypeOK
  <2>6. KeptConnection'
    BY <2>1, <2>2, <2>3, <2>4 DEF KeptConnection, FTypeOK
  <2>7. Unharmed'
    BY <2>1, <2>2, <2>3, <2>4 DEF Unharmed, Usable
  <2>8. Attempts'
    <3>1. Len(attempts) \in Nat
      BY LenProperties DEF FTypeOK
    <3> QED
      BY <2>1, <2>2, <2>4, <3>1 DEF Attempts
  <2> QED
    BY <2>4, <2>5, <2>6, <2>7, <2>8
<1> QED
  BY <1>1, <1>2

\* So does a getter that throws, but it has left a failure on record.
LEMMA FInvThrows ==
  ASSUME FInv, NEW k \in Kinds, Throws(k),
         phase' \in {"idle", "evaluating", "crashed"}, left' \subseteq Kinds, returned' \in BOOLEAN
  PROVE  /\ FTypeOK' /\ KeptConnection' /\ Unharmed' /\ Attempts'
         /\ DOMAIN router' = DOMAIN router \cup {k}
<1> USE DEF FInv, configurations
<1>1. /\ k \notin DOMAIN router
      /\ rmq_connection_manager = 0 /\ rmq_connection_manager' = 0
      /\ attempts' = Append(attempts, "failed")
      /\ router' = WithRouter(k, Blank)
      /\ failures' = failures \cup {"connection"}
      /\ UNCHANGED <<configurations, replaced>>
  BY DEF Throws, connection_throws
<1>2. Len(attempts) \in Nat /\ DOMAIN attempts = 1 .. Len(attempts)
  BY LenProperties DEF FTypeOK
<1>3. "failed" \in {"ready", "failed"}
  OBVIOUS
<1>4. /\ attempts' \in Seq({"ready", "failed"}) /\ Len(attempts') = Len(attempts) + 1
      /\ attempts'[Len(attempts) + 1] = "failed"
      /\ \A i \in 1 .. Len(attempts) : attempts'[i] = attempts[i]
  BY <1>1, <1>3, AppendProperties DEF FTypeOK
<1>5. DOMAIN attempts' = 1 .. Len(attempts) + 1
  BY <1>4, LenProperties
<1>6. Blank \in Router /\ Blank.conn = 0
  BY DEF Blank, Router
<1>7. /\ DOMAIN router' = DOMAIN router \cup {k}
      /\ router'[k] = Blank
      /\ \A j \in DOMAIN router : router'[j] = router[j]
      /\ Cardinality(DOMAIN router') = Cardinality(DOMAIN router) + 1
      /\ Cardinality(DOMAIN router) \in Nat
  BY <1>1, <1>6, WithRouterProperties
<1>8. FTypeOK'
  BY <1>1, <1>2, <1>4, <1>6, <1>7 DEF FTypeOK
<1>9. KeptConnection'
  BY <1>1, <1>2, <1>4, <1>5, <1>6, <1>7 DEF KeptConnection
<1>10. Unharmed'
  BY <1>1 DEF Unharmed
<1>11. Attempts'
  BY <1>1, <1>2, <1>4, <1>7 DEF Attempts
<1> QED
  BY <1>7, <1>8, <1>9, <1>10, <1>11

LEMMA FInvNext == FInv /\ [Next]_vars => FInv'
<1> SUFFICES ASSUME FInv, [Next]_vars PROVE FInv'
  OBVIOUS
<1> USE DEF configurations, connection, control
<1>1. ASSUME NEW k \in Kinds, get_router(k) PROVE FInv'
  <2>1. CASE Returns(k)
    <3>1. FTypeOK' /\ KeptConnection' /\ Unharmed' /\ Attempts' /\ DOMAIN router' = DOMAIN router \cup {k}
      BY <1>1, <2>1, FInvReturns DEF get_router, FInv, FTypeOK
    <3> QED
      BY <1>1, <2>1, <3>1 DEF get_router, Returns, FInv, Control
  <2>2. CASE Throws(k)
    <3>1. FTypeOK' /\ KeptConnection' /\ Unharmed' /\ Attempts' /\ DOMAIN router' = DOMAIN router \cup {k}
      BY <1>1, <2>2, FInvThrows DEF get_router, FInv, FTypeOK
    <3> QED
      BY <1>1, <2>2, <3>1 DEF get_router, Throws, FInv, Control
  <2> QED
    BY <1>1, <2>1, <2>2 DEF get_router
<1>2. ASSUME NEW k \in Kinds, init_evaluates(k) PROVE FInv'
  <2>1. FTypeOK' /\ KeptConnection' /\ Unharmed' /\ Attempts' /\ DOMAIN router' = DOMAIN router \cup {k}
    BY <1>2, FInvReturns DEF init_evaluates, FInv, FTypeOK
  <2> QED
    BY <1>2, <2>1 DEF init_evaluates, Returns, FInv, Control
<1>3. ASSUME NEW k \in Kinds, init_throws(k) PROVE FInv'
  <2>1. FTypeOK' /\ KeptConnection' /\ Unharmed' /\ Attempts' /\ DOMAIN router' = DOMAIN router \cup {k}
    BY <1>3, FInvThrows DEF init_throws, FInv, FTypeOK
  <2> QED
    BY <1>3, <2>1 DEF init_throws, Throws, FInv, Control
<1>4. ASSUME NEW k \in Kinds, get_router_crashes(k) PROVE FInv'
  <2>1. Blank \in Router /\ Blank.conn = 0
    BY DEF Blank, Router
  <2>2. /\ DOMAIN router' = DOMAIN router \cup {k}
        /\ router'[k] = Blank
        /\ \A j \in DOMAIN router : router'[j] = router[j]
        /\ Cardinality(DOMAIN router') = Cardinality(DOMAIN router) + 1
        /\ Cardinality(DOMAIN router) \in Nat
    BY <1>4, <2>1, WithRouterProperties DEF get_router_crashes, FInv
  <2>3. FTypeOK'
    BY <1>4, <2>1, <2>2 DEF get_router_crashes, FInv, FTypeOK
  <2>4. KeptConnection'
    BY <1>4, <2>1, <2>2 DEF get_router_crashes, FInv, KeptConnection
  <2>5. Control' /\ Unharmed'
    BY <1>4, <2>2 DEF get_router_crashes, FInv, Control, Unharmed, FTypeOK
  <2>6. Attempts'
    <3>1. Len(attempts) \in Nat
      BY LenProperties DEF FInv, FTypeOK
    <3> QED
      BY <1>4, <2>2, <3>1 DEF get_router_crashes, FInv, Attempts
  <2> QED
    BY <2>3, <2>4, <2>5, <2>6 DEF FInv
<1>5. ASSUME NEW file \in {"rmq_cfg", "message_router_cfg"}, init_throws_reading(file)
      PROVE  FInv'
  <2>1. load_throws(file) /\ failures' = failures \cup {file}
    BY <1>5 DEF init_throws_reading
  <2>2. /\ rmq_cfg' \in BOOLEAN /\ (rmq_cfg => rmq_cfg') /\ message_router_cfg' = message_router_cfg
        /\ ~message_router_cfg \/ ~rmq_cfg
    BY <2>1 DEF load_throws, FInv, FTypeOK
  <2>3. UNCHANGED <<connection, router, control, replaced>> /\ phase = "idle"
    BY <1>5 DEF init_throws_reading
  <2>4. FTypeOK'
    BY <2>1, <2>2, <2>3 DEF FInv, FTypeOK
  <2>5. KeptConnection' /\ Control' /\ Unharmed' /\ Attempts'
    BY <2>1, <2>2, <2>3 DEF FInv, KeptConnection, Control, Unharmed, Attempts
  <2> QED
    BY <2>4, <2>5 DEF FInv
<1>6. CASE init_begins
  <2>1. FTypeOK' /\ KeptConnection' /\ Attempts'
    BY <1>6 DEF init_begins, load_configurations, FInv, FTypeOK, KeptConnection, Attempts
  <2>2. Control' /\ Unharmed'
    BY <1>6 DEF init_begins, load_configurations, FInv, Control, Unharmed, Usable
  <2> QED
    BY <2>1, <2>2 DEF FInv
<1>7. CASE init_returns
  <2>1. FTypeOK' /\ KeptConnection' /\ Attempts'
    BY <1>7 DEF init_returns, FInv, FTypeOK, KeptConnection, Attempts
  <2>2. Control' /\ Unharmed'
    BY <1>7 DEF init_returns, FInv, Control, Unharmed, Usable
  <2> QED
    BY <2>1, <2>2 DEF FInv
<1>8. ASSUME NEW given \in Given, init_with(given) PROVE FInv'
  <2>1. DOMAIN given \subseteq Kinds /\ \A k \in DOMAIN given : given[k] = Foreign
    BY FactoryAssumption DEF FactoryAssumption
  <2>2. Foreign \in Router /\ Foreign.owner = "caller"
    BY DEF Foreign, Router
  <2>3. FTypeOK' /\ KeptConnection' /\ Attempts'
    BY <1>8, <2>1, <2>2 DEF init_with, load_configurations, FInv, FTypeOK, KeptConnection, Attempts
  <2>4. Control' /\ Unharmed'
    BY <1>8, <2>1, <2>2 DEF init_with, load_configurations, FInv, Control, Unharmed, Usable
  <2> QED
    BY <2>3, <2>4 DEF FInv
<1>9. CASE UNCHANGED vars
  BY <1>9 DEF vars, FInv, FTypeOK, KeptConnection, Control, Unharmed, Attempts, Usable
<1> QED
  BY <1>1, <1>2, <1>3, <1>4, <1>5, <1>6, <1>7, <1>8, <1>9 DEF Next

------------------------------------------------------------------------------
(* The theorems. *)

LEMMA FactoryInvariant == Spec => []FInv
BY FInvInit, FInvNext, PTL DEF Spec

\* The factory's fields always have their types.
THEOREM FactoryTypeCorrect == Spec => []FTypeOK
BY FactoryInvariant, PTL DEF FInv

\* No two connections are ever established, and the routers share the one.
THEOREM OneConnectionHolds == Spec => []OneConnection
<1>1. FInv => OneConnection
  BY DEF FInv, KeptConnection, FTypeOK, OneConnection
<1> QED
  BY <1>1, FactoryInvariant, PTL

\* An application that has seen no exception has no router that it cannot use,
\* and all of them once init() has returned.
THEOREM UnusableHasCauseHolds == Spec => []UnusableHasCause
<1>1. FInv => UnusableHasCause
  BY DEF FInv, Unharmed, Control, UnusableHasCause
<1> QED
  BY <1>1, FactoryInvariant, PTL

\* The process dies only in a getter called before rabbitMQ.json was read.
THEOREM CrashOnlyBeforeInitHolds == Spec => []CrashOnlyBeforeInit
<1>1. FInv => CrashOnlyBeforeInit
  BY DEF FInv, Control, CrashOnlyBeforeInit
<1> QED
  BY <1>1, FactoryInvariant, PTL

\* At most one attempt to connect for each kind of router.
THEOREM AttemptsBoundedHolds == Spec => []AttemptsBounded
<1>1. FInv => AttemptsBounded
  <2> SUFFICES ASSUME FInv, ~replaced PROVE Len(attempts) <= Cardinality(Kinds)
    BY DEF AttemptsBounded
  <2>1. IsFiniteSet(Kinds) /\ DOMAIN router \in SUBSET Kinds
    BY FactoryAssumption DEF FactoryAssumption, FInv, FTypeOK
  <2>2. Cardinality(DOMAIN router) <= Cardinality(Kinds) /\ IsFiniteSet(DOMAIN router)
    BY <2>1, FS_Subset
  <2>3. Cardinality(DOMAIN router) \in Nat /\ Cardinality(Kinds) \in Nat /\ Len(attempts) \in Nat
    BY <2>1, <2>2, FS_CardinalityType, LenProperties DEF FInv, FTypeOK
  <2> QED
    BY <2>2, <2>3 DEF FInv, Attempts
<1> QED
  BY <1>1, FactoryInvariant, PTL

\* A router that can be used stays as it is until the caller replaces it.
THEOREM UsableStaysHolds == Spec => UsableStays
<1>1. ASSUME FInv, [Next]_vars, NEW k \in Kinds, Usable(k)
      PROVE  \/ k \in DOMAIN router' /\ router'[k] = router[k]
             \/ \E given \in Given : init_with(given)
  <2>1. k \in DOMAIN router
    BY <1>1 DEF Usable
  <2>2. ASSUME NEW j \in Kinds, Returns(j) \/ Throws(j)
        PROVE  k \in DOMAIN router' /\ router'[k] = router[k]
    BY <2>1, <2>2 DEF Returns, Throws, WithRouter
  <2>3. ASSUME NEW j \in Kinds, get_router_crashes(j)
        PROVE  k \in DOMAIN router' /\ router'[k] = router[k]
    BY <2>1, <2>3 DEF get_router_crashes, WithRouter
  <2> QED
    BY <1>1, <2>1, <2>2, <2>3 DEF Next, get_router, init_evaluates, init_throws,
       init_throws_reading, init_begins, init_returns, vars
<1>2. FInv /\ [Next]_vars =>
        [\A k \in Kinds : Usable(k) =>
           \/ k \in DOMAIN router' /\ router'[k] = router[k]
           \/ \E given \in Given : init_with(given)]_vars
  BY <1>1
<1> QED
  BY <1>2, FactoryInvariant, PTL DEF Spec, UsableStays

\* Nothing but init(routers) changes the factory once init() has returned.
THEOREM ReadOnlyAfterInitHolds == Spec => ReadOnlyAfterInit
<1>1. ASSUME FInv, [Next]_vars, returned, ~replaced'
      PROVE  UNCHANGED <<configurations, connection, router>>
  <2> USE DEF configurations, connection
  <2>1. ~replaced /\ rmq_cfg = TRUE /\ message_router_cfg = TRUE
    <3>1. ~replaced
      BY <1>1 DEF Next, vars, get_router, get_router_crashes, Returns, Throws, init_evaluates,
         init_throws, init_throws_reading, init_begins, init_returns, init_with
    <3> QED
      BY <1>1, <3>1 DEF FInv, FTypeOK, Control
  <2>2. \A k \in Kinds : k \in DOMAIN router
    BY <1>1, <2>1 DEF FInv, Control
  <2>3. ASSUME NEW k \in Kinds, Returns(k) \/ Throws(k)
        PROVE  UNCHANGED <<configurations, connection, router>>
    BY <2>2, <2>3 DEF Returns, Throws
  <2>4. CASE \E k \in Kinds : get_router(k) \/ get_router_crashes(k) \/ init_evaluates(k) \/ init_throws(k)
    BY <2>2, <2>3, <2>4 DEF get_router, get_router_crashes, init_evaluates, init_throws
  <2>5. CASE \E file \in {"rmq_cfg", "message_router_cfg"} : init_throws_reading(file)
    BY <2>1, <2>5 DEF init_throws_reading, load_throws
  <2>6. CASE init_begins \/ init_returns
    BY <2>1, <2>6 DEF init_begins, load_configurations, init_returns
  <2>7. CASE \E given \in Given : init_with(given)
    BY <1>1, <2>7 DEF init_with
  <2>8. CASE UNCHANGED vars
    BY <2>8 DEF vars
  <2> QED
    BY <1>1, <2>4, <2>5, <2>6, <2>7, <2>8 DEF Next
<1>2. FInv /\ [Next]_vars =>
        [returned /\ ~replaced' => UNCHANGED <<configurations, connection, router>>]_vars
  BY <1>1
<1> QED
  BY <1>2, FactoryInvariant, PTL DEF Spec, ReadOnlyAfterInit

==============================================================================
