----------------------- MODULE FactoryConnecting_proofs ----------------------
(***************************************************************************)
(* Making a connection call by call, for any set of kinds of router, any   *)
(* bound on the attempts and any port: the connection that the routers get *)
(* has its channel, and the factory of CommonFactory.tla is implemented.   *)
(***************************************************************************)
EXTENDS FactoryConnecting, SequenceTheorems, TLAPS

\* What the factory has for its routers is a function.
IsMap(f) == f = [k \in DOMAIN f |-> f[k]]

\* The fields that the steps rely on.
FCTypes ==
  /\ attempts \in Seq({"ready", "failed"})
  /\ peers \in Seq({"none", "connected", "authenticated", "channel", "refused", "lost"})
  /\ rmq_connection_manager \in 0 .. Len(attempts)
  /\ IsMap(router)
  /\ call \in {"none", "socket_open", "login", "channel_open"}
  /\ answer \in BOOLEAN
  /\ left # {} => phase = "evaluating"
  /\ phase = "evaluating" => rmq_cfg

\* Inside init() or not: a getter that asks has assigned its router, there is no
\* connection yet, and the last of the peers is the one that is being made.
Asking ==
  \/ /\ asking = {} /\ call = "none"
     /\ Len(peers) = Len(attempts)
  \/ \E k \in Kinds :
        /\ asking = {k} /\ call # "none"
        /\ Len(peers) = Len(attempts) + 1
        /\ k \in DOMAIN router /\ router[k] = Blank
        /\ rmq_connection_manager = 0 /\ rmq_cfg
        /\ Len(attempts) < MaxAttempts
        /\ phase = "idle" \/ k \in left

\* How far that one can have got.
LastPeer ==
  /\ call = "socket_open" => peers[last] = "none"
  /\ call = "login" => peers[last] \in {"connected", "authenticated", "refused", "lost"}
  /\ call = "channel_open" /\ answer => peers[last] \in {"channel", "lost"}
  /\ call = "channel_open" /\ ~answer => peers[last] # "channel"

FCInv == FCTypes /\ Asking /\ LastPeer /\ ChannelMeansReady

\* The sequences, as numbers and elements.
LEMMA Lengths ==
  ASSUME FCTypes
  PROVE  /\ Len(attempts) \in Nat /\ DOMAIN attempts = 1 .. Len(attempts)
         /\ Len(peers) \in Nat /\ DOMAIN peers = 1 .. Len(peers)
BY LenProperties DEF FCTypes

LEMMA AttemptsAppend ==
  ASSUME FCTypes, NEW how \in {"ready", "failed"}
  PROVE  /\ Append(attempts, how) \in Seq({"ready", "failed"})
         /\ Len(Append(attempts, how)) = Len(attempts) + 1
         /\ DOMAIN Append(attempts, how) = 1 .. Len(attempts) + 1
         /\ Append(attempts, how) # attempts
<1>1. attempts \in Seq({"ready", "failed"}) /\ Len(attempts) \in Nat
  BY Lengths DEF FCTypes
<1>2. Append(attempts, how) \in Seq({"ready", "failed"}) /\ Len(Append(attempts, how)) = Len(attempts) + 1
  BY <1>1, AppendProperties
<1>3. DOMAIN Append(attempts, how) = 1 .. Len(attempts) + 1
  BY <1>2, LenProperties
<1> QED
  BY <1>1, <1>2, <1>3

LEMMA FCInvInit == FCInit => FCInv
<1> SUFFICES ASSUME FCInit PROVE FCInv
  OBVIOUS
<1>1. /\ attempts = <<>> /\ peers = <<>> /\ Len(<<>>) = 0 /\ DOMAIN <<>> = 1 .. 0
      /\ \A S : <<>> \in Seq(S)
  BY EmptySeq, LenProperties DEF FCInit, Init
<1>2. DOMAIN router = {} /\ IsMap(router)
  BY DEF FCInit, Init, IsMap
<1>3. FCTypes
  <2>1. rmq_connection_manager \in 0 .. Len(attempts)
    BY <1>1 DEF FCInit, Init
  <2>2. attempts \in Seq({"ready", "failed"})
    BY <1>1
  <2>3. peers \in Seq({"none", "connected", "authenticated", "channel", "refused", "lost"})
    BY <1>1
  <2> QED
    BY <1>2, <2>1, <2>2, <2>3 DEF FCInit, Init, FCTypes
<1>4. Asking /\ LastPeer /\ ChannelMeansReady
  BY <1>1 DEF FCInit, Asking, LastPeer, ChannelMeansReady
<1> QED
  BY <1>3, <1>4 DEF FCInv

\* What the factory does without a new connection leaves the connection alone.
LEMMA OtherwiseKeeps ==
  ASSUME FCTypes, UNCHANGED attempts, Next
  PROVE  /\ rmq_connection_manager' = rmq_connection_manager
         /\ IsMap(router')
         /\ left' # {} => phase' = "evaluating"
         /\ phase' = "evaluating" => rmq_cfg'
<1> USE DEF configurations, connection, control
<1>1. /\ IsMap(router)
      /\ left # {} => phase = "evaluating"
      /\ phase = "evaluating" => rmq_cfg
  BY DEF FCTypes
<1>2. ASSUME NEW k, NEW r
      PROVE  IsMap(WithRouter(k, r))
  BY DEF WithRouter, IsMap
<1>3. ASSUME NEW k \in Kinds, Returns(k)
      PROVE  /\ rmq_connection_manager' = rmq_connection_manager /\ rmq_cfg' = rmq_cfg
             /\ IsMap(router')
  <2>1. CASE k \in DOMAIN router
    BY <1>1, <1>3, <2>1 DEF Returns
  <2>2. CASE k \notin DOMAIN router
    <3>1. /\ get_rmq_connection_manager /\ rmq_cfg' = rmq_cfg
          /\ router' = WithRouter(k, Initialized(rmq_connection_manager'))
      BY <1>3, <2>2 DEF Returns
    <3>2. attempts' # Append(attempts, "ready")
      BY AttemptsAppend
    <3> QED
      BY <1>2, <3>1, <3>2 DEF get_rmq_connection_manager
  <2> QED
    BY <2>1, <2>2
<1>4. ASSUME NEW k \in Kinds, Throws(k)
      PROVE  FALSE
  BY <1>4, AttemptsAppend DEF Throws, connection_throws
<1>5. ASSUME NEW k \in Kinds, get_router(k) \/ init_evaluates(k) \/ init_throws(k)
      PROVE  /\ rmq_connection_manager' = rmq_connection_manager
             /\ IsMap(router')
             /\ left' # {} => phase' = "evaluating"
             /\ phase' = "evaluating" => rmq_cfg'
  BY <1>1, <1>3, <1>4, <1>5 DEF get_router, init_evaluates, init_throws
<1>6. ASSUME NEW k \in Kinds, get_router_crashes(k)
      PROVE  /\ rmq_connection_manager' = rmq_connection_manager
             /\ IsMap(router')
             /\ left' # {} => phase' = "evaluating"
             /\ phase' = "evaluating" => rmq_cfg'
  <2>1. /\ rmq_connection_manager' = rmq_connection_manager /\ router' = WithRouter(k, Blank)
        /\ left' = left /\ phase' = "crashed" /\ (phase = "idle" \/ k \in left)
        /\ ~rmq_cfg
    BY <1>6 DEF get_router_crashes
  <2> QED
    BY <1>1, <1>2, <2>1
<1>7. ASSUME \/ \E file \in {"rmq_cfg", "message_router_cfg"} : init_throws_reading(file)
             \/ init_begins \/ init_returns
      PROVE  /\ rmq_connection_manager' = rmq_connection_manager
             /\ IsMap(router')
             /\ left' # {} => phase' = "evaluating"
             /\ phase' = "evaluating" => rmq_cfg'
  <2>1. /\ rmq_connection_manager' = rmq_connection_manager /\ router' = router
        /\ \/ phase' = phase /\ left' = left /\ (rmq_cfg => rmq_cfg')
           \/ phase' = "evaluating" /\ rmq_cfg'
           \/ phase' = "idle" /\ left' = {}
    BY <1>7 DEF init_throws_reading, load_throws, init_begins, load_configurations, init_returns
  <2> QED
    BY <1>1, <2>1
<1>8. ASSUME NEW given \in Given, init_with(given)
      PROVE  /\ rmq_connection_manager' = rmq_connection_manager
             /\ IsMap(router')
             /\ left' # {} => phase' = "evaluating"
             /\ phase' = "evaluating" => rmq_cfg'
  <2>1. IsMap(given)
    BY FactoryAssumption DEF FactoryAssumption, IsMap
  <2> QED
    BY <1>1, <1>8, <2>1 DEF init_with
<1> QED
  BY <1>5, <1>6, <1>7, <1>8 DEF Next

LEMMA FCInvOtherwise ==
  ASSUME FCInv, Otherwise
  PROVE  FCInv'
<1>1. /\ asking = {} /\ attempts' = attempts /\ peers' = peers /\ asking' = asking
      /\ call' = call /\ answer' = answer /\ Next
  BY DEF Otherwise, connecting
<1>2. /\ rmq_connection_manager' = rmq_connection_manager
      /\ IsMap(router')
      /\ left' # {} => phase' = "evaluating"
      /\ phase' = "evaluating" => rmq_cfg'
  BY <1>1, OtherwiseKeeps DEF FCInv
<1>3. FCTypes'
  BY <1>1, <1>2 DEF FCInv, FCTypes
<1>4. Asking' /\ LastPeer' /\ ChannelMeansReady'
  BY <1>1, <1>2 DEF FCInv, Asking, LastPeer, ChannelMeansReady, last
<1> QED
  BY <1>3, <1>4 DEF FCInv

LEMMA FCInvStarts ==
  ASSUME FCInv, NEW k \in Kinds, starts_connecting(k)
  PROVE  FCInv'
<1>1. /\ asking = {} /\ k \notin DOMAIN router /\ rmq_connection_manager = 0 /\ rmq_cfg
      /\ phase = "idle" \/ k \in left
      /\ Len(attempts) < MaxAttempts
      /\ router' = WithRouter(k, Blank) /\ asking' = {k} /\ call' = "socket_open" /\ answer' = FALSE
      /\ peers' = Append(peers, "none")
      /\ attempts' = attempts /\ rmq_connection_manager' = rmq_connection_manager
      /\ phase' = phase /\ left' = left /\ rmq_cfg' = rmq_cfg
  BY DEF starts_connecting, connection, control, configurations
<1>2. /\ Len(attempts) \in Nat /\ DOMAIN attempts = 1 .. Len(attempts)
      /\ Len(peers) \in Nat /\ DOMAIN peers = 1 .. Len(peers)
  BY Lengths DEF FCInv
<1>3. Len(peers) = Len(attempts)
  BY <1>1 DEF FCInv, Asking
<1>4. /\ peers' \in Seq({"none", "connected", "authenticated", "channel", "refused", "lost"})
      /\ Len(peers') = Len(peers) + 1 /\ peers'[Len(peers) + 1] = "none"
      /\ \A n \in 1 .. Len(peers) : peers'[n] = peers[n]
  <2>1. "none" \in {"none", "connected", "authenticated", "channel", "refused", "lost"}
    OBVIOUS
  <2> QED
    BY <1>1, <2>1, AppendProperties DEF FCInv, FCTypes
<1>5. IsMap(router') /\ k \in DOMAIN router' /\ router'[k] = Blank
  BY <1>1 DEF WithRouter, IsMap
<1>6. FCTypes'
  BY <1>1, <1>4, <1>5 DEF FCInv, FCTypes
<1>7. Asking'
  BY <1>1, <1>3, <1>4, <1>5 DEF Asking
<1>8. LastPeer'
  BY <1>1, <1>4 DEF LastPeer, last
<1>9. ChannelMeansReady'
  BY <1>1, <1>2, <1>3, <1>4 DEF FCInv, ChannelMeansReady
<1> QED
  BY <1>6, <1>7, <1>8, <1>9 DEF FCInv

\* A getter inside init(): what Asking says of it.
LEMMA WhileAsking ==
  ASSUME FCInv, call # "none"
  PROVE  \E k \in Kinds :
            /\ asking = {k}
            /\ last = Len(attempts) + 1 /\ last \in DOMAIN peers
            /\ k \in DOMAIN router /\ router[k] = Blank
            /\ rmq_connection_manager = 0 /\ rmq_cfg
            /\ Len(attempts) < MaxAttempts
            /\ (phase = "idle" /\ left = {}) \/ (phase = "evaluating" /\ k \in left)
<1>1. PICK k \in Kinds :
        /\ asking = {k} /\ Len(peers) = Len(attempts) + 1
        /\ k \in DOMAIN router /\ router[k] = Blank
        /\ rmq_connection_manager = 0 /\ rmq_cfg
        /\ Len(attempts) < MaxAttempts
        /\ phase = "idle" \/ k \in left
  BY DEF FCInv, Asking
<1>2. Len(peers) \in DOMAIN peers
  BY <1>1, Lengths DEF FCInv
<1>3. (phase = "idle" /\ left = {}) \/ (phase = "evaluating" /\ k \in left)
  <2>1. left # {} => phase = "evaluating"
    BY DEF FCInv, FCTypes
  <2> QED
    BY <1>1, <2>1
<1> QED
  BY <1>1, <1>2, <1>3 DEF last

\* init() throws, at a point where the broker has not opened the channel.
LEMMA FCInvThrow ==
  ASSUME FCInv, Throw, UNCHANGED rmq_connection_manager, call # "none", peers[last] # "channel"
  PROVE  FCInv'
<1>1. /\ attempts' = Append(attempts, "failed") /\ left' = {} /\ phase' = "idle" /\ asking' = {} /\ call' = "none"
      /\ answer' = FALSE /\ router' = router /\ peers' = peers
      /\ rmq_connection_manager' = rmq_connection_manager
  BY DEF Throw, configurations
<1>2. /\ Len(attempts) \in Nat /\ DOMAIN attempts = 1 .. Len(attempts)
      /\ Len(peers) \in Nat /\ DOMAIN peers = 1 .. Len(peers)
  BY Lengths DEF FCInv
<1>3. /\ attempts' \in Seq({"ready", "failed"}) /\ Len(attempts') = Len(attempts) + 1
      /\ DOMAIN attempts' = 1 .. Len(attempts) + 1
  BY <1>1, AttemptsAppend DEF FCInv
<1>4. Len(peers) = Len(attempts) + 1 /\ rmq_connection_manager = 0 /\ peers[Len(peers)] # "channel"
  BY WhileAsking DEF last
<1>5. FCTypes'
  <2>1. /\ peers' \in Seq({"none", "connected", "authenticated", "channel", "refused", "lost"})
        /\ IsMap(router')
    BY <1>1 DEF FCInv, FCTypes
  <2>2. rmq_connection_manager' \in 0 .. Len(attempts')
    BY <1>1, <1>2, <1>3, <1>4
  <2> QED
    BY <1>1, <1>3, <2>1, <2>2 DEF FCTypes
<1>6. Asking' /\ LastPeer'
  BY <1>1, <1>3, <1>4 DEF Asking, LastPeer
<1>7. ChannelMeansReady'
  BY <1>1, <1>2, <1>3, <1>4 DEF FCInv, ChannelMeansReady
<1> QED
  BY <1>5, <1>6, <1>7 DEF FCInv

\* init() returns: the connection that is kept is the one that has the channel.
LEMMA FCInvReady ==
  ASSUME FCInv, channel_opens
  PROVE  FCInv'
<1>1. /\ call = "channel_open" /\ answer /\ attempts' = Append(attempts, "ready")
      /\ rmq_connection_manager' = Len(attempts) + 1
      /\ router' = [k \in DOMAIN router |->
                      IF k \in asking THEN Initialized(rmq_connection_manager') ELSE router[k]]
      /\ left' = left \ asking /\ phase' = phase /\ rmq_cfg' = rmq_cfg
      /\ asking' = {} /\ call' = "none" /\ answer' = FALSE /\ peers' = peers
  BY DEF channel_opens, Ready, configurations
<1>2. /\ Len(attempts) \in Nat /\ DOMAIN attempts = 1 .. Len(attempts)
      /\ Len(peers) \in Nat /\ DOMAIN peers = 1 .. Len(peers)
  BY Lengths DEF FCInv
<1>3. /\ attempts' \in Seq({"ready", "failed"}) /\ Len(attempts') = Len(attempts) + 1
      /\ DOMAIN attempts' = 1 .. Len(attempts) + 1
  BY <1>1, AttemptsAppend DEF FCInv
<1>4. Len(peers) = Len(attempts) + 1 /\ rmq_connection_manager = 0
  BY <1>1, WhileAsking DEF last
<1>5. peers[Len(peers)] \in {"channel", "lost"}
  BY <1>1 DEF FCInv, LastPeer, last
<1>6. IsMap(router')
  BY <1>1 DEF IsMap
<1>7. FCTypes'
  <2>1. peers' \in Seq({"none", "connected", "authenticated", "channel", "refused", "lost"})
    BY <1>1 DEF FCInv, FCTypes
  <2>2. left' # {} => phase' = "evaluating"
    <3>1. left # {} => phase = "evaluating"
      BY DEF FCInv, FCTypes
    <3> QED
      BY <1>1, <3>1
  <2>4. phase' = "evaluating" => rmq_cfg'
    BY <1>1 DEF FCInv, FCTypes
  <2>3. rmq_connection_manager' \in 0 .. Len(attempts')
    BY <1>1, <1>2, <1>3
  <2> QED
    BY <1>1, <1>3, <1>6, <2>1, <2>2, <2>3, <2>4 DEF FCTypes
<1>8. Asking' /\ LastPeer'
  BY <1>1, <1>3, <1>4 DEF Asking, LastPeer
<1>9. ChannelMeansReady'
  BY <1>1, <1>2, <1>3, <1>4, <1>5 DEF FCInv, ChannelMeansReady
<1> QED
  BY <1>7, <1>8, <1>9 DEF FCInv

\* The broker, or the loss of a connection, changes one of the peers.
LEMMA FCInvPeer ==
  ASSUME FCInv, UNCHANGED <<vars, asking, call>>, answer' \in BOOLEAN,
         NEW n \in DOMAIN peers,
         NEW p \in {"none", "connected", "authenticated", "channel", "refused", "lost"},
         peers' = [peers EXCEPT ![n] = p],
         n \in DOMAIN attempts /\ p # "lost" => FALSE,
         peers[n] # "none",
         n = last => LastPeer',
         n # last => answer' = answer
  PROVE  FCInv'
<1>0. /\ attempts' = attempts /\ rmq_connection_manager' = rmq_connection_manager /\ router' = router
      /\ left' = left /\ phase' = phase /\ rmq_cfg' = rmq_cfg /\ asking' = asking /\ call' = call
  BY DEF vars, connection, configurations, control
<1>1. /\ Len(attempts) \in Nat /\ DOMAIN attempts = 1 .. Len(attempts)
      /\ Len(peers) \in Nat /\ DOMAIN peers = 1 .. Len(peers)
  BY Lengths DEF FCInv
<1>2. /\ peers' \in Seq({"none", "connected", "authenticated", "channel", "refused", "lost"})
      /\ Len(peers') = Len(peers) /\ DOMAIN peers' = DOMAIN peers
      /\ \A m \in DOMAIN peers : peers'[m] = IF m = n THEN p ELSE peers[m]
  <2>1. peers \in Seq({"none", "connected", "authenticated", "channel", "refused", "lost"}) /\ n \in 1 .. Len(peers)
    BY <1>1 DEF FCInv, FCTypes
  <2> QED
    BY <1>1, <2>1, ExceptSeq
<1>3. FCTypes'
  BY <1>0, <1>2 DEF FCInv, FCTypes
<1>4. Asking'
  BY <1>0, <1>2 DEF FCInv, Asking
<1>5. LastPeer'
  <2>1. CASE n # last /\ call # "none"
    BY <1>0, <1>2, <2>1, WhileAsking DEF FCInv, LastPeer, last
  <2>2. CASE call = "none"
    BY <1>0, <2>2 DEF LastPeer
  <2> QED
    BY <2>1, <2>2
<1>6. ChannelMeansReady'
  <2>1. DOMAIN attempts \subseteq DOMAIN peers
    <3>1. CASE call = "none"
      BY <1>1, <3>1 DEF FCInv, Asking
    <3>2. CASE call # "none"
      <4>1. Len(peers) = Len(attempts) + 1
        BY <3>2, WhileAsking DEF last
      <4> QED
        BY <1>1, <4>1
    <3> QED
      BY <3>1, <3>2
  <2>3. ASSUME NEW m \in DOMAIN attempts
        PROVE  IF m = rmq_connection_manager THEN peers'[m] \in {"channel", "lost"} ELSE peers'[m] # "channel"
    <3>1. CASE m = n
      BY <1>2, <2>1, <3>1
    <3>2. CASE m # n
      BY <1>2, <2>1, <3>2 DEF FCInv, ChannelMeansReady
    <3> QED
      BY <3>1, <3>2
  <2> QED
    BY <1>0, <2>3 DEF ChannelMeansReady
<1> QED
  BY <1>3, <1>4, <1>5, <1>6 DEF FCInv

LEMMA FCInvNext == FCInv /\ [FCNext]_fcVars => FCInv'
<1> SUFFICES ASSUME FCInv, [FCNext]_fcVars PROVE FCInv'
  OBVIOUS
<1>1. CASE Otherwise
  BY <1>1, FCInvOtherwise
<1>2. ASSUME NEW k \in Kinds, starts_connecting(k) PROVE FCInv'
  BY <1>2, FCInvStarts
<1>3. CASE socket_opens
  <2>1. /\ call = "socket_open" /\ call' = "login" /\ peers' = [peers EXCEPT ![last] = "connected"]
        /\ UNCHANGED vars /\ asking' = asking /\ answer' = answer
    BY <1>3 DEF socket_opens
  <2>2. PICK k \in Kinds : asking = {k} /\ last \in DOMAIN peers /\ last \notin DOMAIN attempts
    BY <2>1, WhileAsking, Lengths DEF FCInv
  <2>3. /\ peers' \in Seq({"none", "connected", "authenticated", "channel", "refused", "lost"})
        /\ Len(peers') = Len(peers) /\ peers'[last] = "connected"
        /\ \A m \in DOMAIN peers : m # last => peers'[m] = peers[m]
    <3>1. /\ peers \in Seq({"none", "connected", "authenticated", "channel", "refused", "lost"})
          /\ last \in 1 .. Len(peers)
          /\ "connected" \in {"none", "connected", "authenticated", "channel", "refused", "lost"}
      BY <2>2, Lengths DEF FCInv, FCTypes
    <3> QED
      BY <2>1, <2>2, <3>1, ExceptSeq
  <2>4. /\ attempts' = attempts /\ rmq_connection_manager' = rmq_connection_manager /\ router' = router
        /\ left' = left /\ phase' = phase /\ rmq_cfg' = rmq_cfg
    BY <2>1 DEF vars, connection, configurations, control
  <2>5. FCTypes'
    BY <2>1, <2>3, <2>4 DEF FCInv, FCTypes
  <2>6. Asking'
    BY <2>1, <2>3, <2>4 DEF FCInv, Asking
  <2>7. LastPeer'
    BY <2>1, <2>3 DEF LastPeer, last
  <2>8. ChannelMeansReady'
    <3>1. \A m \in DOMAIN attempts : m \in DOMAIN peers /\ m # last
      <4>1. Len(peers) = Len(attempts) + 1
        BY <2>1 DEF FCInv, Asking
      <4> QED
        BY <2>2, <4>1, Lengths DEF FCInv
    <3> QED
      BY <2>3, <2>4, <3>1 DEF FCInv, ChannelMeansReady
  <2> QED
    BY <2>5, <2>6, <2>7, <2>8 DEF FCInv
<1>4. CASE logs_in
  <2>1. /\ call = "login" /\ call' = "channel_open" /\ peers' = peers
        /\ UNCHANGED vars /\ asking' = asking /\ answer' = FALSE
    BY <1>4 DEF logs_in
  <2>2. /\ attempts' = attempts /\ rmq_connection_manager' = rmq_connection_manager /\ router' = router
        /\ left' = left /\ phase' = phase /\ rmq_cfg' = rmq_cfg
    BY <2>1 DEF vars, connection, configurations, control
  <2>3. FCTypes'
    BY <2>1, <2>2 DEF FCInv, FCTypes
  <2>4. Asking' /\ LastPeer' /\ ChannelMeansReady'
    BY <2>1, <2>2 DEF FCInv, Asking, LastPeer, ChannelMeansReady, last
  <2> QED
    BY <2>3, <2>4 DEF FCInv
<1>5. CASE socket_throws
  BY <1>5, FCInvThrow DEF socket_throws, FCInv, LastPeer
<1>6. CASE rpc_throws
  <2>1. call # "none" /\ peers[last] # "channel"
    BY <1>6 DEF rpc_throws, FCInv, LastPeer
  <2> QED
    BY <1>6, <2>1, FCInvThrow DEF rpc_throws
<1>7. CASE channel_opens
  BY <1>7, FCInvReady
<1>8. CASE broker_grants
  <2>1. call # "none"
    BY <1>8 DEF broker_grants
  <2>2. last \in DOMAIN peers /\ last \notin DOMAIN attempts
    BY <2>1, WhileAsking, Lengths DEF FCInv
  <2>3. PICK p \in {"authenticated", "channel"} :
          /\ peers' = [peers EXCEPT ![last] = p] /\ answer' = TRUE /\ UNCHANGED <<vars, asking, call>>
          /\ peers[last] # "none"
          /\ call = "login" => p = "authenticated"
          /\ call = "channel_open" => p = "channel"
          /\ call \in {"login", "channel_open"}
    BY <1>8 DEF broker_grants
  <2>4. LastPeer'
    <3>1. Len(peers') = Len(peers) /\ peers'[last] = p
      BY <2>2, <2>3, ExceptSeq, Lengths DEF FCInv, FCTypes
    <3> QED
      BY <2>3, <3>1 DEF LastPeer, last
  <2> QED
    BY <2>2, <2>3, <2>4, FCInvPeer
<1>9. CASE broker_refuses
  <2>1. /\ call \in {"login", "channel_open"} /\ ~answer /\ peers[last] # "none"
        /\ peers' = [peers EXCEPT ![last] = "refused"]
        /\ UNCHANGED <<vars, asking, call>> /\ answer' = answer
    BY <1>9 DEF broker_refuses
  <2>2. last \in DOMAIN peers /\ last \notin DOMAIN attempts
    BY <2>1, WhileAsking, Lengths DEF FCInv
  <2>3. LastPeer'
    <3>1. Len(peers') = Len(peers) /\ peers'[last] = "refused"
      BY <2>1, <2>2, ExceptSeq, Lengths DEF FCInv, FCTypes
    <3> QED
      BY <2>1, <3>1 DEF LastPeer, last
  <2> QED
    BY <2>1, <2>2, <2>3, FCInvPeer DEF FCInv, FCTypes
<1>10. ASSUME NEW n \in DOMAIN peers, connection_lost(n) PROVE FCInv'
  <2>1. /\ peers[n] \in {"connected", "authenticated", "channel"}
        /\ peers' = [peers EXCEPT ![n] = "lost"]
        /\ UNCHANGED <<vars, asking, call>> /\ answer' = answer
    BY <1>10 DEF connection_lost
  <2>2. n = last => LastPeer'
    <3>1. n = last => Len(peers') = Len(peers) /\ peers'[last] = "lost"
      BY <2>1, ExceptSeq, Lengths DEF FCInv, FCTypes
    <3> QED
      BY <2>1, <3>1 DEF FCInv, LastPeer, last
  <2> QED
    BY <2>1, <2>2, FCInvPeer DEF FCInv, FCTypes
<1>11. CASE UNCHANGED fcVars
  <2>1. /\ attempts' = attempts /\ rmq_connection_manager' = rmq_connection_manager /\ router' = router
        /\ left' = left /\ phase' = phase /\ rmq_cfg' = rmq_cfg
        /\ asking' = asking /\ call' = call /\ answer' = answer /\ peers' = peers
    BY <1>11 DEF fcVars, vars, connection, configurations, control, connecting
  <2>2. FCTypes'
    BY <2>1 DEF FCInv, FCTypes
  <2>3. Asking' /\ LastPeer' /\ ChannelMeansReady'
    BY <2>1 DEF FCInv, Asking, LastPeer, ChannelMeansReady, last
  <2> QED
    BY <2>2, <2>3 DEF FCInv
<1> QED
  BY <1>1, <1>2, <1>3, <1>4, <1>5, <1>6, <1>7, <1>8, <1>9, <1>10, <1>11 DEF FCNext

LEMMA FCInvariant == FCSpec => []FCInv
BY FCInvInit, FCInvNext, PTL DEF FCSpec

\* The routers are given the connection on which the broker has opened channel 1,
\* and no other connection ever has one.
THEOREM ChannelMeansReadyHolds == FCSpec => []ChannelMeansReady
<1>1. FCInv => ChannelMeansReady
  BY DEF FCInv
<1> QED
  BY <1>1, FCInvariant, PTL

------------------------------------------------------------------------------
(***************************************************************************)
(* The refinement.  What others see of the routers is those that are not   *)
(* being made; a getter that connects appears to do so when it ends.       *)
(***************************************************************************)

Visible == [k \in DOMAIN router \ asking |-> router[k]]

LEMMA VisibleProperties ==
  /\ DOMAIN Visible = DOMAIN router \ asking
  /\ \A k \in DOMAIN router \ asking : Visible[k] = router[k]
  /\ asking = {} /\ IsMap(router) => Visible = router
BY DEF Visible, IsMap

LEMMA AtomicInit == FCInit => Atomic!Init
<1> SUFFICES ASSUME FCInit PROVE Atomic!Init
  OBVIOUS
<1>1. [k \in DOMAIN router \ asking |-> router[k]] = [k \in {} |-> Foreign]
  BY DEF FCInit, Init
<1> QED
  BY <1>1 DEF FCInit, Init, Atomic!Init

\* A step of the factory that makes no connection is that step.
LEMMA AtomicOtherwise ==
  ASSUME Visible = router, Visible' = router', Next
  PROVE  Atomic!Next
<1> USE DEF Atomic!configurations, Atomic!connection, Atomic!control, configurations, connection, control
<1>1. /\ [k \in DOMAIN router \ asking |-> router[k]] = router
      /\ [k \in DOMAIN router' \ asking' |-> router'[k]] = router'
  BY DEF Visible
<1>2. ASSUME NEW k \in Kinds, Returns(k) PROVE Atomic!Returns(k)
  BY <1>1, <1>2 DEF Returns, Atomic!Returns, get_rmq_connection_manager, Atomic!get_rmq_connection_manager,
     WithRouter, Atomic!WithRouter, Initialized, Atomic!Initialized
<1>3. ASSUME NEW k \in Kinds, Throws(k) PROVE Atomic!Throws(k)
  BY <1>1, <1>3 DEF Throws, Atomic!Throws, connection_throws, Atomic!connection_throws,
     WithRouter, Atomic!WithRouter, Blank, Atomic!Blank
<1>4. ASSUME NEW k \in Kinds, get_router_crashes(k) PROVE Atomic!get_router_crashes(k)
  BY <1>1, <1>4 DEF get_router_crashes, Atomic!get_router_crashes,
     WithRouter, Atomic!WithRouter, Blank, Atomic!Blank
<1>5. ASSUME NEW k \in Kinds,
             get_router(k) \/ init_evaluates(k) \/ init_throws(k)
      PROVE  Atomic!get_router(k) \/ Atomic!init_evaluates(k) \/ Atomic!init_throws(k)
  BY <1>2, <1>3, <1>5 DEF get_router, Atomic!get_router, init_evaluates, Atomic!init_evaluates,
     init_throws, Atomic!init_throws
<1>6. ASSUME NEW file \in {"rmq_cfg", "message_router_cfg"}, init_throws_reading(file)
      PROVE  Atomic!init_throws_reading(file)
  BY <1>1, <1>6 DEF init_throws_reading, Atomic!init_throws_reading, load_throws, Atomic!load_throws
<1>7. ASSUME init_begins PROVE Atomic!init_begins
  BY <1>1, <1>7 DEF init_begins, Atomic!init_begins, load_configurations, Atomic!load_configurations
<1>8. ASSUME init_returns PROVE Atomic!init_returns
  BY <1>1, <1>8 DEF init_returns, Atomic!init_returns
<1>9. ASSUME NEW given \in Given, init_with(given) PROVE Atomic!init_with(given)
  BY <1>1, <1>9 DEF init_with, Atomic!init_with, load_configurations, Atomic!load_configurations
<1> QED
  BY <1>4, <1>5, <1>6, <1>7, <1>8, <1>9 DEF Next, Atomic!Next

\* Nothing is to be seen of a step that changes neither what the factory has nor
\* what is visible of its routers.
LEMMA AtomicStutter ==
  ASSUME Visible' = Visible, UNCHANGED <<configurations, connection, control, failures, replaced>>
  PROVE  UNCHANGED Atomic!vars
BY DEF Visible, Atomic!vars, Atomic!configurations, Atomic!connection, Atomic!control,
       configurations, connection, control

\* The end of init(), of either kind, is the step of the getter.
LEMMA AtomicThrow ==
  ASSUME FCInv, Throw, UNCHANGED rmq_connection_manager, call # "none"
  PROVE  Atomic!Next
<1>1. PICK k \in Kinds :
        /\ asking = {k} /\ k \in DOMAIN router /\ router[k] = Blank
        /\ rmq_connection_manager = 0 /\ rmq_cfg
        /\ Len(attempts) < MaxAttempts
        /\ (phase = "idle" /\ left = {}) \/ (phase = "evaluating" /\ k \in left)
  BY WhileAsking
<1>2. /\ attempts' = Append(attempts, "failed") /\ failures' = failures \cup {"connection"}
      /\ phase' = "idle" /\ left' = {} /\ asking' = {} /\ router' = router
      /\ rmq_cfg' = rmq_cfg /\ message_router_cfg' = message_router_cfg
      /\ returned' = returned /\ replaced' = replaced
      /\ rmq_connection_manager' = rmq_connection_manager
  BY DEF Throw, configurations
<1>3. k \notin DOMAIN Visible
  BY <1>1, VisibleProperties
<1>4. Visible' = [j \in DOMAIN Visible \cup {k} |-> IF j = k THEN Blank ELSE Visible[j]]
  <2>1. Visible' = [j \in DOMAIN router |-> router[j]]
    BY <1>2 DEF Visible
  <2>2. DOMAIN Visible \cup {k} = DOMAIN router
    BY <1>1, VisibleProperties
  <2>3. \A j \in DOMAIN router : router[j] = IF j = k THEN Blank ELSE Visible[j]
    BY <1>1, VisibleProperties
  <2> QED
    BY <2>1, <2>2, <2>3
<1>5. Atomic!Throws(k)
  BY <1>1, <1>2, <1>3, <1>4 DEF Visible, Atomic!Throws, Atomic!connection_throws, Atomic!WithRouter,
     Atomic!Blank, Blank, Atomic!configurations
<1>6. CASE phase = "idle" /\ left = {}
  BY <1>2, <1>5, <1>6 DEF Atomic!Next, Atomic!get_router, Atomic!control
<1>7. CASE phase = "evaluating" /\ k \in left
  BY <1>2, <1>5, <1>7 DEF Atomic!Next, Atomic!init_throws
<1> QED
  BY <1>1, <1>6, <1>7

LEMMA AtomicReady ==
  ASSUME FCInv, channel_opens
  PROVE  Atomic!Next
<1>1. PICK k \in Kinds :
        /\ asking = {k} /\ k \in DOMAIN router /\ router[k] = Blank
        /\ rmq_connection_manager = 0 /\ rmq_cfg
        /\ Len(attempts) < MaxAttempts
        /\ (phase = "idle" /\ left = {}) \/ (phase = "evaluating" /\ k \in left)
  BY WhileAsking DEF channel_opens
<1>2. /\ attempts' = Append(attempts, "ready") /\ rmq_connection_manager' = Len(attempts) + 1
      /\ router' = [j \in DOMAIN router |->
                      IF j \in asking THEN Initialized(rmq_connection_manager') ELSE router[j]]
      /\ left' = left \ asking /\ phase' = phase /\ asking' = {}
      /\ rmq_cfg' = rmq_cfg /\ message_router_cfg' = message_router_cfg
      /\ returned' = returned /\ replaced' = replaced /\ failures' = failures
  BY DEF channel_opens, Ready, configurations
<1>3. k \notin DOMAIN Visible
  BY <1>1, VisibleProperties
<1>4. PICK r : r = Initialized(rmq_connection_manager')
  OBVIOUS
<1>5. Visible' = [j \in DOMAIN Visible \cup {k} |-> IF j = k THEN r ELSE Visible[j]]
  <2>1. Visible' = [j \in DOMAIN router |-> IF j \in asking THEN r ELSE router[j]]
    BY <1>2, <1>4 DEF Visible
  <2>2. DOMAIN Visible \cup {k} = DOMAIN router
    BY <1>1, VisibleProperties
  <2>3. \A j \in DOMAIN router : (IF j \in asking THEN r ELSE router[j]) = IF j = k THEN r ELSE Visible[j]
    BY <1>1, VisibleProperties
  <2> QED
    BY <2>1, <2>2, <2>3
<1>6. Atomic!Returns(k)
  BY <1>1, <1>2, <1>3, <1>4, <1>5 DEF Visible, Atomic!Returns, Atomic!get_rmq_connection_manager,
     Atomic!WithRouter, Atomic!Initialized, Initialized, Atomic!configurations
<1>7. CASE phase = "idle" /\ left = {}
  BY <1>1, <1>2, <1>6, <1>7 DEF Atomic!Next, Atomic!get_router, Atomic!control
<1>8. CASE phase = "evaluating" /\ k \in left
  BY <1>1, <1>2, <1>6, <1>8 DEF Atomic!Next, Atomic!init_evaluates
<1> QED
  BY <1>1, <1>7, <1>8

LEMMA AtomicNext == FCInv /\ FCInv' /\ [FCNext]_fcVars => [Atomic!Next]_Atomic!vars
<1> SUFFICES ASSUME FCInv, FCInv', [FCNext]_fcVars PROVE [Atomic!Next]_Atomic!vars
  OBVIOUS
<1>1. ASSUME UNCHANGED vars, asking' = asking
      PROVE  UNCHANGED Atomic!vars
  BY <1>1, AtomicStutter DEF Visible, vars
<1>2. CASE Otherwise
  <2>1. Visible = router
    BY <1>2, VisibleProperties DEF Otherwise, FCInv, FCTypes
  <2>2. Visible' = router'
    <3>1. asking' = {} /\ IsMap(router')
      BY <1>2 DEF Otherwise, connecting, FCInv, FCTypes
    <3> QED
      BY <3>1 DEF Visible, IsMap
  <2> QED
    BY <1>2, <2>1, <2>2, AtomicOtherwise DEF Otherwise
<1>3. ASSUME NEW k \in Kinds, starts_connecting(k)
      PROVE  UNCHANGED Atomic!vars
  <2>1. /\ asking = {} /\ k \notin DOMAIN router /\ asking' = {k}
        /\ router' = WithRouter(k, Blank)
        /\ UNCHANGED <<configurations, connection, control, failures, replaced>>
    BY <1>3 DEF starts_connecting
  <2>2. Visible' = Visible
    <3>1. DOMAIN router' \ asking' = DOMAIN router \ asking
      BY <2>1 DEF WithRouter
    <3>2. \A j \in DOMAIN router \ asking : router'[j] = router[j]
      BY <2>1 DEF WithRouter
    <3> QED
      BY <3>1, <3>2 DEF Visible
  <2> QED
    BY <2>1, <2>2, AtomicStutter
<1>4. CASE socket_opens \/ logs_in \/ broker_grants \/ broker_refuses \/ \E n \in DOMAIN peers : connection_lost(n)
  BY <1>1, <1>4 DEF socket_opens, logs_in, broker_grants, broker_refuses, connection_lost
<1>5. CASE socket_throws \/ rpc_throws
  BY <1>5, AtomicThrow DEF socket_throws, rpc_throws
<1>6. CASE channel_opens
  BY <1>6, AtomicReady
<1>7. CASE UNCHANGED fcVars
  BY <1>1, <1>7 DEF fcVars, connecting
<1> QED
  BY <1>2, <1>3, <1>4, <1>5, <1>6, <1>7 DEF FCNext

\* However many steps a connection takes and wherever it fails, the factory does
\* what CommonFactory.tla says.
THEOREM ConnectsAtomicallyHolds == FCSpec => ConnectsAtomically
BY FCInvInit, FCInvNext, AtomicInit, AtomicNext, PTL DEF FCSpec, ConnectsAtomically, Atomic!Spec

------------------------------------------------------------------------------
(* What CommonFactory_proofs.tla proves of the factory, of this one. *)

Proved == INSTANCE CommonFactory_proofs WITH
  router <- [k \in DOMAIN router \ asking |-> router[k]]

LEMMA SameInit == Atomic!Init => Proved!Init
BY DEF Atomic!Init, Proved!Init, Atomic!Foreign, Proved!Foreign

LEMMA SameGetters ==
  ASSUME NEW k
  PROVE  /\ Atomic!Returns(k) <=> Proved!Returns(k)
         /\ Atomic!Throws(k) <=> Proved!Throws(k)
<1>1. Atomic!Returns(k) <=> Proved!Returns(k)
  BY DEF Atomic!Returns, Proved!Returns, Atomic!get_rmq_connection_manager,
         Proved!get_rmq_connection_manager, Atomic!WithRouter, Proved!WithRouter,
         Atomic!Initialized, Proved!Initialized, Atomic!connection, Proved!connection,
         Atomic!configurations, Proved!configurations
<1>2. Atomic!Throws(k) <=> Proved!Throws(k)
  BY DEF Atomic!Throws, Proved!Throws, Atomic!connection_throws, Proved!connection_throws,
         Atomic!WithRouter, Proved!WithRouter, Atomic!Blank, Proved!Blank,
         Atomic!configurations, Proved!configurations
<1> QED
  BY <1>1, <1>2

LEMMA SameSteps == [Atomic!Next]_(Atomic!vars) => [Proved!Next]_(Proved!vars)
<1> SUFFICES ASSUME [Atomic!Next]_(Atomic!vars) PROVE [Proved!Next]_(Proved!vars)
  OBVIOUS
<1> USE DEF Atomic!configurations, Proved!configurations, Atomic!connection,
            Proved!connection, Atomic!control, Proved!control
<1>1. ASSUME NEW k \in Kinds, Atomic!get_router(k) PROVE Proved!get_router(k)
  BY <1>1, SameGetters DEF Atomic!get_router, Proved!get_router
<1>2. ASSUME NEW k \in Kinds, Atomic!get_router_crashes(k) PROVE Proved!get_router_crashes(k)
  BY <1>2 DEF Atomic!get_router_crashes, Proved!get_router_crashes, Atomic!WithRouter,
       Proved!WithRouter, Atomic!Blank, Proved!Blank
<1>3. ASSUME NEW k \in Kinds, Atomic!init_evaluates(k) PROVE Proved!init_evaluates(k)
  BY <1>3, SameGetters DEF Atomic!init_evaluates, Proved!init_evaluates
<1>4. ASSUME NEW k \in Kinds, Atomic!init_throws(k) PROVE Proved!init_throws(k)
  BY <1>4, SameGetters DEF Atomic!init_throws, Proved!init_throws
<1>5. ASSUME NEW file \in {"rmq_cfg", "message_router_cfg"}, Atomic!init_throws_reading(file) PROVE Proved!init_throws_reading(file)
  BY <1>5 DEF Atomic!init_throws_reading, Proved!init_throws_reading, Atomic!load_throws,
       Proved!load_throws
<1>6. ASSUME Atomic!init_begins PROVE Proved!init_begins
  BY <1>6 DEF Atomic!init_begins, Proved!init_begins, Atomic!load_configurations,
       Proved!load_configurations
<1>7. ASSUME Atomic!init_returns PROVE Proved!init_returns
  BY <1>7 DEF Atomic!init_returns, Proved!init_returns
<1>8. ASSUME NEW given \in Given, Atomic!init_with(given) PROVE Proved!init_with(given)
  BY <1>8 DEF Atomic!init_with, Proved!init_with, Atomic!load_configurations,
       Proved!load_configurations
<1>9. CASE UNCHANGED Atomic!vars
  BY <1>9 DEF Atomic!vars, Proved!vars
<1> QED
  BY <1>1, <1>2, <1>3, <1>4, <1>5, <1>6, <1>7, <1>8, <1>9 DEF Atomic!Next, Proved!Next

LEMMA SamePromises ==
  /\ Proved!OneConnection => Atomic!OneConnection
  /\ Proved!UnusableHasCause => Atomic!UnusableHasCause
  /\ Proved!CrashOnlyBeforeInit => Atomic!CrashOnlyBeforeInit
  /\ Proved!AttemptsBounded => Atomic!AttemptsBounded
<1>1. Proved!OneConnection => Atomic!OneConnection
  BY DEF Proved!OneConnection, Atomic!OneConnection
<1>2. Proved!UnusableHasCause => Atomic!UnusableHasCause
  BY DEF Proved!UnusableHasCause, Atomic!UnusableHasCause, Proved!Usable, Atomic!Usable
<1>3. Proved!CrashOnlyBeforeInit => Atomic!CrashOnlyBeforeInit
  BY DEF Proved!CrashOnlyBeforeInit, Atomic!CrashOnlyBeforeInit
<1>4. Proved!AttemptsBounded => Atomic!AttemptsBounded
  BY DEF Proved!AttemptsBounded, Atomic!AttemptsBounded, Proved!Cardinality, Atomic!Cardinality
<1> QED
  BY <1>1, <1>2, <1>3, <1>4

\* However the three calls of a connection fail, and whichever of them does: there
\* is one connection, a router that cannot be used goes back to an exception, the
\* process dies only before a configuration was read, and attempts are bounded.
THEOREM ConnectingKeepsPromises ==
  FCSpec => [](/\ Atomic!OneConnection /\ Atomic!UnusableHasCause
               /\ Atomic!CrashOnlyBeforeInit /\ Atomic!AttemptsBounded)
<1>1. Proved!FactoryAssumption
  BY FactoryAssumption DEF FactoryAssumption, Proved!FactoryAssumption, Foreign, Proved!Foreign,
                           IsFiniteSet, Proved!IsFiniteSet
<1>2. Atomic!Spec => Proved!Spec
  BY SameInit, SameSteps, PTL DEF Atomic!Spec, Proved!Spec
<1>3. Proved!Spec => []Proved!OneConnection
  BY <1>1, Proved!OneConnectionHolds
<1>4. Proved!Spec => []Proved!UnusableHasCause
  BY <1>1, Proved!UnusableHasCauseHolds
<1>5. Proved!Spec => []Proved!CrashOnlyBeforeInit
  BY <1>1, Proved!CrashOnlyBeforeInitHolds
<1>6. Proved!Spec => []Proved!AttemptsBounded
  BY <1>1, Proved!AttemptsBoundedHolds
<1>7. FCSpec => Atomic!Spec
  BY ConnectsAtomicallyHolds DEF ConnectsAtomically
<1> QED
  BY <1>2, <1>3, <1>4, <1>5, <1>6, <1>7, SamePromises, PTL

\* The routers that everyone else sees.
visible == [k \in DOMAIN router \ asking |-> router[k]]

\* The same for what a step may do: inside init() of a connection, whatever fails, a
\* router that can be used stays as it is until the caller replaces it.
THEOREM ConnectingKeepsUsable == FCSpec => Atomic!UsableStays
<1>1. Proved!FactoryAssumption
  BY FactoryAssumption DEF FactoryAssumption, Proved!FactoryAssumption, Foreign, Proved!Foreign,
                           IsFiniteSet, Proved!IsFiniteSet
<1>2. Atomic!Spec => Proved!Spec
  BY SameInit, SameSteps, PTL DEF Atomic!Spec, Proved!Spec
<1>3. Proved!Spec => Proved!UsableStays
  BY <1>1, Proved!UsableStaysHolds
<1>4. ASSUME NEW given \in Given, Proved!init_with(given) PROVE Atomic!init_with(given)
  BY <1>4 DEF Atomic!init_with, Proved!init_with, Atomic!load_configurations,
              Proved!load_configurations, Atomic!connection, Proved!connection,
              Atomic!control, Proved!control
<1>5. [\A k \in Kinds : Proved!Usable(k) =>
         \/ k \in DOMAIN visible' /\ visible'[k] = visible[k]
         \/ \E given \in Given : Proved!init_with(given)]_(Proved!vars) =>
      [\A k \in Kinds : Atomic!Usable(k) =>
         \/ k \in DOMAIN visible' /\ visible'[k] = visible[k]
         \/ \E given \in Given : Atomic!init_with(given)]_(Atomic!vars)
  <2>1. UNCHANGED Proved!vars => UNCHANGED Atomic!vars
    BY DEF Atomic!vars, Proved!vars, Atomic!configurations, Proved!configurations,
           Atomic!connection, Proved!connection, Atomic!control, Proved!control
  <2>2. \A k : Proved!Usable(k) <=> Atomic!Usable(k)
    BY DEF Atomic!Usable, Proved!Usable
  <2> QED
    BY <1>4, <2>1, <2>2
<1>6. Proved!UsableStays => Atomic!UsableStays
  BY <1>5, PTL DEF Proved!UsableStays, Atomic!UsableStays, visible
<1> QED
  BY <1>2, <1>3, <1>6, ConnectsAtomicallyHolds DEF ConnectsAtomically

\* Once init() has returned, nothing but init(routers) changes what anyone sees of the
\* factory, whatever failed before and in whichever of the three calls.
THEOREM ConnectingReadsOnlyAfterInit == FCSpec => Atomic!ReadOnlyAfterInit
<1>1. Proved!FactoryAssumption
  BY FactoryAssumption DEF FactoryAssumption, Proved!FactoryAssumption, Foreign, Proved!Foreign,
                           IsFiniteSet, Proved!IsFiniteSet
<1>2. Atomic!Spec => Proved!Spec
  BY SameInit, SameSteps, PTL DEF Atomic!Spec, Proved!Spec
<1>3. Proved!Spec => Proved!ReadOnlyAfterInit
  BY <1>1, Proved!ReadOnlyAfterInitHolds
<1>4. [returned /\ ~replaced' =>
         UNCHANGED <<Proved!configurations, Proved!connection, visible>>]_(Proved!vars) =>
      [returned /\ ~replaced' =>
         UNCHANGED <<Atomic!configurations, Atomic!connection, visible>>]_(Atomic!vars)
  <2>1. UNCHANGED Proved!vars => UNCHANGED Atomic!vars
    BY DEF Atomic!vars, Proved!vars, Atomic!configurations, Proved!configurations,
           Atomic!connection, Proved!connection, Atomic!control, Proved!control
  <2> QED
    BY <2>1 DEF Atomic!configurations, Proved!configurations, Atomic!connection, Proved!connection
<1>5. Proved!ReadOnlyAfterInit => Atomic!ReadOnlyAfterInit
  BY <1>4, PTL DEF Proved!ReadOnlyAfterInit, Atomic!ReadOnlyAfterInit, visible
<1> QED
  BY <1>2, <1>3, <1>5, ConnectsAtomicallyHolds DEF ConnectsAtomically
==============================================================================
