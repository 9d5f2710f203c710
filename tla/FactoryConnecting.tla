-------------------------- MODULE FactoryConnecting --------------------------
(***************************************************************************)
(* The factory of CommonFactory.tla with ConnectionManager::init() call by *)
(* call: the TCP connection, the login and the channel, with the answers   *)
(* of the broker, its refusals and the loss of the connection between any  *)
(* two of them.  Meanwhile the getter has assigned its router and not      *)
(* initialized it.  CommonFactory.tla makes one step of all this, and this *)
(* module implements it.                                                   *)
(***************************************************************************)
EXTENDS CommonFactory

CONSTANT Ports   \* what rabbitMQ.json may have for the port: "number", "text"

ASSUME PortsAssumption == Ports \subseteq {"number", "text"}

VARIABLES
  port,     \* what it has
  asking,   \* the getter that is inside ConnectionManager::init(): a set of at most one
  call,     \* what init() is about to do, or waits for: "none", "socket_open",
            \* "login", "channel_open"
  answer,   \* has the broker's answer to it come?
  peers     \* each connection as the broker has it: "none", "connected",
            \* "authenticated", "channel", "refused", "lost"

connecting == <<asking, call, answer, peers>>
fcVars == <<vars, port, connecting>>

FCInit ==
  /\ Init
  /\ port \in Ports
  /\ asking = {}
  /\ call = "none"
  /\ answer = FALSE
  /\ peers = <<>>

last == Len(peers)

------------------------------------------------------------------------------
(* The client. *)

\* What the factory does without a new connection it does as in CommonFactory.tla.
Otherwise ==
  /\ asking = {}
  /\ UNCHANGED <<attempts, port, connecting>>
  /\ Next

\* A getter needs the connection and there is none: it has assigned its router.
\* amqp_new_connection and amqp_tcp_socket_new only allocate.
starts_connecting(k) ==
  /\ asking = {}
  /\ phase = "idle" \/ k \in left
  /\ k \notin DOMAIN router
  /\ rmq_connection_manager = 0
  /\ rmq_cfg
  /\ Len(attempts) < MaxAttempts
  /\ router' = WithRouter(k, Blank)
  /\ asking' = {k}
  /\ call' = "socket_open"
  /\ answer' = FALSE
  /\ peers' = Append(peers, "none")
  /\ UNCHANGED <<configurations, connection, control, failures, replaced, port>>

\* std::stoi of the port, and amqp_socket_open with status 0.
socket_opens ==
  /\ call = "socket_open"
  /\ port = "number"
  /\ call' = "login"
  /\ peers' = [peers EXCEPT ![last] = "connected"]
  /\ UNCHANGED <<vars, port, asking, answer>>

\* amqp_login with AMQP_RESPONSE_NORMAL, on to amqp_channel_open.
logs_in ==
  /\ call = "login"
  /\ answer
  /\ call' = "channel_open"
  /\ answer' = FALSE
  /\ UNCHANGED <<vars, port, asking, peers>>

\* init() throws: the router stays as it is, the ConnectionManager is dropped and
\* with it, unclosed, the connection.  (Mutant: the manager is kept.)
Throw ==
  /\ attempts' = Append(attempts, "failed")
  /\ failures' = failures \cup {"connection"}
  /\ phase' = "idle"
  /\ left' = {}
  /\ asking' = {}
  /\ call' = "none"
  /\ answer' = FALSE
  /\ UNCHANGED <<configurations, router, returned, replaced, port, peers>>

\* The port is no number, or nobody listens.
socket_throws ==
  /\ call = "socket_open"
  /\ Throw
  /\ UNCHANGED rmq_connection_manager

\* The answer is a refusal, none will come, or the library cannot agree with the
\* broker on how to go on, which the broker does not hear of.
\* (Mutants: the manager is kept; a channel that comes late is given up; another
\* connection is tried.)
rpc_throws_KeepsManager ==
  /\ call \in {"login", "channel_open"}
  /\ peers[last] \in {"refused", "lost"} \/ (call = "login" /\ ~answer)
  /\ Throw
  /\ rmq_connection_manager' = Len(attempts) + 1

rpc_throws_TimesOut ==
  /\ call \in {"login", "channel_open"}
  /\ Throw
  /\ UNCHANGED rmq_connection_manager

rpc_throws_Retries ==
  /\ call \in {"login", "channel_open"}
  /\ peers[last] \in {"refused", "lost"}
  /\ peers' = [peers EXCEPT ![last] = "none"]
  /\ call' = "socket_open"
  /\ answer' = FALSE
  /\ UNCHANGED <<vars, port, asking>>

rpc_throws ==
  /\ call \in {"login", "channel_open"}
  /\ peers[last] \in {"refused", "lost"} \/ (call = "login" /\ ~answer)
  /\ Throw
  /\ UNCHANGED rmq_connection_manager

\* init() returns: the factory keeps the manager, and the getter initializes its
\* router with it.
Ready ==
  /\ attempts' = Append(attempts, "ready")
  /\ rmq_connection_manager' = Len(attempts) + 1
  /\ router' = [k \in DOMAIN router |->
                  IF k \in asking THEN Initialized(rmq_connection_manager') ELSE router[k]]
  /\ left' = left \ asking
  /\ asking' = {}
  /\ call' = "none"
  /\ answer' = FALSE
  /\ UNCHANGED <<configurations, phase, returned, failures, replaced, port, peers>>

\* amqp_get_rpc_reply says AMQP_RESPONSE_NORMAL.
channel_opens ==
  /\ call = "channel_open"
  /\ answer
  /\ Ready

------------------------------------------------------------------------------
(* The broker and the network. *)

\* The broker grants what it is asked for.
broker_grants ==
  /\ ~answer
  /\ \/ /\ call = "login" /\ peers[last] = "connected"
        /\ peers' = [peers EXCEPT ![last] = "authenticated"]
     \/ /\ call = "channel_open" /\ peers[last] = "authenticated"
        /\ peers' = [peers EXCEPT ![last] = "channel"]
  /\ answer' = TRUE
  /\ UNCHANGED <<vars, port, asking, call>>

\* It closes the connection instead: wrong credentials, too many channels.
broker_refuses ==
  /\ ~answer
  /\ call \in {"login", "channel_open"}
  /\ peers[last] \in {"connected", "authenticated"}
  /\ peers' = [peers EXCEPT ![last] = "refused"]
  /\ UNCHANGED <<vars, port, asking, call, answer>>

\* Any connection may be lost, one that nobody owns any more included.
connection_lost(n) ==
  /\ peers[n] \in {"connected", "authenticated", "channel"}
  /\ peers' = [peers EXCEPT ![n] = "lost"]
  /\ UNCHANGED <<vars, port, asking, call, answer>>

FCNext ==
  \/ Otherwise
  \/ \E k \in Kinds : starts_connecting(k)
  \/ socket_opens \/ logs_in \/ socket_throws \/ rpc_throws \/ channel_opens
  \/ broker_grants \/ broker_refuses
  \/ \E n \in DOMAIN peers : connection_lost(n)

\* A thread inside init() goes on, and the broker answers: amqp_login has no
\* timeout, and one that never answers keeps the thread for ever.
FCFairness ==
  /\ WF_fcVars(socket_opens \/ socket_throws \/ logs_in \/ rpc_throws \/ channel_opens)
  /\ WF_fcVars(broker_grants \/ broker_refuses)

FCSpec == FCInit /\ [][FCNext]_fcVars /\ FCFairness

------------------------------------------------------------------------------
(* Properties. *)

\* Everyone else sees the factory as it was before the getter was called.
Atomic == INSTANCE CommonFactory WITH
  router <- [k \in DOMAIN router \ asking |-> router[k]]

\* Making a connection, in however many steps and wherever it fails, is one step of
\* CommonFactory.tla, so that what holds of that factory holds of this one.
ConnectsAtomically == Atomic!Spec

\* The broker has opened channel 1 on the connection that the routers are given,
\* which is where ConnectionManager.tla takes over: it is open, or it is lost.  What
\* failed attempts leave behind, and nobody can close, are connections without a
\* channel: nothing is ever published on one, and no two have a channel at once.
ChannelMeansReady ==
  \A n \in DOMAIN attempts :
    IF n = rmq_connection_manager THEN peers[n] \in {"channel", "lost"} ELSE peers[n] # "channel"

\* A getter that has to connect ends: it returns or it throws.
ConnectEnds == asking # {} ~> asking = {}
==============================================================================
