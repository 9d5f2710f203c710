---------------------------- MODULE CommonFactory ----------------------------
(***************************************************************************)
(* The factory that an application gets its routers from                   *)
(* (AbstractCommonFactory.h), used by one thread: it reads two             *)
(* configurations, makes each router when it is first asked for, and opens *)
(* the one connection that the routers share when the first of them needs  *)
(* it.  Any step may throw, the application may catch the exception and    *)
(* call the factory again.                                                 *)
(***************************************************************************)
EXTENDS Naturals, Sequences, FiniteSets

CONSTANTS
  Kinds,        \* the routers: "parsed", "raw", "event", "group"
  Given,        \* what callers pass to init(routers): kind -> router, where
                \* a kind without an entry stands for nullptr
  MaxAttempts   \* bound: connections tried in a behaviour

\* A router object: made by the factory or by the caller, its connection (an
\* index in attempts, 0 for none or for a connection of the caller's), and
\* whether it has a MessageRouterConfiguration.
Router == [owner : {"factory", "caller"}, conn : Nat, cfg : BOOLEAN]

\* A caller's router comes initialized.
Foreign == [owner |-> "caller", conn |-> 0, cfg |-> TRUE]

ASSUME FactoryAssumption ==
  /\ IsFiniteSet(Kinds)
  /\ \A g \in Given : DOMAIN g \subseteq Kinds /\ g \in [DOMAIN g -> {Foreign}]
  /\ MaxAttempts \in Nat

VARIABLES
  rmq_cfg,                  \* has rabbitMQ.json been read?
  message_router_cfg,       \* has mq.json been read?
  rmq_connection_manager,   \* the connection the routers share, 0 for nullptr
  attempts,                 \* how each ConnectionManager::init() ended
  router,                   \* kind -> router, no entry for nullptr
  phase,                    \* "idle", "evaluating" (in init()), "crashed"
  left,                     \* the getters that init() has yet to call
  returned,                 \* history: has init() ever returned normally?
  failures,                 \* history: what has ever thrown
  replaced                  \* history: has init(routers) ever been used?

configurations == <<rmq_cfg, message_router_cfg>>
connection == <<rmq_connection_manager, attempts>>
control == <<phase, left, returned>>
vars == <<configurations, connection, router, control, failures, replaced>>

FTypeOK ==
  /\ rmq_cfg \in BOOLEAN
  /\ message_router_cfg \in BOOLEAN
  /\ attempts \in Seq({"ready", "failed"})
  /\ rmq_connection_manager \in 0 .. Len(attempts)
  /\ DOMAIN router \subseteq Kinds
  /\ \A k \in DOMAIN router : router[k] \in Router
  /\ phase \in {"idle", "evaluating", "crashed"}
  /\ left \subseteq Kinds
  /\ returned \in BOOLEAN
  /\ failures \subseteq {"rmq_cfg", "message_router_cfg", "connection"}
  /\ replaced \in BOOLEAN

Init ==
  /\ rmq_cfg = FALSE
  /\ message_router_cfg = FALSE
  /\ rmq_connection_manager = 0
  /\ attempts = <<>>
  /\ router = [k \in {} |-> Foreign]
  /\ phase = "idle"
  /\ left = {}
  /\ returned = FALSE
  /\ failures = {}
  /\ replaced = FALSE

------------------------------------------------------------------------------
(* The configurations: a file that is missing, or that is not what is        *)
(* expected, makes the reader throw.                                         *)

\* Mutant: only rabbitMQ.json is read.
load_configurations_RmqOnly ==
  /\ rmq_cfg' = TRUE
  /\ UNCHANGED message_router_cfg

\* Mutant: reading the configurations is left to the caller.
load_configurations_Skipped == UNCHANGED configurations

\* Each configuration that is not there yet is read, and both can be.
load_configurations ==
  /\ rmq_cfg' = TRUE
  /\ message_router_cfg' = TRUE

\* rabbitMQ.json is read first; what was read before the exception stays.
load_throws(file) ==
  \/ /\ file = "rmq_cfg"
     /\ ~rmq_cfg
     /\ UNCHANGED configurations
  \/ /\ file = "message_router_cfg"
     /\ ~message_router_cfg
     /\ rmq_cfg' = TRUE
     /\ UNCHANGED message_router_cfg

------------------------------------------------------------------------------
(* The getters.  A getter assigns the new router to its field, then asks for *)
(* the connection, then initializes the router with it.                      *)

WithRouter(k, r) == [j \in DOMAIN router \cup {k} |-> IF j = k THEN r ELSE router[j]]

\* router->init(connection, message_router_cfg), as the configuration is now.
Initialized(n) == [owner |-> "factory", conn |-> n, cfg |-> message_router_cfg]

\* A router whose init() is never called, because what precedes it threw.
Blank == [owner |-> "factory", conn |-> 0, cfg |-> FALSE]

\* Mutant: the connection kept is not the one that was made.
get_rmq_connection_manager_OffByOne ==
  \/ /\ rmq_connection_manager # 0
     /\ UNCHANGED connection
  \/ /\ rmq_connection_manager = 0
     /\ rmq_cfg
     /\ Len(attempts) < MaxAttempts
     /\ attempts' = Append(attempts, "ready")
     /\ rmq_connection_manager' = Len(attempts) + 2

\* get_rmq_connection_manager has a connection, or makes one with success: the
\* socket opens, the login is accepted and so is the channel.
get_rmq_connection_manager ==
  \/ /\ rmq_connection_manager # 0
     /\ UNCHANGED connection
  \/ /\ rmq_connection_manager = 0
     /\ rmq_cfg
     /\ Len(attempts) < MaxAttempts
     /\ attempts' = Append(attempts, "ready")
     /\ rmq_connection_manager' = Len(attempts) + 1

\* Mutant: the connection manager is kept before its init() has succeeded.
connection_throws_KeepsManager ==
  /\ rmq_connection_manager = 0
  /\ rmq_cfg
  /\ Len(attempts) < MaxAttempts
  /\ attempts' = Append(attempts, "failed")
  /\ rmq_connection_manager' = Len(attempts) + 1

\* The port is no number, or the broker refuses the socket, the login or the
\* channel: ConnectionManager::init() throws and the object is dropped, without
\* closing what it opened.
connection_throws ==
  /\ rmq_connection_manager = 0
  /\ rmq_cfg
  /\ Len(attempts) < MaxAttempts
  /\ attempts' = Append(attempts, "failed")
  /\ UNCHANGED rmq_connection_manager

\* The getter of kind k returns a router: the one it has, in whatever state,
\* or a new one.
Returns(k) ==
  /\ \/ /\ k \in DOMAIN router
        /\ UNCHANGED <<router, connection>>
     \/ /\ k \notin DOMAIN router
        /\ get_rmq_connection_manager
        /\ router' = WithRouter(k, Initialized(rmq_connection_manager'))
  /\ UNCHANGED <<configurations, failures, replaced>>

\* Mutant: the field is assigned after the connection is made.
Throws_LeavesNothing(k) ==
  /\ k \notin DOMAIN router
  /\ connection_throws
  /\ failures' = failures \cup {"connection"}
  /\ UNCHANGED <<configurations, router, replaced>>

\* The getter throws and leaves a router behind.
Throws(k) ==
  /\ k \notin DOMAIN router
  /\ connection_throws
  /\ router' = WithRouter(k, Blank)
  /\ failures' = failures \cup {"connection"}
  /\ UNCHANGED <<configurations, replaced>>

------------------------------------------------------------------------------
(* The operations of the factory. *)

\* One of the four getters, called by the application.
get_router(k) ==
  /\ phase = "idle"
  /\ Returns(k) \/ Throws(k)
  /\ UNCHANGED control

\* A getter that has no configuration to connect with dereferences nullptr.
get_router_crashes(k) ==
  /\ phase = "idle" \/ k \in left
  /\ k \notin DOMAIN router
  /\ rmq_connection_manager = 0
  /\ ~rmq_cfg
  /\ router' = WithRouter(k, Blank)
  /\ phase' = "crashed"
  /\ UNCHANGED <<configurations, connection, left, returned, failures, replaced>>

\* Either init() throws while it reads a configuration.
init_throws_reading(file) ==
  /\ phase = "idle"
  /\ load_throws(file)
  /\ failures' = failures \cup {file}
  /\ UNCHANGED <<connection, router, control, replaced>>

\* Mutant: init() makes all routers anew.
init_begins_Resets ==
  /\ phase = "idle"
  /\ load_configurations
  /\ phase' = "evaluating"
  /\ left' = Kinds
  /\ router' = [k \in {} |-> Foreign]
  /\ UNCHANGED <<connection, returned, failures, replaced>>

\* init() has its configurations and goes on to the arguments of the other.
init_begins ==
  /\ phase = "idle"
  /\ load_configurations
  /\ phase' = "evaluating"
  /\ left' = Kinds
  /\ UNCHANGED <<connection, router, returned, failures, replaced>>

\* The four getters are arguments of one call: the order is the compiler's.
init_evaluates(k) ==
  /\ phase = "evaluating"
  /\ k \in left
  /\ Returns(k)
  /\ left' = left \ {k}
  /\ UNCHANGED <<phase, returned>>

init_throws(k) ==
  /\ phase = "evaluating"
  /\ k \in left
  /\ Throws(k)
  /\ phase' = "idle"
  /\ left' = {}
  /\ UNCHANGED returned

\* The fields are assigned what the getters returned, which is what they hold.
init_returns ==
  /\ phase = "evaluating"
  /\ left = {}
  /\ phase' = "idle"
  /\ returned' = TRUE
  /\ UNCHANGED <<configurations, connection, router, left, failures, replaced>>

\* init(routers): the caller's pointers, null or not, replace the fields.
init_with(given) ==
  /\ phase = "idle"
  /\ load_configurations
  /\ router' = given
  /\ replaced' = TRUE
  /\ UNCHANGED <<connection, control, failures>>

Next ==
  \/ \E k \in Kinds :
        get_router(k) \/ get_router_crashes(k) \/ init_evaluates(k) \/ init_throws(k)
  \/ \E file \in {"rmq_cfg", "message_router_cfg"} : init_throws_reading(file)
  \/ init_begins \/ init_returns
  \/ \E given \in Given : init_with(given)

Spec == Init /\ [][Next]_vars

------------------------------------------------------------------------------
(* Properties. *)

\* The methods of a router that is not usable all throw "Router is not
\* initialized".
Usable(k) ==
  /\ k \in DOMAIN router
  /\ router[k].owner = "caller" \/ (router[k].conn # 0 /\ router[k].cfg)

\* However the calls and their failures are interleaved, no two connections are
\* ever established, and every router of the factory that has a connection has
\* that one.
OneConnection ==
  /\ \A i, j \in DOMAIN attempts : attempts[i] = "ready" /\ attempts[j] = "ready" => i = j
  /\ \A k \in DOMAIN router :
        (router[k].owner = "factory" /\ router[k].conn # 0) =>
          /\ router[k].conn = rmq_connection_manager
          /\ attempts[rmq_connection_manager] = "ready"

\* A router that is handed out and cannot be used goes back to an exception that
\* the application caught: a connection that failed, or an mq.json that did
\* when the router had not been made.  In particular an application that has
\* seen no exception has four routers it can use once init() has returned.
UnusableHasCause ==
  (phase # "crashed" /\ failures = {}) =>
    /\ \A k \in DOMAIN router : Usable(k)
    /\ returned /\ ~replaced => \A k \in Kinds : Usable(k)

\* The process dies only in a getter that is called before any init() has read
\* rabbitMQ.json, never inside init() and never once init() has returned.
CrashOnlyBeforeInit == phase = "crashed" => left = {} /\ ~rmq_cfg /\ ~returned

\* However often the application tries again, it leaves at most one unclosed
\* connection for each kind of router, because a router is only made once.
AttemptsBounded == ~replaced => Len(attempts) <= Cardinality(Kinds)

\* A router that can be used stays as it is, whatever fails later, until the
\* caller puts another in its place.
UsableStays ==
  [][\A k \in Kinds : Usable(k) =>
       \/ k \in DOMAIN router' /\ router'[k] = router[k]
       \/ \E given \in Given : init_with(given)]_vars

\* Once init() has returned, nothing but init(routers) changes the factory: the
\* getters only read then, whatever went wrong before, which is what makes it
\* safe to call them from several threads although nothing is locked.
ReadOnlyAfterInit ==
  [][returned /\ ~replaced' => UNCHANGED <<configurations, connection, router>>]_vars

\* The demo logs "factory->init() successful" and goes on to send through a
\* router: init() that returns is taken to mean that the routers work.
InitOkMeansUsable == (returned /\ ~replaced) => \A k \in Kinds : Usable(k)

==============================================================================
