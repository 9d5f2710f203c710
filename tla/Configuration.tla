---------------------------- MODULE Configuration ----------------------------
(***************************************************************************)
(* Where a CommonFactory looks for its two configurations, and what it     *)
(* makes of what it finds there: the command line, CommonFactory's paths,  *)
(* and the readers of rabbitMQ.json and mq.json.  No state: the command    *)
(* line, the files and the environment are arguments.                      *)
(*                                                                         *)
(* A path is a pair of directory and file name, <<>> the empty path.  A    *)
(* file is a record of the names at the top level of its JSON object (none *)
(* if it is not JSON at all), those whose values are not of the type that  *)
(* the readers take, the port and the password; what mq.json says of the   *)
(* queues is Documents, in MessageRouting.tla.                             *)
(***************************************************************************)
EXTENDS Naturals, Sequences

NoValue == "no value"    \* of an environment variable that is not set

\* The options declared to the parser; the comment on create_from_arguments lists
\* six others.
declared_options == {"rabbitConfiguration", "messageRouterConfiguration"}

\* get_path says that a file is missing, and returns its path all the same.
get_path(file) == <<"/var/th2/config/", file>>

\* The constructor without arguments.
default_paths == [rabbitMQ |-> get_path("rabbitMQ.json"), routerMQ |-> get_path("mq.json")]

\* The parser throws on any option that is not declared.
parse_command_line_throws(arguments) ==
  \E n \in DOMAIN arguments : arguments[n].option \notin declared_options

\* The first value of an option; an option that is not given is the empty path,
\* and no default takes its place.
value_of(arguments, option) ==
  LET given == SelectSeq(arguments, LAMBDA a : a.option = option)
  IN  IF given = <<>> THEN <<>> ELSE given[1].value

create_from_arguments(arguments) ==
  [rabbitMQ |-> value_of(arguments, "rabbitConfiguration"),
   routerMQ |-> value_of(arguments, "messageRouterConfiguration")]

\* The password that is put in place of "${RABBITMQ_PASS}".
password(json, RABBITMQ_PASS) ==
  IF json.password = "${RABBITMQ_PASS}" THEN RABBITMQ_PASS ELSE json.password

\* from_json(RabbitMQConfiguration) does not throw.  An optional field that is
\* there is read and so must have its type, though nothing uses most of them;
\* prefetchCount alone is not read.
required_fields == {"host", "vHost", "port", "username", "password"}
optional_fields == {"subscriberName", "exchangeName", "connectionTimeout",
  "connectionCloseTimeout", "maxRecoveryAttempts", "minConnectionRecoveryTimeout",
  "maxConnectionRecoveryTimeout"}

from_json_succeeds(json, RABBITMQ_PASS) ==
  /\ required_fields \subseteq json.fields
  /\ json.mistyped \cap (required_fields \cup optional_fields) = {}
  /\ password(json, RABBITMQ_PASS) # NoValue

load_rabbit_mq_configuration_succeeds(files, path, RABBITMQ_PASS) ==
  /\ path \in DOMAIN files
  /\ from_json_succeeds(files[path], RABBITMQ_PASS)

\* "queues" is mistyped if it is no object, or one of its queues lacks queue, name,
\* exchange or attributes.
load_message_router_configuration_succeeds(files, path) ==
  /\ path \in DOMAIN files
  /\ "queues" \in files[path].fields \ files[path].mistyped

==============================================================================
