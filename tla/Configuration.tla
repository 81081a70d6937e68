--------------------------- MODULE Configuration -----------------------------
(***************************************************************************)
(* What config() of src/config/configuration.ts makes of the environment,  *)
(* and whether a process can start with the outcome.                       *)
(* A variable is told apart by how the code parses it:                     *)
(*   scopes   SUPPORTED_SCOPES: unset (or empty), a JSON list of strings   *)
(*            or of other things, other JSON, or no JSON                   *)
(*   hosts    RABBITMQ_HOSTS: unset, a JSON list of strings, an empty one, *)
(*            a JSON string, JSON that is falsy (null, 0, ""), other JSON, *)
(*            or a bare name that is not JSON                              *)
(*   numbers  RABBITMQ_PORT, THROTTLE_TTL and THROTTLE_LIMIT are numbers   *)
(*   names    the virtual host, the exchange and the routing key are set   *)
(* The other variables have defaults or are not checked.                   *)
(***************************************************************************)
Environment == [scopes : {"unset", "list", "oddList", "other", "malformed"},
                hosts : {"unset", "list", "emptyList", "string", "falsy", "other", "bare"},
                numbers : BOOLEAN,
                names : BOOLEAN]

(* Nothing in the try block throws: JSON.parse of a variable that is not   *)
(* set does, except for the scopes, which have a default.                  *)
Parses(e) == /\ e.scopes \notin {"other", "malformed"}
             /\ e.hosts \notin {"unset", "bare"}

(* One catch for both: if either cannot be parsed, both are empty.         *)
Scopes(e) == IF Parses(e) /\ e.scopes # "unset" THEN e.scopes ELSE "emptyList"

(* JSON.parse(hosts) || hosts: instead of a falsy value the raw text.      *)
Hosts(e) == IF ~Parses(e) THEN "emptyList"
            ELSE IF e.hosts = "falsy" THEN "string" ELSE e.hosts

(* ConfigSchema.parse: what it refuses is thrown as 'Invalid               *)
(* configuration'.                                                         *)
Accepted(e) == /\ Scopes(e) \in {"list", "emptyList"}
               /\ Hosts(e) \in {"list", "emptyList", "string"}
               /\ e.numbers
               /\ e.names

(* The schema has nothing against a list without hosts, but the            *)
(* constructor of RabbitMQClient throws.                                   *)
Connectable(e) == Hosts(e) # "emptyList"

(* Either exception is one of NestFactory.create: the process ends before  *)
(* any onModuleInit runs.                                                  *)
Starts(e) == Accepted(e) /\ Connectable(e)
=============================================================================
