------------------------------ MODULE VLLMServing ------------------------------
(***************************************************************************)
(* Serving the trained model: a VLLMController per node starts a vLLM      *)
(* server and registers it with the VLLMRouter, which passes requests on   *)
(* to the registered servers in turns; deploy_training_model() writes the  *)
(* weights to the hot path, waits with VLLMClient.wait_for_server() for    *)
(* all servers, tells each to load them and waits again.                   *)
(*                                                                         *)
(* A replica stands for its node, its controller, its server and their     *)
(* endpoint, and weights for the number of the deployment that wrote       *)
(* them.  vLLM itself is external: it becomes healthy or not, ends, loads  *)
(* what is in the hot path when it is told to.  Any call over HTTP may     *)
(* fail, before or after the other side has done its work.                 *)
(***************************************************************************)
EXTENDS Integers, Sequences, FiniteSets

CONSTANTS
  Replicas,  \* the nodes, NNODES of them
  Requests,  \* callers with at most one request each
  Deploys    \* how often the trainer deploys (bound)

ServingAssumption ==
  /\ IsFiniteSet(Replicas) /\ Replicas # {} /\ Deploys \in Nat

VARIABLES
  endpoints,  \* the router's list of endpoints
  turn,       \* its _rr_index
  messages,   \* calls of the controllers that the router has not handled
  replica,    \* [Replicas -> [pc, server, version]]: controller, server, its weights
  expected,   \* VLLM_NUM_WORKERS_OF_... in Redis, 0 while there is none
  hot,        \* the weights in the hot path
  client,     \* [pc, stage, listing]: deploy_training_model() on rank 0
  reload,     \* [Replicas -> [pc, tries]]: its call that reloads an endpoint
  deployed,   \* the last deployment that has returned
  request     \* [Requests -> [pc, to, since, from]]

routerVars == <<endpoints, turn>>
deployVars == <<hot, client, reload, deployed>>
vars == <<routerVars, messages, replica, expected, deployVars, request>>

\* retry_on(..., for_times=3)
ForTimes == 3

NoReload == [r \in Replicas |-> [pc |-> "none", tries |-> 0]]

Init ==
  /\ endpoints = <<>> /\ turn = 0 /\ messages = {}
  /\ replica = [r \in Replicas |-> [pc |-> "health", server |-> "starting", version |-> 0]]
  /\ expected = 0 /\ hot = 0 /\ deployed = 0
  /\ client = [pc |-> "idle", stage |-> "none", listing |-> <<>>]
  /\ reload = NoReload
  /\ request = [q \in Requests |-> [pc |-> "idle", to |-> {}, since |-> 0, from |-> 0]]

-----------------------------------------------------------------------------
(* The router.                                                             *)

Listed(r) == \E i \in DOMAIN endpoints : endpoints[i] = r

\* register(), for a call that has arrived.
RouterRegister(r) ==
  /\ <<"register", r>> \in messages
  /\ messages' = messages \ {<<"register", r>>}
  /\ endpoints' = IF Listed(r) THEN endpoints ELSE Append(endpoints, r)
  /\ UNCHANGED <<turn, replica, expected, deployVars, request>>

\* unregister()
RouterUnregister(r) ==
  /\ <<"unregister", r>> \in messages
  /\ messages' = messages \ {<<"unregister", r>>}
  /\ endpoints' = IF Listed(r)
       THEN LET i == CHOOSE j \in DOMAIN endpoints : endpoints[j] = r
            IN  [j \in 1..Len(endpoints) - 1 |->
                   IF j < i THEN endpoints[j] ELSE endpoints[j + 1]]
       ELSE endpoints
  /\ UNCHANGED <<turn, replica, expected, deployVars, request>>

\* A call that never arrives: the controller only warns.
MessageLost ==
  /\ \E m \in messages : messages' = messages \ {m}
  /\ UNCHANGED <<routerVars, replica, expected, deployVars, request>>

\* _select_endpoint(): the next of the registered endpoints, in turns.
SelectEndpoint(r) ==
  /\ endpoints # <<>>
  /\ r = endpoints[(turn % Len(endpoints)) + 1]
  /\ turn' = (turn + 1) % Len(endpoints)
  /\ UNCHANGED endpoints

-----------------------------------------------------------------------------
(* The controller of a node and its server.                                *)

\* The server answers /health.
ServerUp(r) ==
  /\ replica[r].server = "starting"
  /\ replica' = [replica EXCEPT ![r].server = "up"]
  /\ UNCHANGED <<routerVars, messages, expected, deployVars, request>>

\* The server's process ends by itself.
ServerEnds(r) ==
  /\ replica[r].server # "ended"
  /\ replica' = [replica EXCEPT ![r].server = "ended"]
  /\ UNCHANGED <<routerVars, messages, expected, deployVars, request>>

\* wait_for_health() sees the server healthy.
Healthy(r) ==
  /\ replica[r].pc = "health" /\ replica[r].server = "up"
  /\ replica' = [replica EXCEPT ![r].pc = "publish"]
  /\ UNCHANGED <<routerVars, messages, expected, deployVars, request>>

\* register() tells how many servers there will be, ...
Publish(r) ==
  /\ replica[r].pc = "publish"
  /\ expected' = Cardinality(Replicas)
  /\ replica' = [replica EXCEPT ![r].pc = "register"]
  /\ UNCHANGED <<routerVars, messages, deployVars, request>>

\* ... and calls the router; it goes on with or without an answer.
Register(r) ==
  /\ replica[r].pc = "register"
  /\ messages' = messages \cup {<<"register", r>>}
  /\ replica' = [replica EXCEPT ![r].pc = "serving"]
  /\ UNCHANGED <<routerVars, expected, deployVars, request>>

\* shutdown(), once: when the server has ended or died before it was healthy,
\* and at any time on SIGTERM.  Without an endpoint deregister() reaches nobody.
Shutdown(r) ==
  /\ replica[r].pc \notin {"terminate", "down"}
  /\ messages' = IF replica[r].pc \in {"register", "serving"}
                 THEN messages \cup {<<"unregister", r>>} ELSE messages
  /\ replica' = [replica EXCEPT ![r].pc = "terminate"]
  /\ UNCHANGED <<routerVars, expected, deployVars, request>>

\* _terminate_vllm(), with or without an answer of the router.
Terminate(r) ==
  /\ replica[r].pc = "terminate"
  /\ replica' = [replica EXCEPT ![r].pc = "down", ![r].server = "ended"]
  /\ UNCHANGED <<routerVars, messages, expected, deployVars, request>>

-----------------------------------------------------------------------------
(* deploy_training_model() on rank 0, and the VLLMClient.                  *)

Goes(pc, stage) == client' = [pc |-> pc, stage |-> stage, listing |-> <<>>]

\* dump_safetensors() has written the weights of all ranks.
Dump ==
  /\ client.pc = "idle" /\ hot < Deploys
  /\ hot' = hot + 1
  /\ Goes("expect", "first")
  /\ UNCHANGED <<routerVars, messages, replica, expected, reload, deployed, request>>

\* wait_for_server(): block_get_redis(VLLM_NUM_WORKERS_OF_...), then the list of
\* endpoints, ...
Expect ==
  /\ client.pc = "expect" /\ expected # 0
  /\ Goes("list", client.stage)
  /\ UNCHANGED <<routerVars, messages, replica, expected, hot, reload, deployed, request>>

GetInfo ==
  /\ client.pc = "list"
  /\ client' = [client EXCEPT !.pc = "probe", !.listing = endpoints]
  /\ UNCHANGED <<routerVars, messages, replica, expected, hot, reload, deployed, request>>

\* ... which is good enough when it has all replicas.
\* Mutant: any endpoint will do.
AnyReady(n) == n > 0

AllReady(n) == n >= expected

\* What follows each of the three waits.
Proceed ==
  CASE client.stage = "first" ->
         Goes("expect", "reload") /\ UNCHANGED <<reload, deployed>>
    [] client.stage = "reload" ->
         /\ Goes("reload", "reload") /\ UNCHANGED deployed
         /\ reload' = [r \in Replicas |->
              IF \E i \in DOMAIN client.listing : client.listing[i] = r
              THEN [pc |-> "rpc", tries |-> 1] ELSE NoReload[r]]
    [] client.stage = "last" ->
         Goes("idle", "none") /\ deployed' = hot /\ UNCHANGED reload

\* check_server_alive(): a completion by whichever server's turn it is.
ServerAlive ==
  /\ client.pc = "probe"
  /\ \E r \in Replicas : SelectEndpoint(r) /\ replica[r].server = "up"
  /\ IF AllReady(Len(client.listing)) THEN Proceed
     ELSE Goes("list", client.stage) /\ UNCHANGED <<reload, deployed>>
  /\ UNCHANGED <<messages, replica, expected, hot, request>>

\* No endpoint, no answer or a lost one: post() tries again, or the list is read
\* again.
NotAlive ==
  /\ client.pc = "probe"
  /\ \/ endpoints = <<>> /\ UNCHANGED routerVars
     \/ \E r \in Replicas : SelectEndpoint(r)
  /\ UNCHANGED client \/ Goes("list", client.stage)
  /\ UNCHANGED <<messages, replica, expected, hot, reload, deployed, request>>

\* wait_for_server() gives up after its time, or get() after three attempts.
TimeOut ==
  /\ client.pc \in {"expect", "list", "probe"}
  /\ Goes("raised", client.stage)
  /\ UNCHANGED <<routerVars, messages, replica, expected, hot, reload, deployed, request>>

Reloading(r, pc) == client.pc = "reload" /\ reload[r].pc = pc

\* The server does what /collective_rpc asks for: reload_weights from the hot path.
Loads(r) ==
  /\ replica[r].server = "up"
  /\ replica' = [replica EXCEPT ![r].version = hot]

\* _update_and_reload_for_endpoint(): reload_weights is answered, ...
ReloadWeights(r) ==
  /\ Reloading(r, "rpc") /\ Loads(r)
  /\ reload' = [reload EXCEPT ![r] = [pc |-> "reset", tries |-> 1]]
  /\ UNCHANGED <<routerVars, messages, expected, hot, client, deployed, request>>

\* ... then reset_prefix_cache.
ResetPrefixCache(r) ==
  /\ Reloading(r, "reset") /\ replica[r].server = "up"
  /\ reload' = [reload EXCEPT ![r] = [pc |-> "done", tries |-> 0]]
  /\ UNCHANGED <<routerVars, messages, replica, expected, hot, client, deployed, request>>

\* apost() fails, perhaps after the server has done its work, and is tried again
\* or, the third time, raises out of gather().
Retry(r) ==
  /\ Reloading(r, "rpc") \/ Reloading(r, "reset")
  /\ (Reloading(r, "rpc") /\ Loads(r)) \/ UNCHANGED replica
  /\ IF reload[r].tries < ForTimes
     THEN reload' = [reload EXCEPT ![r].tries = @ + 1] /\ UNCHANGED client
     ELSE Goes("raised", client.stage) /\ reload' = NoReload
  /\ UNCHANGED <<routerVars, messages, expected, hot, deployed, request>>

\* gather() has the results of all; the last wait follows.
Gathered ==
  /\ client.pc = "reload" /\ \A r \in Replicas : reload[r].pc \in {"none", "done"}
  /\ reload' = NoReload
  /\ Goes("expect", "last")
  /\ UNCHANGED <<routerVars, messages, replica, expected, hot, deployed, request>>

-----------------------------------------------------------------------------
(* Requests through the router.                                            *)

\* The proxy chooses the endpoint.
Route(q) ==
  /\ request[q].pc = "idle"
  /\ \E r \in Replicas :
       /\ SelectEndpoint(r)
       /\ request' = [request EXCEPT ![q] =
                        [pc |-> "routed", to |-> {r}, since |-> deployed, from |-> 0]]
  /\ UNCHANGED <<messages, replica, expected, deployVars>>

\* The server starts with the weights it has.
Start(q) ==
  /\ request[q].pc = "routed"
  /\ \E r \in request[q].to :
       /\ replica[r].server = "up"
       /\ request' = [request EXCEPT ![q].pc = "running", ![q].from = replica[r].version]
  /\ UNCHANGED <<routerVars, messages, replica, expected, deployVars>>

\* It answers, or it or the connection fails and the proxy says 502.
Return(q) ==
  /\ request[q].pc \in {"routed", "running"}
  /\ request' = [request EXCEPT ![q] = [pc |-> "idle", to |-> {}, since |-> 0, from |-> 0]]
  /\ UNCHANGED <<routerVars, messages, replica, expected, deployVars>>

-----------------------------------------------------------------------------
Controller(r) ==
  \/ ServerUp(r) \/ ServerEnds(r) \/ Healthy(r) \/ Publish(r) \/ Register(r)
  \/ Shutdown(r) \/ Terminate(r)

Router == MessageLost \/ \E r \in Replicas : RouterRegister(r) \/ RouterUnregister(r)

Client ==
  \/ Dump \/ Expect \/ GetInfo \/ ServerAlive \/ NotAlive \/ TimeOut \/ Gathered
  \/ \E r \in Replicas : ReloadWeights(r) \/ ResetPrefixCache(r) \/ Retry(r)

Next ==
  \/ \E r \in Replicas : Controller(r)
  \/ Router \/ Client
  \/ \E q \in Requests : Route(q) \/ Start(q) \/ Return(q)

Spec == Init /\ [][Next]_vars
-----------------------------------------------------------------------------
\* A request that the router chose a server for after a deployment had returned
\* is generated by the weights of that deployment or newer ones, although servers
\* register late, end, and answer the retried calls late or never.
FreshAnswers ==
  \A q \in Requests : request[q].pc = "running" => request[q].from >= request[q].since
===============================================================================
