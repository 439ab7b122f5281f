---------------------------- MODULE GatewayServer ----------------------------
(***************************************************************************)
(* The gateway process (gatewayapp.Run, server.Serve) beside the           *)
(* publications into its recovery repository: it opens the store and the   *)
(* active artifact, accepts connections up to its limit, serves each in a  *)
(* goroutine of its own, and on a signal, or when accepting fails, waits   *)
(* for those goroutines before it closes the store.                        *)
(***************************************************************************)
EXTENDS RecoveryRepository, Integers

CONSTANTS Workers,         \* goroutines that serve a connection
          MaxConnections   \* server.Config.MaxConnections

ASSUME ConnectionsAssumption == MaxConnections \in Nat \ {0}

VARIABLES gateway,       \* Run: its step, the active artifact, its context
          listener,      \* the listener is open
          store,         \* the process holds the store open
          connections,   \* tokens in Serve's channel of connections
          worker         \* goroutine -> its step, and its connection is open

serverVars == <<gateway, listener, store, connections, worker>>
gatewayVars == <<repositoryVars, serverVars>>

NoWorker == [pc |-> "none", open |-> FALSE]
Off(g) == [g EXCEPT !.pc = "off", !.cancelled = FALSE]

GatewayInit ==
    /\ RepositoryInit
    /\ gateway \in [pc : {"off"}, active : Digests, cancelled : {FALSE}]
    /\ listener = FALSE /\ store = FALSE /\ connections = 0
    /\ worker = [w \in Workers |-> NoWorker]

-----------------------------------------------------------------------------
(* Run                                                                     *)

(* store.Open, the first thing that outlives a failure.                    *)
OpenStore ==
    /\ gateway.pc = "off"
    /\ store' = TRUE
    /\ \E d \in Digests : gateway' = [pc |-> "build", active |-> d, cancelled |-> FALSE]
    /\ UNCHANGED <<repositoryVars, listener, connections, worker>>

(* The handlers are built; newRecoveryService opens the active artifact.   *)
artifact_unchecked ==
    /\ gateway.pc = "build"
    /\ gateway' = [gateway EXCEPT !.pc = "listen"]
    /\ UNCHANGED <<repositoryVars, listener, store, connections, worker>>

ConfiguredHandlers ==
    /\ gateway.pc = "build"
    /\ OpenArtifact(gateway.active) = "OK"
    /\ gateway' = [gateway EXCEPT !.pc = "listen"]
    /\ UNCHANGED <<repositoryVars, listener, store, connections, worker>>

(* A handler, server.New or net.Listen fails: cleanup closes the store.    *)
StartFails ==
    /\ gateway.pc \in {"build", "listen"}
    /\ gateway' = Off(gateway)
    /\ store' = FALSE
    /\ UNCHANGED <<repositoryVars, listener, connections, worker>>

Listen ==
    /\ gateway.pc = "listen"
    /\ gateway' = [gateway EXCEPT !.pc = "accept"]
    /\ listener' = TRUE
    /\ UNCHANGED <<repositoryVars, store, connections, worker>>

(* SIGINT or SIGTERM cancels the context at any time.                      *)
Signal ==
    /\ gateway.pc # "off" /\ ~gateway.cancelled
    /\ gateway' = [gateway EXCEPT !.cancelled = TRUE]
    /\ UNCHANGED <<repositoryVars, listener, store, connections, worker>>

(* Serve's own goroutine.                                                  *)
CloseListener ==
    /\ gateway.pc \in {"accept", "wait"} /\ gateway.cancelled /\ listener
    /\ listener' = FALSE
    /\ UNCHANGED <<repositoryVars, gateway, store, connections, worker>>

(* A connection beyond the limit is closed at once, which changes nothing. *)
Accept(w) ==
    /\ gateway.pc = "accept" /\ listener
    /\ worker[w] = NoWorker /\ connections < MaxConnections
    /\ connections' = connections + 1
    /\ worker' = [worker EXCEPT ![w] = [pc |-> "handshake", open |-> TRUE]]
    /\ UNCHANGED <<repositoryVars, gateway, listener, store>>

AcceptReturns ==
    /\ gateway' = [gateway EXCEPT !.pc = "wait"]
    /\ UNCHANGED <<repositoryVars, listener, store, connections, worker>>
ListenerClosed == gateway.pc = "accept" /\ ~listener /\ AcceptReturns
AcceptFails == gateway.pc = "accept" /\ listener /\ AcceptReturns

(* workers.Wait() has returned; then the deferred calls of Serve and Run.  *)
not_awaited == gateway.pc = "wait"
Awaited == gateway.pc = "wait" /\ \A w \in Workers : worker[w] = NoWorker

Returned ==
    /\ Awaited
    /\ gateway' = Off(gateway)
    /\ listener' = FALSE /\ store' = FALSE
    /\ UNCHANGED <<repositoryVars, connections, worker>>

-----------------------------------------------------------------------------
(* serveConnection                                                         *)

In(w, pc) == worker[w].pc = pc
Step(w, pc) ==
    /\ worker' = [worker EXCEPT ![w].pc = pc]
    /\ UNCHANGED <<repositoryVars, gateway, listener, store, connections>>

(* The goroutine beside each connection closes it when the context ends.   *)
connection_left_open(w) == FALSE
ContextDone(w) == gateway.cancelled /\ worker[w].open

CloseConnection(w) ==
    /\ ContextDone(w)
    /\ worker' = [worker EXCEPT ![w].open = FALSE]
    /\ UNCHANGED <<repositoryVars, gateway, listener, store, connections>>

(* Handshake and every read have a deadline; either may also fail.         *)
Handshake(w) == In(w, "handshake") /\ worker[w].open /\ Step(w, "read")
ReadFails(w) == worker[w].pc \in {"handshake", "read"} /\ Step(w, "end")

(* readConnectionFrame returns a request, which may have been in the       *)
(* reader's buffer when the connection was closed.  One for a service      *)
(* without a handler is answered with an error, which changes nothing, or  *)
(* cannot be answered, which ends the connection as a failing read does.   *)
Frame(w) == In(w, "read") /\ Step(w, "lookup")

(* The handler looks the host up in the store: a refusal, a recovery       *)
(* request, or one of another service.                                     *)
Lookup(w) == In(w, "lookup") /\ \E pc \in {"error", "artifact", "answer"} : Step(w, pc)

(* Manifest and handleArtifact open the artifact again for each request.   *)
Open(w) ==
    /\ In(w, "artifact")
    /\ Step(w, IF OpenArtifact(gateway.active) = "OK" THEN "answer" ELSE "error")

(* The handler's answer, which may take many records and acknowledgements; *)
(* transferTimeout and the deadlines of the stream bound it.               *)
Answer(w) ==
    /\ In(w, "answer")
    /\ \/ worker[w].open /\ Step(w, "read")
       \/ Step(w, "error")

(* sendError, unless the context has ended.                                *)
SendError(w) ==
    /\ In(w, "error")
    /\ \/ ~gateway.cancelled /\ worker[w].open /\ Step(w, "read")
       \/ Step(w, "end")

(* The deferred calls: the connection is closed, the token returned, and   *)
(* then workers.Done().                                                    *)
Release(w) ==
    /\ In(w, "end")
    /\ worker' = [worker EXCEPT ![w] = [pc |-> "released", open |-> FALSE]]
    /\ connections' = connections - 1
    /\ UNCHANGED <<repositoryVars, gateway, listener, store>>

Done(w) ==
    /\ In(w, "released")
    /\ worker' = [worker EXCEPT ![w] = NoWorker]
    /\ UNCHANGED <<repositoryVars, gateway, listener, store, connections>>

serveConnection(w) ==
    \/ Handshake(w) \/ ReadFails(w) \/ Frame(w) \/ Lookup(w) \/ Open(w) \/ Answer(w)
    \/ SendError(w) \/ Release(w) \/ Done(w)

-----------------------------------------------------------------------------
Publishing == (\E p \in Publishers : Publish(p)) /\ UNCHANGED serverVars

(* Power is lost for publications and gateway alike.                       *)
MachineStops ==
    /\ PowerCut
    /\ gateway' = Off(gateway)
    /\ listener' = FALSE /\ store' = FALSE /\ connections' = 0
    /\ worker' = [w \in Workers |-> NoWorker]

Main == ConfiguredHandlers \/ StartFails \/ Listen \/ ListenerClosed \/ Returned

GatewayNext ==
    \/ OpenStore \/ Main \/ Signal \/ CloseListener \/ AcceptFails
    \/ \E w \in Workers : Accept(w) \/ CloseConnection(w) \/ serveConnection(w)
    \/ Publishing \/ MachineStops

GatewaySpec ==
    /\ GatewayInit /\ [][GatewayNext]_gatewayVars
    /\ WF_gatewayVars(Main) /\ WF_gatewayVars(CloseListener)
    /\ \A w \in Workers : WF_gatewayVars(CloseConnection(w)) /\ WF_gatewayVars(serveConnection(w))

-----------------------------------------------------------------------------
(* The artifact a gateway was started with can be opened for as long as it *)
(* runs: publications of it that start, fail or are repeated meanwhile do  *)
(* not make a request fail.                                                *)
ActiveStaysOpen ==
    gateway.pc \in {"listen", "accept", "wait"} => OpenArtifact(gateway.active) = "OK"

(* No handler runs on a closed store: Serve returns, and Run closes it,    *)
(* only when every goroutine is done, also those that have given their     *)
(* place to the next connection; and a gateway that is not running does    *)
(* not keep the store's lock from pbnsctl.                                 *)
StoreOutlivesHandlers ==
    /\ \A w \in Workers : worker[w].pc \in {"lookup", "artifact", "answer"} => store
    /\ gateway.pc = "off" => ~store /\ ~listener

(* A signal ends the gateway whatever its clients do.  When accepting      *)
(* failed by itself nobody closes the connections that are there: then     *)
(* Serve returns once the clients fall silent, and a client that goes on   *)
(* sending requests can keep it from returning.                            *)
Requests == \E w \in Workers : Frame(w)
ServeReturns ==
    /\ gateway.cancelled ~> gateway.pc = "off"
    /\ (<>[][~Requests]_gatewayVars) => (gateway.pc = "wait" ~> gateway.pc = "off")
=============================================================================
