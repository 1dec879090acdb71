------------------------------- MODULE Server -------------------------------
(***************************************************************************)
(* The life of one process: cmd/server/main.go with the configuration it   *)
(* loads and refuses (internal/config), the gRPC server and its shutdown   *)
(* (internal/platform/grpcutil), the HTTP server, the log sinks            *)
(* (internal/platform/logger), and the requests that are under way while   *)
(* all of that happens.                                                    *)
(*                                                                         *)
(* The main goroutine is the variable phase; the two serving goroutines,   *)
(* the requests, the signal and the timer of the shutdown are actions that *)
(* interleave with it.                                                     *)
(***************************************************************************)
EXTENDS Surface, Naturals

CONSTANTS
  Envs,      \* the environments a process may be started in
  Workloads, \* bound: the sets of requests that may come in one life of a process
  Slots,     \* bound: requests, 1..n, each slot being used once and in order
  Results,   \* what the services return
  Expired,   \* the tokens that have expired
  Ended      \* the tokens of sessions that have ended elsewhere

ASSUME ServerAssumption == Slots \subseteq Nat /\ Results \subseteq Outcomes

\* What comes is a request of one of the routes, or one outside them, or a call.
ASSUME CallsAssumption ==
  \A call \in UNION Workloads :
    \/ call.port = "grpc"
    \/ call.port = "http" /\ call.op \in DOMAIN routes \cup {"health", "swagger"}

VARIABLES
  env,
  load,      \* the requests that come
  phase,     \* where the main goroutine is
  cause,     \* why it is on its way out
  code,      \* its exit status
  grpc, http,  \* the listeners
  health,    \* what the gRPC health service reports
  errCh,     \* the servers that failed
  stop,      \* a signal has been delivered
  deadline,  \* the 20 seconds of the shutdown are over
  remote,    \* the client of the authentication service
  sink,      \* the Fluentd handler
  stdout, collector,  \* the messages that got to either
  req        \* the requests

serverVars == <<env, load, phase, cause, code, grpc, http, health, errCh, stop, deadline,
                remote, sink, stdout, collector, req>>

Idle == [stage |-> "idle"]
Phases == {"load", "log", "connect", "task", "seed", "verify", "wire", "started", "wait",
           "grpcStop", "httpStop", "close", "main", "exit"}
\* Signals are delivered to the channel, and the serving goroutines have been
\* started: the two on either side of Notify.
Notified == \/ phase \in {"wait", "grpcStop", "httpStop"}
            \/ phase \in {"close", "main"} /\ cause \in {"listener", "signal"}
Started == phase = "started" \/ Notified
InFlight(s) == req[s].stage \in {"accepted", "running"}
Under(port) == {s \in Slots : InFlight(s) /\ req[s].port = port}

Init ==
  /\ env \in Envs /\ load = {}
  /\ phase = "load" /\ cause = "none" /\ code = 0
  /\ grpc = "off" /\ http = "off" /\ health = "SERVING"
  /\ errCh = {} /\ stop = FALSE /\ deadline = FALSE
  /\ remote = "none" /\ sink = "none" /\ stdout = {} /\ collector = {}
  /\ req = [s \in Slots |-> Idle]

-----------------------------------------------------------------------------
(***************************************************************************)
(* Configuration.  A list in the environment is the set of its parts, the  *)
(* ones of spaces included.                                                *)
(***************************************************************************)
\* The parts as they are.
splitOrKeeping(parts) == parts
\* Parts that are empty, or of spaces, are left out.
splitOr(parts) == parts \ {Blank, None}

isProductionEnv(environment) == environment \in {"production", "prod", "Prod"}

\* Everything Load asks for is there.
Load(e) ==
  /\ e.uri # "unset" \/ e.environment = "development"
  /\ e.serviceToken
  /\ splitOr(e.accepted) # {}
  /\ splitOr(e.origins) # {}

legacyDatabases == {"prod", "test", "local"}

\* Case and surrounding spaces do not make a name another one; a name that is
\* empty is replaced, one of spaces is not.
envOr(value, fallback) == IF value = "" THEN fallback ELSE value
lowerDB(e) ==
  LET name == envOr(e.database, "karlo_masterdata") IN
  CASE name \in {"Prod", " prod "} -> "prod" [] name = "  " -> "" [] OTHER -> name

databaseFromURI(uri) == IF uri = "legacyPath" THEN "prod" ELSE ""

guardTarget(e) ==
  /\ e.uri # "legacyHost"
  /\ lowerDB(e) \notin legacyDatabases
  /\ databaseFromURI(e.uri) \notin legacyDatabases
  /\ lowerDB(e) # ""

-----------------------------------------------------------------------------
(***************************************************************************)
(* Logging.  A message goes to standard output, and to the collector while *)
(* its handler is open and its buffer has room.                            *)
(***************************************************************************)
parseLevel(e) == CASE e.level = "debug" -> 0 [] e.level = "warn" -> 2
                   [] e.level = "error" -> 3 [] OTHER -> 1

\* fanoutHandler: one sink failing, its buffer being full, does not stop the
\* other.
Log(message, level) ==
  LET said(lines) == IF level >= parseLevel(env) THEN lines \cup {message} ELSE lines IN
  /\ stdout' = said(stdout)
  /\ collector' \in {collector} \cup {said(collector) : open \in {sink} \cap {"open"}}

\* InitFromEnv: a collector that cannot be reached is done without.
InitFromEnv(e) == IF e.fluentd = "up" THEN "open" ELSE "none"

-----------------------------------------------------------------------------
(***************************************************************************)
(* The main goroutine.                                                     *)
(***************************************************************************)
\* run returns: the deferred calls are next.
Return(why, status) == phase' = "close" /\ cause' = why /\ code' = status

LoadConfig ==
  /\ phase = "load"
  /\ \/ /\ Load(env)
        /\ phase' = "log"
        /\ UNCHANGED <<cause, code>>
     \/ /\ ~Load(env)
        /\ phase' = "main" /\ cause' = "config" /\ code' = 1   \* nothing is deferred yet
  /\ UNCHANGED <<env, load, grpc, http, health, errCh, stop, deadline, remote, sink, stdout,
                 collector, req>>

InitLogger ==
  /\ phase = "log"
  /\ sink' = InitFromEnv(env)
  /\ phase' = "connect"
  /\ UNCHANGED <<env, load, cause, code, grpc, http, health, errCh, stop, deadline, remote, stdout,
                 collector, req>>

\* A refused target is never dialled; one that is dialled may not answer.
ConnectMongo ==
  /\ phase = "connect"
  /\ \/ /\ guardTarget(env)
        /\ phase' = "task"
        /\ UNCHANGED <<cause, code>>
     \/ guardTarget(env) /\ Return("unreachable", 1)
     \/ ~guardTarget(env) /\ Return("refused", 1)
  /\ UNCHANGED <<env, load, grpc, http, health, errCh, stop, deadline, remote, sink, stdout,
                 collector, req>>

\* One binary: an argument selects the seeding task.
ChooseTask ==
  /\ phase = "task"
  /\ phase' = IF "seed" \in env.args THEN "seed" ELSE "verify"
  /\ UNCHANGED <<env, load, cause, code, grpc, http, health, errCh, stop, deadline, remote, sink,
                 stdout, collector, req>>

NewVerifierFromEnv ==
  /\ phase = "verify"
  /\ \/ env.key = "good" /\ phase' = "wire" /\ UNCHANGED <<cause, code>>
     \/ env.key # "good" /\ Return("key", 1)
  /\ UNCHANGED <<env, load, grpc, http, health, errCh, stop, deadline, remote, sink, stdout,
                 collector, req>>

\* Everything is put together and the serving goroutines are started.  Routes
\* panic on a list of proxies they cannot parse, which ends the process with
\* the deferred calls made.
PutTogether ==
  /\ phase = "wire"
  /\ remote' = IF env.auth THEN "open" ELSE "none"
  /\ \/ env.proxies # "bad" /\ phase' = "started" /\ load' \in Workloads /\ UNCHANGED <<cause, code>>
     \/ env.proxies = "bad" /\ Return("panic", 2) /\ UNCHANGED load
  /\ UNCHANGED <<env, grpc, http, health, errCh, stop, deadline, sink, stdout, collector, req>>

Notify ==
  /\ phase = "started"
  /\ phase' = "wait"
  /\ UNCHANGED <<env, load, cause, code, grpc, http, health, errCh, stop, deadline, remote, sink,
                 stdout, collector, req>>

\* A server that failed ends the process at once: nothing is drained.
ServerFailed ==
  /\ phase = "wait"
  /\ errCh # {}
  /\ Return("listener", 1)
  /\ UNCHANGED <<env, load, grpc, http, health, errCh, stop, deadline, remote, sink, stdout,
                 collector, req>>

StopGrpc(newGrpc) ==
  /\ phase = "wait"
  /\ stop
  /\ phase' = "grpcStop" /\ cause' = "signal"
  /\ health' = "NOT_SERVING"
  /\ grpc' = IF grpc = "off" THEN "unserved" ELSE newGrpc
  /\ Log("shutting down", 1)

\* Calls under way are not waited for.
BeginShutdownHard ==
  /\ StopGrpc("stopped")
  /\ req' = [s \in Slots |-> IF s \in Under("grpc") THEN [req[s] EXCEPT !.stage = "cut"]
                                                     ELSE req[s]]
  /\ UNCHANGED <<env, load, code, http, errCh, stop, deadline, remote, sink>>

\* The signal: gRPC takes no more calls, HTTP does.
BeginShutdown ==
  /\ StopGrpc("draining")
  /\ UNCHANGED <<env, load, code, http, errCh, stop, deadline, remote, sink, req>>

\* GracefulStop has returned, and HTTP is next, with what is left of the time.
GrpcDrained ==
  /\ phase = "grpcStop"
  /\ Under("grpc") = {}
  /\ grpc' = (IF grpc = "unserved" THEN grpc ELSE "stopped")
  /\ http' = "draining" /\ phase' = "httpStop"
  /\ UNCHANGED <<env, load, cause, code, health, errCh, stop, deadline, remote, sink, stdout,
                 collector, req>>

\* The deadline is noted and GracefulStop still waited for.
GrpcForcedLate == GrpcDrained /\ deadline

\* The deadline: what is still under way is cut off.
GrpcForced ==
  /\ phase = "grpcStop"
  /\ deadline
  /\ grpc' = (IF grpc = "unserved" THEN grpc ELSE "stopped")
  /\ http' = "draining" /\ phase' = "httpStop"
  /\ req' = [s \in Slots |-> IF s \in Under("grpc") THEN [req[s] EXCEPT !.stage = "cut"]
                                                     ELSE req[s]]
  /\ Log("forced", 2)
  /\ UNCHANGED <<env, load, cause, code, health, errCh, stop, deadline, remote, sink>>

\* Shutdown returns when no request is under way, and with an error when the
\* time is up.
HttpDrained ==
  /\ phase = "httpStop"
  /\ Under("http") = {}
  /\ http' = "stopped"
  /\ Return("signal", 0)
  /\ UNCHANGED <<env, load, grpc, health, errCh, stop, deadline, remote, sink, stdout, collector, req>>

HttpForced ==
  /\ phase = "httpStop"
  /\ deadline /\ Under("http") # {}
  /\ http' = "stopped"
  /\ Return("signal", 1)
  /\ UNCHANGED <<env, load, grpc, health, errCh, stop, deadline, remote, sink, stdout, collector, req>>

\* The deferred calls: the cache, the authentication client, the log sinks.
Close ==
  /\ phase = "close"
  /\ remote' = IF remote = "open" THEN "closed" ELSE remote
  /\ sink' = IF sink = "open" THEN "closed" ELSE sink
  /\ phase' = "main"
  /\ UNCHANGED <<env, load, cause, code, grpc, http, health, errCh, stop, deadline, stdout,
                 collector, req>>

Gone == [s \in Slots |-> IF InFlight(s) THEN [req[s] EXCEPT !.stage = "cut"] ELSE req[s]]

\* main logs an error that run returned; the process goes, and everything
\* under way with it.
Exit ==
  /\ phase = "main"
  /\ phase' = "exit"
  /\ \/ code = 1 /\ Log("fatal", 3)
     \/ code # 1 /\ UNCHANGED <<stdout, collector>>
  /\ req' = Gone
  /\ grpc' = "stopped" /\ http' = "stopped"
  /\ UNCHANGED <<env, load, cause, code, health, errCh, stop, deadline, remote, sink>>

-----------------------------------------------------------------------------
(***************************************************************************)
(* What goes on beside it.                                                 *)
(***************************************************************************)
\* The goroutine of the gRPC server, which may run as late as during the
\* shutdown: a server that was stopped reports that it serves, and does not.
ServeGrpc ==
  /\ Started
  /\ \/ /\ grpc = "off" /\ grpc' = "on" /\ health' = "SERVING" /\ UNCHANGED errCh
     \/ /\ grpc = "unserved" /\ grpc' = "stopped" /\ health' = "SERVING"
        /\ errCh' = errCh \cup {"grpc"}
     \/ /\ grpc \in {"off", "on"} /\ grpc' = "failed"
        /\ errCh' = errCh \cup {"grpc"} /\ UNCHANGED health
  /\ UNCHANGED <<env, load, phase, cause, code, http, stop, deadline, remote, sink, stdout,
                 collector, req>>

ListenAndServe ==
  /\ Started
  /\ \/ http = "off" /\ http' = "on" /\ UNCHANGED errCh
     \/ http \in {"off", "on"} /\ http' = "failed" /\ errCh' = errCh \cup {"http"}
  /\ UNCHANGED <<env, load, phase, cause, code, grpc, health, stop, deadline, remote, sink, stdout,
                 collector, req>>

\* A signal before Notify has the default effect; afterwards it is delivered
\* to the channel, where one has room.
Signal ==
  /\ phase # "exit"
  /\ ~stop
  /\ stop' = TRUE
  /\ IF Notified
     THEN UNCHANGED <<phase, cause, code, grpc, http, req>>
     ELSE /\ phase' = "exit" /\ cause' = "killed" /\ code' = 143
          /\ req' = Gone
          /\ grpc' = "stopped" /\ http' = "stopped"
  /\ UNCHANGED <<env, load, health, errCh, deadline, remote, sink, stdout, collector>>

\* context.WithTimeout.
Deadline ==
  /\ phase \in {"grpcStop", "httpStop"}
  /\ ~deadline
  /\ deadline' = TRUE
  /\ UNCHANGED <<env, load, phase, cause, code, grpc, http, health, errCh, stop, remote, sink,
                 stdout, collector, req>>

-----------------------------------------------------------------------------
(***************************************************************************)
(* The requests.                                                           *)
(***************************************************************************)
requestsOnly == <<env, load, phase, cause, code, grpc, http, health, errCh, stop, deadline, remote,
                  sink, stdout, collector>>

Arrived(call) == [port |-> call.port, stage |-> "accepted", call |-> call,
                        for |-> None, answer |-> 0, logged |-> FALSE]
Answered(s, answer, logged) ==
  req' = [req EXCEPT ![s].stage = "answered", ![s].answer = answer, ![s].logged = logged]

\* HTTP is accepted while gRPC drains.
Accept(s) ==
  /\ Started /\ req[s] = Idle /\ \A r \in Slots : r < s => req[r] # Idle
  /\ \E call \in load : /\ \/ call.port = "http" /\ http = "on"
                           \/ call.port = "grpc" /\ grpc = "on"
                        /\ req' = [req EXCEPT ![s] = Arrived(call)]
  /\ UNCHANGED requestsOnly

\* RequireAuth: a client that is not there, or was closed beneath the request,
\* settles nothing, and one that is may get no answer.
Authenticates(t, reached) ==
  \/ Verifies(t, Expired) /\ ~PrincipalOf[t].singleDevice
  \/ remote = "open" /\ reached /\ RequireAuth(t, Expired, Ended)

Bypasses == {"health", "swagger"}

\* The gate of an HTTP request.  The line of a health check that succeeds is
\* left out.
AdmitHTTP(s) ==
  /\ phase # "exit" /\ req[s].stage = "accepted" /\ req[s].port = "http"
  /\ LET call == req[s].call IN
     \/ call.op \in Bypasses /\ Answered(s, 200, call.op # "health")
     \/ /\ call.op \notin Bypasses
        /\ \E reached \in BOOLEAN :
             LET refused == refusal(call, Authenticates(call.token, reached)) IN
             \/ refused # 0 /\ Answered(s, refused, TRUE)
             \/ /\ refused = 0
                /\ \E company \in Scope(call.op, call.token, call.header) :
                     req' = [req EXCEPT ![s].stage = "running", ![s].for = company]
  /\ UNCHANGED requestsOnly

\* The gate of a call.  Reflection is a stream, which the interceptor of
\* single calls does not see; it is there outside production only.
AdmitRPC(s) ==
  /\ phase # "exit" /\ req[s].stage = "accepted" /\ req[s].port = "grpc"
  /\ LET call == req[s].call
         through == IF call.method = "Reflection" THEN ~isProductionEnv(env.environment)
                    ELSE UnaryServerInterceptor(call, splitOr(env.accepted)) IN
     \/ ~through /\ Answered(s, IF call.method = "Reflection" THEN "Unimplemented"
                                ELSE "Unauthenticated", TRUE)
     \/ through /\ req' = [req EXCEPT ![s].stage = "running", ![s].for = callFor(call)]
  /\ UNCHANGED requestsOnly

\* The service answers.
Finish(s) ==
  /\ phase # "exit" /\ req[s].stage = "running"
  /\ \E err \in Results :
       Answered(s, IF req[s].port = "http" THEN response(req[s].call.op, err)
                   ELSE rpcAnswer(req[s].call, err), TRUE)
  /\ UNCHANGED requestsOnly

\* A handler panics.  Recovery is outside the logging on either side, so the
\* request leaves no line of its own.
Panic(s) ==
  /\ phase # "exit" /\ req[s].stage = "running"
  /\ Answered(s, IF req[s].port = "http" THEN 500 ELSE "Internal", FALSE)
  /\ UNCHANGED requestsOnly

Main ==
  \/ LoadConfig \/ InitLogger \/ ConnectMongo \/ ChooseTask \/ NewVerifierFromEnv \/ PutTogether
  \/ Notify \/ ServerFailed \/ BeginShutdown \/ GrpcDrained \/ GrpcForced
  \/ HttpDrained \/ HttpForced \/ Close \/ Exit

Beside == ServeGrpc \/ ListenAndServe \/ Signal \/ Deadline

Request(s) ==
  Accept(s) \/ AdmitHTTP(s) \/ AdmitRPC(s) \/ Finish(s) \/ Panic(s)

ServerNext == Main \/ Beside \/ \E s \in Slots : Request(s)
ServerSpec == Init /\ [][ServerNext]_serverVars

-----------------------------------------------------------------------------
(***************************************************************************)
(* What must hold.                                                         *)
(***************************************************************************)
\* It got through the gate.
Ran(s) == req[s] # Idle /\ req[s].for # None

\* No call runs for somebody who is not a service, whatever the environment:
\* there is no configuration in which the port is open, and reflection is not
\* served in production (UnaryServerInterceptor: "the gRPC ports are for
\* services, not for the public"; Load refuses an empty list).
NeverOpen ==
  \A s \in Slots : Ran(s) /\ req[s].port = "grpc" =>
    \/ req[s].call.method \in healthChecks
    \/ req[s].call.method = "Reflection" /\ ~isProductionEnv(env.environment)
    \/ req[s].call.serviceToken \in env.accepted \ {Blank, None}

\* A request acts for the caller's own company, whose product and entitlement
\* cover it, or the caller is staff (caller, trackerScope, RequireAnyOf).
ActsWithinScope ==
  \A s \in Slots : Ran(s) /\ req[s].port = "http" =>
    LET p == PrincipalOf[req[s].call.token] IN
    \/ p.staff
    \/ /\ req[s].call.op = "Kinds" \/ req[s].for = p.company
       /\ \E product \in DOMAIN p.access : \E key \in Keys(product) :
            /\ <<product, key>> \in routes[req[s].call.op]
            /\ FeatureFor(product, key) \in p.access[product].features \cup {None}

\* After a signal a request is cut off only once the 20 seconds are over
\* (Shutdown: "waiting for in-flight calls up to the context deadline").
NoneCutEarly ==
  cause = "signal" => \A s \in Slots : req[s].stage = "cut" => deadline

\* A signal ends the process, whatever its requests do.
ShutdownEnds == phase = "wait" /\ stop ~> phase = "exit"
=============================================================================
