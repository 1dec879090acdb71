-------------------------- MODULE DeploymentProofs --------------------------
(***************************************************************************)
(* What holds of the deployed binary in every environment, for any traffic,*)
(* any principals and any number of requests: the gRPC port is never open, *)
(* a request acts within its caller's scope, a signal cuts nothing off     *)
(* before the deadline, and documents keep the one owner they have.        *)
(*                                                                         *)
(* Every step of the system does one of a few things to a request: it      *)
(* comes, it is let in, it is answered, or it is cut off.  Moves says so   *)
(* once, with what the gates saw of a request they let in; the invariants  *)
(* below it look at that and no longer at the actions that touch requests. *)
(***************************************************************************)
EXTENDS Deployment, SequenceTheorems, TLAPS

Fields == {"port", "stage", "call", "for", "answer", "logged"}

Shape(x) ==
  /\ DOMAIN x = Fields
  /\ x.call \in UNION Workloads /\ x.port = x.call.port
  /\ x.stage \in {"accepted", "running", "answered", "cut"}
  /\ x.stage = "accepted" => x.for = None

ReqShape ==
  /\ load \in Workloads \cup {{}}
  /\ DOMAIN req = Slots
  /\ \A s \in Slots : req[s] = Idle \/ Shape(req[s])

\* What does not change of a request once it has come.
Kept(s) == req'[s].port = req[s].port /\ req'[s].call = req[s].call

Comes(s) ==
  /\ Started /\ req[s] = Idle
  /\ req'[s].stage = "accepted"
  /\ \/ req'[s].port = "http" /\ http = "on"
     \/ req'[s].port = "grpc" /\ grpc = "on"

LetIn(s) ==
  /\ req[s] # Idle /\ req[s].stage = "accepted" /\ req'[s].stage = "running" /\ Kept(s)
  /\ LET call == req[s].call IN
     \/ /\ req[s].port = "grpc"
        /\ IF call.method = "Reflection" THEN ~isProductionEnv(env.environment)
           ELSE UnaryServerInterceptor(call, splitOr(env.accepted))
     \/ /\ req[s].port = "http" /\ call.op \notin Bypasses
        /\ RequireAnyOf(call.token, call.op)
        /\ req'[s].for \in Scope(call.op, call.token, call.header)
  /\ env' = env /\ phase' = phase /\ held' = held /\ docs' = docs

IsAnswered(s) ==
  /\ req[s] # Idle /\ InFlight(s) /\ req'[s].stage = "answered" /\ Kept(s)
  /\ req'[s].for = req[s].for

\* When a request may be cut off.
Late(s) == (phase # "exit" /\ phase' = "exit") \/ (deadline /\ deadline' /\ req[s].port = "grpc")

IsCut(s) ==
  /\ req[s] # Idle /\ InFlight(s) /\ req'[s].stage = "cut" /\ Kept(s)
  /\ req'[s].for = req[s].for
  /\ Late(s)

Move(s) == req'[s] = req[s] \/ Comes(s) \/ LetIn(s) \/ IsAnswered(s) \/ IsCut(s)
AllMove == ReqShape' /\ \A s \in Slots : Move(s)

LEMMA ShapeIsNotIdle == ASSUME NEW x, Shape(x) PROVE x # Idle
<1>1. DOMAIN Idle = {"stage"}
  BY DEF Idle
<1>2. "port" \in DOMAIN x
  BY DEF Shape, Fields
<1> QED
  BY <1>1, <1>2

LEMMA SameMove ==
  ASSUME ReqShape, req' = req, load' = load
  PROVE  AllMove
BY DEF AllMove, Move, ReqShape

LEMMA AnsweredMove ==
  ASSUME ReqShape, NEW s \in Slots, req[s] # Idle, InFlight(s), load' = load,
         NEW a, NEW l, Answered(s, a, l)
  PROVE  AllMove
<1>1. Shape(req[s])
  BY DEF ReqShape
<1>2. /\ DOMAIN req' = Slots
      /\ \A r \in Slots \ {s} : req'[r] = req[r]
      /\ req'[s] = [req[s] EXCEPT !.stage = "answered", !.answer = a, !.logged = l]
  BY DEF ReqShape, Answered
<1>3. /\ Shape(req'[s])
      /\ Kept(s) /\ req'[s].stage = "answered" /\ req'[s].for = req[s].for
  BY <1>1, <1>2 DEF Shape, Fields, Kept
<1>4. Move(s)
  BY <1>3 DEF Move, IsAnswered
<1> QED
  BY <1>2, <1>3, <1>4 DEF AllMove, Move, ReqShape

LEMMA CutMove ==
  ASSUME ReqShape, load' = load, NEW C \in SUBSET Slots,
         \A s \in C : InFlight(s) /\ Late(s),
         req' = [s \in Slots |-> IF s \in C THEN [req[s] EXCEPT !.stage = "cut"] ELSE req[s]]
  PROVE  AllMove
<1>1. ASSUME NEW s \in Slots, s \in C
      PROVE  Shape(req'[s]) /\ Move(s)
  <2>1. InFlight(s) /\ Late(s)
    BY <1>1
  <2>2. req[s] # Idle
    BY <2>1 DEF InFlight, Idle
  <2>3. Shape(req[s])
    BY <2>2 DEF ReqShape
  <2>4. req'[s] = [req[s] EXCEPT !.stage = "cut"]
    BY <1>1
  <2>5. Shape(req'[s]) /\ Kept(s) /\ req'[s].stage = "cut" /\ req'[s].for = req[s].for
    BY <2>3, <2>4 DEF Shape, Fields, Kept
  <2> QED
    BY <2>1, <2>2, <2>5 DEF Move, IsCut
<1>2. ASSUME NEW s \in Slots, s \notin C
      PROVE  req'[s] = req[s] /\ Move(s)
  BY <1>2 DEF Move
<1>3. DOMAIN req' = Slots
  OBVIOUS
<1> HIDE DEF Move, Shape
<1> QED
  BY <1>1, <1>2, <1>3 DEF AllMove, ReqShape

LEMMA LetInMove ==
  ASSUME ReqShape, NEW s \in Slots, req[s].stage = "accepted", load' = load, NEW company,
         req' = [req EXCEPT ![s].stage = "running", ![s].for = company],
         req[s] # Idle /\ Kept(s) /\ req'[s].stage = "running" /\ req'[s].for = company => LetIn(s)
  PROVE  AllMove
<1>1. req[s] # Idle
  BY DEF Idle
<1>2. Shape(req[s])
  BY <1>1 DEF ReqShape
<1>3. /\ DOMAIN req' = Slots
      /\ \A r \in Slots \ {s} : req'[r] = req[r]
      /\ req'[s] = [req[s] EXCEPT !.stage = "running", !.for = company]
  BY DEF ReqShape
<1>4. /\ Shape(req'[s])
      /\ Kept(s) /\ req'[s].stage = "running" /\ req'[s].for = company
  BY <1>2, <1>3 DEF Shape, Fields, Kept
<1>5. Move(s)
  BY <1>1, <1>4 DEF Move
<1> QED
  BY <1>3, <1>4, <1>5 DEF AllMove, Move, ReqShape

LEMMA GoneMove ==
  ASSUME ReqShape, load' = load, phase # "exit", phase' = "exit", req' = Gone
  PROVE  AllMove
<1> DEFINE C == {s \in Slots : InFlight(s)}
<1>1. req' = [s \in Slots |-> IF s \in C THEN [req[s] EXCEPT !.stage = "cut"] ELSE req[s]]
  BY DEF Gone
<1>2. \A s \in C : InFlight(s) /\ Late(s)
  BY DEF Late
<1>3. C \in SUBSET Slots
  OBVIOUS
<1> HIDE DEF C
<1> QED
  BY <1>1, <1>2, <1>3, CutMove

\* A step of the main goroutine, of a listener, of the signal or of the timer.
LEMMA BesideMoves ==
  ASSUME ReqShape, Main \/ ServeGrpc \/ ListenAndServe \/ Deadline \/ Signal
  PROVE  AllMove
<1>1. CASE GrpcForced
  <2>1. Under("grpc") \in SUBSET Slots /\ \A s \in Under("grpc") : InFlight(s) /\ Late(s)
    BY <1>1 DEF Under, Late, GrpcForced
  <2>2. load' = load
    BY <1>1 DEF GrpcForced
  <2>3. req' = [s \in Slots |-> IF s \in Under("grpc") THEN [req[s] EXCEPT !.stage = "cut"]
                                ELSE req[s]]
    BY <1>1 DEF GrpcForced
  <2> QED
    BY <2>1, <2>2, <2>3, CutMove
<1>2. CASE Exit
  BY <1>2, GoneMove DEF Exit
<1>3. CASE Signal
  BY <1>3, GoneMove, SameMove DEF Signal
<1>4. CASE PutTogether
  BY <1>4 DEF PutTogether, Return, AllMove, Move, ReqShape
<1>5. CASE \/ LoadConfig \/ InitLogger \/ ConnectMongo \/ ChooseTask \/ NewVerifierFromEnv
           \/ Notify \/ ServerFailed \/ BeginShutdown \/ GrpcDrained
           \/ HttpDrained \/ HttpForced \/ Close \/ ServeGrpc \/ ListenAndServe \/ Deadline
  <2>1. req' = req /\ load' = load
    BY <1>5 DEF LoadConfig, InitLogger, ConnectMongo, ChooseTask, NewVerifierFromEnv, Notify,
                ServerFailed, BeginShutdown, GrpcDrained, HttpDrained, HttpForced, Close,
                ServeGrpc, ListenAndServe, Deadline
  <2> QED
    BY <2>1, SameMove
<1> QED
  BY <1>1, <1>2, <1>3, <1>4, <1>5 DEF Main

\* What the gates see of the requests they let in.
LEMMA GateMoves ==
  ASSUME ReqShape, NEW s \in Slots, UNCHANGED docVars,
         AdmitHTTP(s) \/ AdmitRPC(s)
  PROVE  AllMove
<1> DEFINE call == req[s].call
<1>1. /\ load' = load /\ env' = env /\ phase' = phase /\ held' = held /\ docs' = docs
      /\ req[s].stage = "accepted"
  BY DEF AdmitHTTP, AdmitRPC, requestsOnly, docVars
<1>2. req[s] # Idle /\ InFlight(s)
  BY <1>1 DEF Idle, InFlight
<1>3. ASSUME NEW a, NEW l, Answered(s, a, l) PROVE AllMove
  BY <1>1, <1>2, <1>3, AnsweredMove
<1>4. CASE AdmitHTTP(s)
  <2>1. CASE call.op \in Bypasses /\ Answered(s, 200, call.op # "health")
    BY <1>3, <2>1
  <2>2. ASSUME call.op \notin Bypasses, NEW reached \in BOOLEAN,
               LET refused == refusal(call, Authenticates(call.token, reached)) IN
               \/ refused # 0 /\ Answered(s, refused, TRUE)
               \/ /\ refused = 0
                  /\ \E company \in Scope(call.op, call.token, call.header) :
                       req' = [req EXCEPT ![s].stage = "running", ![s].for = company]
        PROVE  AllMove
    <3> DEFINE refused == refusal(call, Authenticates(call.token, reached))
    <3>1. CASE Answered(s, refused, TRUE)
      BY <1>3, <3>1
    <3>2. ASSUME refused = 0, NEW company \in Scope(call.op, call.token, call.header),
                 req' = [req EXCEPT ![s].stage = "running", ![s].for = company]
          PROVE  AllMove
      <4>1. RequireAnyOf(call.token, call.op)
        BY <3>2 DEF refusal
      <4>2. req[s].port = "http"
        BY <1>4 DEF AdmitHTTP
      <4> QED
        BY <1>1, <2>2, <3>2, <4>1, <4>2, LetInMove DEF LetIn
    <3> QED
      BY <2>2, <3>1, <3>2
  <2> QED
    BY <1>4, <2>1, <2>2 DEF AdmitHTTP
<1>5. CASE AdmitRPC(s)
  <2> DEFINE through == IF call.method = "Reflection" THEN ~isProductionEnv(env.environment)
                        ELSE UnaryServerInterceptor(call, splitOr(env.accepted))
  <2>1. \/ ~through /\ Answered(s, IF call.method = "Reflection" THEN "Unimplemented"
                                   ELSE "Unauthenticated", TRUE)
        \/ through /\ req' = [req EXCEPT ![s].stage = "running", ![s].for = callFor(call)]
    BY <1>5 DEF AdmitRPC
  <2>2. req[s].port = "grpc"
    BY <1>5 DEF AdmitRPC
  <2>3. CASE through /\ req' = [req EXCEPT ![s].stage = "running", ![s].for = callFor(call)]
    BY <1>1, <2>2, <2>3, LetInMove DEF LetIn
  <2> QED
    BY <1>3, <2>1, <2>3
<1> QED
  BY <1>4, <1>5

LEMMA ServeMoves ==
  ASSUME ReqShape, NEW s \in Slots, Serve(s)
  PROVE  AllMove
<1>1. CASE Accept(s)
  <2>1. PICK call \in load : /\ \/ call.port = "http" /\ http = "on"
                                \/ call.port = "grpc" /\ grpc = "on"
                             /\ req' = [req EXCEPT ![s] = Arrived(call)]
    BY <1>1 DEF Accept
  <2>2. /\ Started /\ req[s] = Idle /\ load' = load
    BY <1>1 DEF Accept, requestsOnly
  <2>3. call \in UNION Workloads
    BY <2>1 DEF ReqShape
  <2>4. /\ DOMAIN req' = Slots
        /\ \A r \in Slots \ {s} : req'[r] = req[r]
        /\ req'[s] = Arrived(call)
    BY <2>1 DEF ReqShape
  <2>5. Shape(req'[s]) /\ req'[s].stage = "accepted" /\ req'[s].port = call.port
    BY <2>3, <2>4 DEF Shape, Arrived, Fields
  <2>6. Move(s)
    BY <2>1, <2>2, <2>5 DEF Move, Comes
  <2> QED
    BY <2>2, <2>4, <2>5, <2>6 DEF AllMove, Move, ReqShape
<1>2. CASE (AdmitHTTP(s) \/ AdmitRPC(s)) /\ UNCHANGED <<seedVars, docVars>>
  BY <1>2, GateMoves
<1>3. ASSUME NEW a, NEW l, Answered(s, a, l), req[s].stage = "running", load' = load
      PROVE  AllMove
  <2>1. req[s] # Idle /\ InFlight(s)
    BY <1>3 DEF Idle, InFlight
  <2> QED
    BY <1>3, <2>1, AnsweredMove
<1>4. CASE Panic(s) \/ Finish(s)
  BY <1>3, <1>4 DEF Panic, Finish, requestsOnly
<1>5. CASE DocumentFound(s)
  BY <1>5, SameMove DEF DocumentFound, serverVars
<1>6. CASE DocumentRefused(s)
  BY <1>3, <1>6 DEF DocumentRefused, OnDocuments, requestsOnly
<1>7. CASE DocumentWritten(s)
  BY <1>3, <1>7 DEF DocumentWritten, OnDocuments, requestsOnly
<1>8. CASE DocumentFailed(s)
  BY <1>3, <1>8 DEF DocumentFailed, OnDocuments, requestsOnly
<1> QED
  BY <1>1, <1>2, <1>4, <1>5, <1>6, <1>7, <1>8 DEF Serve

\* Whatever happens, requests come, are let in, are answered or are cut off.
LEMMA Moves == ASSUME ReqShape, [Next]_vars PROVE AllMove
<1>1. CASE \/ Main \/ ServeGrpc \/ ListenAndServe \/ Deadline \/ SeedKilled
  BY <1>1, BesideMoves DEF SeedKilled
<1>2. ASSUME NEW s \in Slots, Serve(s) PROVE AllMove
  BY <1>2, ServeMoves
<1>3. CASE StartSeeding \/ Seeding \/ SeedReturns \/ Again \/ Edits \/ UNCHANGED vars
  <2>1. req' = req /\ load' = load
    BY <1>3 DEF StartSeeding, Seeding, SeedReturns, Again, Edits, vars, serverVars
  <2> QED
    BY <2>1, SameMove
<1> QED
  BY <1>1, <1>2, <1>3 DEF Next

-----------------------------------------------------------------------------
(***************************************************************************)
(* The gates.  A request in flight was let in under the configuration that *)
(* Load accepted: a process that serves was not started to seed, and so is *)
(* never started again with another environment around its requests.       *)
(***************************************************************************)
Serves == phase \in {"verify", "wire"} \/ Started \/ \E s \in Slots : req[s] # Idle

Loaded ==
  /\ phase \notin {"load", "main", "exit"} => Load(env)
  /\ Serves => Load(env) /\ "seed" \notin env.args

LEMMA LoadedStays ==
  ASSUME ReqShape, Loaded, [Next]_vars
  PROVE  Loaded'
<1> USE DEF Loaded
<1>1. AllMove
  BY Moves
<1>2. \A s \in Slots : req'[s] # Idle => req[s] # Idle \/ Started
  BY <1>1 DEF AllMove, Move, Comes, LetIn, IsAnswered, IsCut
<1>3. (\E s \in Slots : req'[s] # Idle) => Serves
  BY <1>2 DEF Serves
<1>4. ASSUME UNCHANGED <<env, phase, cause>> PROVE Loaded'
  <2>1. Started' => Started
    BY <1>4 DEF Started, Notified
  <2> QED
    BY <1>3, <1>4, <2>1 DEF Serves
<1>5. ASSUME env' = env, phase' \in {"main", "exit"} => ~Started' \/ Started,
             phase' \notin {"load", "main", "exit"} => Load(env),
             phase' \in {"verify", "wire"} \/ Started' =>
               Serves \/ ("seed" \notin env.args /\ Load(env))
      PROVE  Loaded'
  BY <1>3, <1>5 DEF Serves
<1>6. CASE LoadConfig
  BY <1>5, <1>6 DEF LoadConfig, Started, Notified, Serves
<1>7. CASE InitLogger \/ ConnectMongo
  BY <1>5, <1>7 DEF InitLogger, ConnectMongo, Return, Started, Notified, Serves
<1>8. CASE ChooseTask
  BY <1>5, <1>8 DEF ChooseTask, Started, Notified, Serves
<1>9. CASE NewVerifierFromEnv \/ PutTogether \/ Notify \/ ServerFailed
  BY <1>5, <1>9 DEF NewVerifierFromEnv, PutTogether, Notify, ServerFailed, Return, Started, Notified, Serves
<1>10. CASE BeginShutdown \/ GrpcDrained \/ GrpcForced \/ HttpDrained \/ HttpForced
  BY <1>5, <1>10 DEF BeginShutdown, StopGrpc, GrpcDrained, GrpcForced, HttpDrained, HttpForced,
                     Return, Started, Notified, Serves
<1>11. CASE Close \/ Exit
  BY <1>5, <1>11 DEF Close, Exit, Started, Notified, Serves
<1>12. CASE ServeGrpc \/ ListenAndServe \/ Deadline
  BY <1>4, <1>12 DEF ServeGrpc, ListenAndServe, Deadline
<1>13. CASE SeedKilled
  BY <1>4, <1>5, <1>13 DEF SeedKilled, Signal, Started, Notified, Serves
<1>14. CASE StartSeeding \/ SeedReturns
  BY <1>5, <1>14 DEF StartSeeding, SeedReturns, Return, Started, Notified, Serves
<1>15. CASE Again
  <2>1. ~Serves
    BY <1>15 DEF Again
  <2>2. phase' = "load" /\ req' = req
    BY <1>15 DEF Again
  <2>3. ~Serves'
    BY <2>1, <2>2 DEF Serves, Started, Notified
  <2> QED
    BY <2>2, <2>3
<1>16. CASE Seeding \/ Edits \/ UNCHANGED vars
  BY <1>4, <1>16 DEF Seeding, Edits, vars, serverVars
<1>17. ASSUME NEW s \in Slots, Serve(s) PROVE Loaded'
  BY <1>4, <1>17 DEF Serve, Accept, AdmitHTTP, AdmitRPC, Panic, Finish, DocumentFound,
                     DocumentRefused, DocumentWritten, DocumentFailed, requestsOnly, serverVars
<1> QED
  BY <1>6, <1>7, <1>8, <1>9, <1>10, <1>11, <1>12, <1>13, <1>14, <1>15, <1>16, <1>17
     DEF Next, Main

LEMMA InitInv == DInit => ReqShape /\ Loaded
<1> SUFFICES ASSUME DInit PROVE ReqShape /\ Loaded
  OBVIOUS
<1>1. load = {} /\ req = [s \in Slots |-> Idle] /\ phase = "load"
  BY DEF DInit, Init
<1>2. ReqShape
  BY <1>1 DEF ReqShape
<1>3. ~Serves
  BY <1>1 DEF Serves, Started, Notified
<1> QED
  BY <1>1, <1>2, <1>3 DEF Loaded

\* The environment of a request is the one it came in.
LEMMA SameEnv ==
  ASSUME ReqShape, Loaded, [Next]_vars
  PROVE  env' = env \/ \A s \in Slots : req[s] = Idle /\ req'[s] = Idle
<1>1. CASE Again
  <2>1. \A s \in Slots : req[s] = Idle
    BY <1>1 DEF Again, Loaded, Serves
  <2> QED
    BY <1>1, <2>1 DEF Again
<1>2. CASE ~Again
  <2>1. CASE Main \/ ServeGrpc \/ ListenAndServe \/ Deadline \/ SeedKilled
    BY <2>1 DEF Main, LoadConfig, InitLogger, ConnectMongo, ChooseTask, NewVerifierFromEnv, Notify,
                PutTogether, ServerFailed, BeginShutdown, GrpcDrained, GrpcForced, HttpDrained,
                HttpForced, Close, Exit, ServeGrpc, ListenAndServe, Deadline, SeedKilled, Signal
  <2>2. CASE StartSeeding \/ Seeding \/ SeedReturns \/ Edits \/ UNCHANGED vars
    BY <2>2 DEF StartSeeding, Seeding, SeedReturns, Edits, vars, serverVars
  <2>3. ASSUME NEW s \in Slots, Serve(s) PROVE env' = env
    BY <2>3 DEF Serve, Accept, AdmitHTTP, AdmitRPC, Panic, Finish, DocumentFound,
                DocumentRefused, DocumentWritten, DocumentFailed, requestsOnly, serverVars
  <2> QED
    BY <1>2, <2>1, <2>2, <2>3 DEF Next
<1> QED
  BY <1>1, <1>2

\* With a list that Load accepts, the interceptor lets in health checks and
\* callers that hold one of its credentials.
LEMMA InterceptorCloses ==
  ASSUME Load(env), NEW call, UnaryServerInterceptor(call, splitOr(env.accepted))
  PROVE  call.method \in healthChecks \/ call.serviceToken \in env.accepted \ {Blank, None}
<1>1. splitOr(env.accepted) \ {None} # {}
  BY DEF Load, splitOr
<1> QED
  BY <1>1 DEF UnaryServerInterceptor, splitOr

\* Whoever a route lets in, other than staff, holds a key of the route in a
\* product of theirs, with the entitlement for it.
LEMMA RouteMeansKey ==
  ASSUME NEW t, NEW op \in DOMAIN routes, RequireAnyOf(t, op), ~PrincipalOf[t].staff
  PROVE  LET p == PrincipalOf[t] IN
         \E product \in DOMAIN p.access : \E key \in Keys(product) :
           /\ <<product, key>> \in routes[op]
           /\ FeatureFor(product, key) \in p.access[product].features \cup {None}
<1> DEFINE p == PrincipalOf[t]
<1>1. PICK spec \in routes[op] : HasPermission(p, spec[1], spec[2])
  BY DEF RequireAnyOf
<1>2. PICK product \in {"tms", "fms"}, key \in Keys(spec[1]) : spec = <<product, key>>
  BY RoutesAskForKeys
<1>3. spec[1] = product /\ spec[2] = key
  BY <1>2
<1>4. product \in DOMAIN p.access /\ FeatureHeld(p.access[product], product, key)
  BY <1>1, <1>3 DEF HasPermission
<1>5. FeatureFor(product, key) \in p.access[product].features \cup {None}
  BY <1>4 DEF FeatureHeld
<1>6. key \in Keys(product) /\ <<product, key>> \in routes[op]
  BY <1>2, <1>3
<1> QED
  BY <1>4, <1>5, <1>6

\* For whom a handler works: the caller's own company, unless it asks for
\* nobody's or the caller is staff.
LEMMA ScopeIsOwn ==
  ASSUME NEW t, NEW op \in DOMAIN routes, NEW header, ~PrincipalOf[t].staff,
         NEW company \in Scope(op, t, header)
  PROVE  op = "Kinds" \/ company = PrincipalOf[t].company
BY EveryRouteServed DEF Scope, trackerScope, callerScope, caller

Gates == NeverOpen /\ ActsWithinScope

\* A request that is let in has what the gates promise.
LEMMA LetInPromise ==
  ASSUME ReqShape, ReqShape', Loaded, NEW s \in Slots, LetIn(s)
  PROVE  /\ req'[s].port = "grpc" =>
              \/ req'[s].call.method \in healthChecks
              \/ req'[s].call.method = "Reflection" /\ ~isProductionEnv(env.environment)
              \/ req'[s].call.serviceToken \in env.accepted \ {Blank, None}
         /\ req'[s].port = "http" =>
              LET p == PrincipalOf[req'[s].call.token] IN
              \/ p.staff
              \/ /\ req'[s].call.op = "Kinds" \/ req'[s].for = p.company
                 /\ \E product \in DOMAIN p.access : \E key \in Keys(product) :
                      /\ <<product, key>> \in routes[req'[s].call.op]
                      /\ FeatureFor(product, key) \in p.access[product].features \cup {None}
<1> DEFINE call == req[s].call
<1>1. req[s] # Idle /\ Shape(req[s]) /\ Kept(s)
  BY DEF LetIn, ReqShape
<1>2. Load(env)
  BY <1>1 DEF Loaded, Serves
<1>3. CASE req[s].port = "grpc"
  <2>1. IF call.method = "Reflection" THEN ~isProductionEnv(env.environment)
        ELSE UnaryServerInterceptor(call, splitOr(env.accepted))
    BY <1>3 DEF LetIn
  <2>2. \/ call.method \in healthChecks
        \/ call.method = "Reflection" /\ ~isProductionEnv(env.environment)
        \/ call.serviceToken \in env.accepted \ {Blank, None}
    BY <1>2, <2>1, InterceptorCloses
  <2> QED
    BY <1>1, <1>3, <2>2 DEF Kept
<1>4. CASE req[s].port = "http"
  <2>1. /\ call.op \notin Bypasses /\ RequireAnyOf(call.token, call.op)
        /\ req'[s].for \in Scope(call.op, call.token, call.header)
    BY <1>4 DEF LetIn
  <2>2. call.op \in DOMAIN routes
    BY <1>1, <1>4, <2>1, CallsAssumption DEF Shape, Bypasses
  <2>3. CASE PrincipalOf[call.token].staff
    BY <1>1, <1>4, <2>3 DEF Kept
  <2>4. CASE ~PrincipalOf[call.token].staff
    <3>1. call.op = "Kinds" \/ req'[s].for = PrincipalOf[call.token].company
      BY <2>1, <2>2, <2>4, ScopeIsOwn
    <3>2. LET p == PrincipalOf[call.token] IN
          \E product \in DOMAIN p.access : \E key \in Keys(product) :
            /\ <<product, key>> \in routes[call.op]
            /\ FeatureFor(product, key) \in p.access[product].features \cup {None}
      BY <2>1, <2>2, <2>4, RouteMeansKey
    <3> QED
      BY <1>1, <1>4, <3>1, <3>2 DEF Kept
  <2> QED
    BY <2>3, <2>4
<1> QED
  BY <1>1, <1>3, <1>4 DEF Kept

LEMMA GatesStay ==
  ASSUME ReqShape, Loaded, Gates, [Next]_vars
  PROVE  Gates'
<1>1. AllMove
  BY Moves
<1>2. CASE \A s \in Slots : req[s] = Idle /\ req'[s] = Idle
  BY <1>2 DEF Gates, NeverOpen, ActsWithinScope, Ran
<1>3. CASE env' = env
  <2> DEFINE Rpc(s) == req[s].port = "grpc" =>
               \/ req[s].call.method \in healthChecks
               \/ req[s].call.method = "Reflection" /\ ~isProductionEnv(env.environment)
               \/ req[s].call.serviceToken \in env.accepted \ {Blank, None}
             Http(s) == req[s].port = "http" =>
               LET p == PrincipalOf[req[s].call.token] IN
               \/ p.staff
               \/ /\ req[s].call.op = "Kinds" \/ req[s].for = p.company
                  /\ \E product \in DOMAIN p.access : \E key \in Keys(product) :
                       /\ <<product, key>> \in routes[req[s].call.op]
                       /\ FeatureFor(product, key) \in p.access[product].features \cup {None}
  <2>1. Gates <=> \A s \in Slots : Ran(s) => Rpc(s) /\ Http(s)
    BY DEF Gates, NeverOpen, ActsWithinScope
  <2>2. Gates' <=> \A s \in Slots : Ran(s)' => Rpc(s)' /\ Http(s)'
    BY DEF Gates, NeverOpen, ActsWithinScope
  <2>3. ASSUME NEW s \in Slots, Ran(s)' PROVE Rpc(s)' /\ Http(s)'
    <3>1. CASE LetIn(s)
      BY <1>1, <1>3, <3>1, LetInPromise DEF AllMove
    <3>2. CASE Comes(s)
      <4>1. Shape(req'[s])
        BY <1>1, <2>3 DEF AllMove, ReqShape, Ran
      <4> QED
        BY <2>3, <3>2, <4>1 DEF Comes, Shape, Ran
    <3>3. CASE req'[s] = req[s] \/ IsAnswered(s) \/ IsCut(s)
      <4>1. /\ Ran(s)
            /\ req'[s].port = req[s].port /\ req'[s].call = req[s].call
            /\ req'[s].for = req[s].for
        BY <2>3, <3>3 DEF IsAnswered, IsCut, Kept, Ran
      <4>2. Rpc(s) /\ Http(s)
        BY <2>1, <4>1
      <4> QED
        BY <1>3, <4>1, <4>2
    <3> QED
      BY <1>1, <3>1, <3>2, <3>3 DEF AllMove, Move
  <2> QED
    BY <2>2, <2>3
<1> QED
  BY <1>2, <1>3, SameEnv

LEMMA GatesAlways == Spec => [](ReqShape /\ Loaded /\ Gates)
<1>1. DInit => Gates
  BY DEF DInit, Init, Gates, NeverOpen, ActsWithinScope, Ran
<1>2. ReqShape /\ Loaded /\ Gates /\ [Next]_vars => (ReqShape /\ Loaded /\ Gates)'
  BY Moves, LoadedStays, GatesStay DEF AllMove
<1> QED
  BY <1>1, <1>2, InitInv, PTL DEF Spec

\* No call runs for somebody who is not a service, whatever the environment and
\* whatever is asked: a list of credentials that is empty, or of blanks, does not
\* get past Load (splitOr, Load, UnaryServerInterceptor).
THEOREM ThePortIsNeverOpen == Spec => []NeverOpen
<1>1. Gates => NeverOpen
  BY DEF Gates
<1> QED
  BY <1>1, GatesAlways, PTL

\* A request acts for its caller's own company, in a product and with an
\* entitlement that cover it, unless the caller is staff, for any principals and
\* any headers (RequireAnyOf, caller, trackerScope).
THEOREM RequestsStayWithinScope == Spec => []ActsWithinScope
<1>1. Gates => ActsWithinScope
  BY DEF Gates
<1> QED
  BY <1>1, GatesAlways, PTL

-----------------------------------------------------------------------------
(***************************************************************************)
(* The shutdown.  When HTTP is what is waited for, no call is under way    *)
(* that the deadline has not cut off, and none can come: gRPC has been     *)
(* told to stop before its listener could serve, or after.                 *)
(***************************************************************************)
GoingDown == phase = "httpStop" \/ (phase \in {"close", "main"} /\ cause = "signal")

Orderly ==
  /\ phase = "grpcStop" \/ GoingDown => cause = "signal" /\ grpc \notin {"off", "on"}
  /\ GoingDown => http \notin {"off", "on"} /\ (deadline = TRUE \/ Under("grpc") = {})
  /\ GoingDown /\ phase # "httpStop" => deadline = TRUE \/ Under("http") = {}

CutLate ==
  /\ cause = "signal" => phase \in {"grpcStop", "httpStop", "close", "main", "exit"}
  /\ \A s \in Slots : req[s].stage = "cut" =>
       deadline = TRUE \/ (phase = "exit" /\ cause # "signal")

ShutInv == deadline \in BOOLEAN /\ Orderly /\ CutLate

\* What is under way has come before.
LEMMA NothingNew ==
  ASSUME ReqShape, AllMove, NEW port, NEW s \in Under(port)'
  PROVE  s \in Under(port) \/ (Comes(s) /\ req'[s].port = port)
<1>1. s \in Slots /\ req'[s].stage \in {"accepted", "running"} /\ req'[s].port = port
  BY DEF Under, InFlight
<1>2. CASE req'[s] = req[s]
  BY <1>1, <1>2 DEF Under, InFlight
<1>3. CASE LetIn(s)
  BY <1>1, <1>3 DEF Under, InFlight, LetIn, Kept
<1> QED
  BY <1>1, <1>2, <1>3 DEF AllMove, Move, IsAnswered, IsCut

LEMMA NoneLeft ==
  ASSUME ReqShape, AllMove, NEW port \in {"http", "grpc"}, Under(port) = {},
         port = "http" => http # "on", port = "grpc" => grpc # "on"
  PROVE  Under(port)' = {}
<1>1. ASSUME NEW s \in Under(port)' PROVE FALSE
  BY <1>1, NothingNew DEF Comes
<1> QED
  BY <1>1

LEMMA InitShut == DInit => ShutInv
<1> SUFFICES ASSUME DInit PROVE ShutInv
  OBVIOUS
<1>1. /\ phase = "load" /\ cause = "none" /\ deadline = FALSE
      /\ \A s \in Slots : req[s].stage = "idle"
  BY DEF DInit, Init, Idle
<1> QED
  BY <1>1 DEF ShutInv, Orderly, CutLate, GoingDown

LEMMA ShutStays ==
  ASSUME ReqShape, Loaded, ShutInv, [Next]_vars
  PROVE  ShutInv'
<1> USE DEF ShutInv
<1>1. AllMove
  BY Moves
<1>2. ASSUME NEW s \in Slots, req'[s].stage = "cut"
      PROVE  \/ req[s].stage = "cut"
             \/ deadline = TRUE /\ deadline' = TRUE
             \/ InFlight(s) /\ phase # "exit" /\ phase' = "exit"
  <2>1. req'[s] = req[s] \/ IsCut(s)
    BY <1>1, <1>2 DEF AllMove, Move, Comes, LetIn, IsAnswered
  <2> QED
    BY <1>2, <2>1 DEF IsCut, Late
<1>3. deadline' \in BOOLEAN /\ (deadline = TRUE => deadline' = TRUE)
  BY DEF Next, Main, LoadConfig, InitLogger, ConnectMongo, ChooseTask, NewVerifierFromEnv, Notify,
         PutTogether, ServerFailed, BeginShutdown, GrpcDrained, GrpcForced, HttpDrained, HttpForced,
         Close, Exit, ServeGrpc, ListenAndServe, Deadline, SeedKilled, Signal, StartSeeding,
         Seeding, SeedReturns, Again, Edits, vars, serverVars, Serve, Accept, AdmitHTTP, AdmitRPC,
         Panic, Finish, DocumentFound, DocumentRefused, DocumentWritten, DocumentFailed,
         requestsOnly
<1>4. ASSUME phase' # "exit", phase # "exit",
             cause' = "signal" => phase' \in {"grpcStop", "httpStop", "close", "main"}
      PROVE  CutLate'
  BY <1>2, <1>3, <1>4 DEF CutLate
<1>5. ASSUME UNCHANGED <<phase, cause>>,
             GoingDown \/ phase = "grpcStop" => grpc' \notin {"off", "on"},
             GoingDown => http' \notin {"off", "on"}
      PROVE  ShutInv'
  <2>1. Orderly'
    <3>1. GoingDown' => GoingDown
      BY <1>5 DEF GoingDown
    <3>2. GoingDown => deadline' = TRUE \/ Under("grpc")' = {}
      BY <1>1, <1>3, NoneLeft DEF Orderly
    <3>3. GoingDown /\ phase # "httpStop" => deadline' = TRUE \/ Under("http")' = {}
      BY <1>1, <1>3, NoneLeft DEF Orderly
    <3> QED
      BY <1>5, <3>1, <3>2, <3>3 DEF Orderly
  <2>2. CutLate'
    <3>1. CASE phase = "exit"
      BY <1>2, <1>3, <1>5, <3>1 DEF CutLate
    <3>2. CASE phase # "exit"
      BY <1>4, <1>5, <3>2 DEF CutLate
    <3> QED
      BY <3>1, <3>2
  <2> QED
    BY <1>3, <2>1, <2>2
<1>6. ASSUME phase # "exit", phase' \notin {"exit", "grpcStop", "httpStop"}, cause' # "signal"
      PROVE  ShutInv'
  BY <1>3, <1>4, <1>6 DEF Orderly, GoingDown
<1>7. ASSUME phase # "exit", phase' = "exit", cause' # "signal"
      PROVE  ShutInv'
  BY <1>2, <1>3, <1>7 DEF CutLate, Orderly, GoingDown
<1>8. CASE \/ LoadConfig \/ InitLogger \/ ConnectMongo \/ ChooseTask \/ NewVerifierFromEnv
           \/ PutTogether \/ Notify \/ ServerFailed \/ StartSeeding \/ SeedReturns
  <2>1. /\ phase \notin {"grpcStop", "httpStop", "close", "main", "exit"}
        /\ phase' \notin {"exit", "grpcStop", "httpStop"}
        /\ cause' = cause \/ cause' \in {"config", "unreachable", "refused", "key", "panic",
                                        "listener", "seeded"}
    BY <1>8 DEF LoadConfig, InitLogger, ConnectMongo, ChooseTask, NewVerifierFromEnv, PutTogether,
                Notify, ServerFailed, StartSeeding, SeedReturns, Return
  <2>2. cause # "signal"
    BY <2>1 DEF CutLate
  <2> QED
    BY <1>6, <2>1, <2>2
<1>9. CASE BeginShutdown
  <2>1. /\ phase = "wait" /\ phase' = "grpcStop" /\ cause' = "signal"
        /\ grpc' \notin {"off", "on"}
    BY <1>9 DEF BeginShutdown, StopGrpc
  <2>2. CutLate'
    BY <1>4, <2>1
  <2>3. Orderly'
    BY <2>1 DEF Orderly, GoingDown
  <2> QED
    BY <1>3, <2>2, <2>3
<1>10. CASE GrpcDrained
  <2>1. /\ phase = "grpcStop" /\ phase' = "httpStop" /\ cause' = cause /\ req' = req
        /\ Under("grpc") = {} /\ http' = "draining"
        /\ grpc' = (IF grpc = "unserved" THEN grpc ELSE "stopped")
    BY <1>10 DEF GrpcDrained
  <2>2. cause = "signal"
    BY <2>1 DEF Orderly
  <2>3. Under("grpc")' = {}
    BY <2>1 DEF Under, InFlight
  <2>4. CutLate'
    BY <1>4, <2>1
  <2> QED
    BY <1>3, <2>1, <2>2, <2>3, <2>4 DEF Orderly, GoingDown
<1>11. CASE GrpcForced
  <2>1. /\ phase = "grpcStop" /\ phase' = "httpStop" /\ cause' = cause
        /\ deadline' = TRUE /\ http' = "draining"
        /\ grpc' = (IF grpc = "unserved" THEN grpc ELSE "stopped")
    BY <1>3, <1>11 DEF GrpcForced
  <2>2. cause = "signal"
    BY <2>1 DEF Orderly
  <2>3. CutLate'
    BY <1>4, <2>1
  <2> QED
    BY <1>3, <2>1, <2>2, <2>3 DEF Orderly, GoingDown
<1>12. CASE HttpDrained \/ HttpForced
  <2>1. /\ phase = "httpStop" /\ phase' = "close" /\ cause' = "signal" /\ req' = req
        /\ http' = "stopped" /\ grpc' = grpc
        /\ Under("http") = {} \/ deadline' = TRUE
    BY <1>3, <1>12 DEF HttpDrained, HttpForced, Return
  <2>2. Under("http")' = Under("http") /\ Under("grpc")' = Under("grpc")
    BY <2>1 DEF Under, InFlight
  <2>3. CutLate'
    BY <1>4, <2>1
  <2> QED
    BY <1>3, <2>1, <2>2, <2>3 DEF Orderly, GoingDown
<1>13. CASE Close
  <2>1. /\ phase = "close" /\ phase' = "main" /\ cause' = cause /\ req' = req
        /\ http' = http /\ grpc' = grpc
    BY <1>13 DEF Close
  <2>2. Under("http")' = Under("http") /\ Under("grpc")' = Under("grpc")
    BY <2>1 DEF Under, InFlight
  <2>3. CutLate'
    BY <1>4, <2>1
  <2> QED
    BY <1>3, <2>1, <2>2, <2>3 DEF Orderly, GoingDown
<1>14. CASE Exit
  <2>1. phase = "main" /\ phase' = "exit" /\ cause' = cause
    BY <1>14 DEF Exit
  <2>2. CASE cause = "signal"
    <3>1. deadline = TRUE \/ (Under("http") = {} /\ Under("grpc") = {})
      BY <2>1, <2>2 DEF Orderly, GoingDown
    <3>2. ASSUME NEW s \in Slots, InFlight(s)
          PROVE  s \in Under("http") \/ s \in Under("grpc")
      <4>1. Shape(req[s])
        BY <3>2 DEF ReqShape, InFlight, Idle
      <4> QED
        BY <3>2, <4>1, CallsAssumption DEF Shape, Under
    <3>3. \A s \in Slots : req'[s].stage = "cut" => deadline' = TRUE
      BY <1>2, <1>3, <2>1, <3>1, <3>2 DEF CutLate
    <3> QED
      BY <1>3, <2>1, <3>3 DEF CutLate, Orderly, GoingDown
  <2> QED
    BY <1>7, <2>1, <2>2
<1>15. CASE SeedKilled
  <2>1. CASE Notified
    <3>1. UNCHANGED <<phase, cause, grpc, http>>
      BY <1>15, <2>1 DEF SeedKilled, Signal
    <3> QED
      BY <1>5, <3>1 DEF Orderly
  <2>2. CASE ~Notified
    BY <1>7, <1>15, <2>2 DEF SeedKilled, Signal
  <2> QED
    BY <2>1, <2>2
<1>16. CASE Again
  <2>1. /\ phase' = "load" /\ cause' = "none"
        /\ \A s \in Slots : req'[s] = Idle
    BY <1>16 DEF Again, Loaded, Serves
  <2> QED
    BY <1>3, <2>1 DEF CutLate, Orderly, GoingDown, Idle
<1>17. CASE ServeGrpc
  BY <1>5, <1>17 DEF ServeGrpc, Orderly
<1>18. CASE ListenAndServe
  BY <1>5, <1>18 DEF ListenAndServe, Orderly
<1>19. CASE Deadline \/ Seeding \/ Edits \/ UNCHANGED vars
  <2>1. UNCHANGED <<phase, cause, grpc, http>>
    BY <1>19 DEF Deadline, Seeding, Edits, vars, serverVars
  <2> QED
    BY <1>5, <2>1 DEF Orderly
<1>20. ASSUME NEW s \in Slots, Serve(s) PROVE ShutInv'
  <2>1. UNCHANGED <<phase, cause, grpc, http>>
    BY <1>20 DEF Serve, Accept, AdmitHTTP, AdmitRPC, Panic, Finish, DocumentFound,
                 DocumentRefused, DocumentWritten, DocumentFailed, requestsOnly, serverVars
  <2> QED
    BY <1>5, <2>1 DEF Orderly
<1> QED
  BY <1>8, <1>9, <1>10, <1>11, <1>12, <1>13, <1>14, <1>15, <1>16, <1>17, <1>18, <1>19, <1>20
     DEF Next, Main

\* After a signal nothing under way is cut off before the deadline, for any
\* traffic and however late a listener comes up (run, Shutdown).
THEOREM NothingCutEarly == Spec => []NoneCutEarly
<1>1. ReqShape /\ Loaded /\ ShutInv /\ [Next]_vars => (ReqShape /\ Loaded /\ ShutInv)'
  BY Moves, LoadedStays, ShutStays DEF AllMove
<1>2. ShutInv => NoneCutEarly
  BY DEF ShutInv, CutLate, NoneCutEarly
<1> QED
  BY <1>1, <1>2, InitInv, InitShut, PTL DEF Spec

-----------------------------------------------------------------------------
(***************************************************************************)
(* The documents.  What a request holds, long after it looked, is owned    *)
(* once and its caller's company's, and when it is to replace a document   *)
(* it has the owner that document has: no write in between moves one.      *)
(***************************************************************************)
DocFields == {"companyId", "vehicleId", "driverId", "docType", "live"}
SameOwner(d, e) ==
  d.companyId = e.companyId /\ d.vehicleId = e.vehicleId /\ d.driverId = e.driverId

Values(f) == {f[i] : i \in DOMAIN f}
Filed == /\ docs \in Seq(Values(docs))
         /\ \A i \in DOMAIN docs : DOMAIN docs[i] = DocFields /\ OwnedOnce(docs[i])

GoodCopy(s) ==
  /\ req[s] # Idle /\ req[s].stage # "accepted"
  /\ DOMAIN held[s].doc = DocFields /\ OwnedOnce(held[s].doc)
  /\ held[s].doc.companyId = req[s].for
  /\ req[s].call.op # "CreateDocument" =>
       held[s].id \in DOMAIN docs /\ SameOwner(held[s].doc, docs[held[s].id])

Copies == DOMAIN held = Slots /\ \A s \in Slots : Holds(s) => GoodCopy(s)
DocInv == Filed /\ Copies

\* What DocumentsStayPut says of a step.
StaysPut ==
  \A i \in DOMAIN docs :
    /\ i \in DOMAIN docs'
    /\ docs'[i].companyId = docs[i].companyId
    /\ docs'[i].vehicleId = docs[i].vehicleId /\ docs'[i].driverId = docs[i].driverId
    /\ docs'[i] # docs[i] =>
         \E s \in Slots : OnDocuments(s) /\ req[s].for = docs[i].companyId

LEMMA InitDocs == DInit => DocInv
<1> SUFFICES ASSUME DInit PROVE DocInv
  OBVIOUS
<1>1. docs = <<FirstDocument>> /\ held = [w \in Slots |-> Nothing]
  BY DeploymentAssumption DEF DInit, DocInit
<1>2. DOMAIN docs = {1} /\ docs[1] = FirstDocument
  BY <1>1
<1>3. docs \in Seq(Values(docs))
  BY <1>1, <1>2 DEF Values
<1>4. Filed
  BY <1>2, <1>3, DeploymentAssumption DEF Filed, DocFields
<1>5. Copies
  BY <1>1 DEF Copies, Holds
<1> QED
  BY <1>4, <1>5 DEF DocInv

\* An edit leaves the owner alone, and gives the document all its fields.
LEMMA EditKeepsOwner ==
  ASSUME NEW d, NEW input, DOMAIN d = DocFields
  PROVE  LET e == applyDocument(d, input) IN
         DOMAIN e = DocFields /\ SameOwner(e, d) /\ (OwnedOnce(d) => OwnedOnce(e))
<1> DEFINE e == applyDocument(d, input)
<1>1. DOMAIN e = DocFields /\ SameOwner(e, d)
  BY DEF applyDocument, DocFields, SameOwner
<1> HIDE DEF e
<1>2. OwnedOnce(d) => OwnedOnce(e)
  BY <1>1 DEF OwnedOnce, SameOwner
<1> QED
  BY <1>1, <1>2 DEF e

\* A new document has one owner, among what its company has.
LEMMA NewIsOwnedOnce ==
  ASSUME NEW company, NEW input, ownersGiven(input), ownerFound(company, input)
  PROVE  LET d == newDocument(company, input) IN
         DOMAIN d = DocFields /\ OwnedOnce(d) /\ d.companyId = company
<1>1. CASE given(input.vehicleId)
  BY <1>1 DEF newDocument, DocFields, OwnedOnce, ownerFound, given
<1>2. CASE ~given(input.vehicleId)
  BY <1>2 DEF newDocument, DocFields, OwnedOnce, ownerFound, ownersGiven, given
<1> QED
  BY <1>1, <1>2

\* Copies stay good while their requests go on and documents keep their owners.
LEMMA CopiesStay ==
  ASSUME ReqShape, DocInv, AllMove, StaysPut, NEW s \in Slots, Holds(s),
         held'[s] = held[s], held'[s] # Nothing
  PROVE  GoodCopy(s)'
<1>1. GoodCopy(s)
  BY DEF DocInv, Copies
<1>2. /\ req'[s] # Idle /\ req'[s].stage # "accepted"
      /\ req'[s].for = req[s].for /\ req'[s].call = req[s].call
  <2>1. req'[s] = req[s] \/ IsAnswered(s) \/ IsCut(s)
    BY <1>1 DEF AllMove, Move, Comes, LetIn, GoodCopy
  <2>2. req'[s].stage = "idle" => req'[s] = req[s]
    BY <2>1 DEF IsAnswered, IsCut
  <2>3. req'[s] # Idle
    BY <1>1, <2>2 DEF GoodCopy, Idle
  <2> QED
    BY <1>1, <2>1, <2>3 DEF IsAnswered, IsCut, Kept, GoodCopy
<1>3. req[s].call.op # "CreateDocument" =>
        held[s].id \in DOMAIN docs' /\ SameOwner(held[s].doc, docs'[held[s].id])
  BY <1>1 DEF GoodCopy, SameOwner, StaysPut
<1> QED
  BY <1>1, <1>2, <1>3 DEF GoodCopy, OwnedOnce

\* A function over 1..n is a sequence of its own values.
LEMMA IsSequence ==
  ASSUME NEW n \in Nat, NEW f, f = [i \in 1..n |-> f[i]]
  PROVE  f \in Seq(Values(f))
<1>1. DOMAIN f = 1..n
  OBVIOUS
<1>2. f \in [1..n -> Values(f)]
  BY <1>1 DEF Values
<1> QED
  BY <1>2, SeqDef

\* A value is replaced, or follows the others.
LEMMA PutAt ==
  ASSUME NEW q, q \in Seq(Values(q)), NEW j \in DOMAIN q, NEW d,
         NEW r, r = [q EXCEPT ![j] = d]
  PROVE  /\ r \in Seq(Values(r)) /\ DOMAIN r = DOMAIN q
         /\ \A i \in DOMAIN q : r[i] = IF i = j THEN d ELSE q[i]
<1>1. DOMAIN q = 1..Len(q) /\ Len(q) \in Nat
  OBVIOUS
<1>2. DOMAIN r = DOMAIN q /\ \A i \in DOMAIN q : r[i] = IF i = j THEN d ELSE q[i]
  OBVIOUS
<1>3. r = [i \in 1..Len(q) |-> r[i]]
  BY <1>1
<1> QED
  BY <1>1, <1>2, <1>3, IsSequence

LEMMA OwnValues == ASSUME NEW S, NEW q \in Seq(S) PROVE q \in Seq(Values(q))
<1>1. PICK m \in Nat : q \in [1..m -> S]
  BY SeqDef
<1>2. q = [i \in 1..m |-> q[i]]
  BY <1>1
<1> QED
  BY <1>2, IsSequence

LEMMA AddLast ==
  ASSUME NEW q, q \in Seq(Values(q)), NEW d, NEW r, r = Append(q, d)
  PROVE  /\ r \in Seq(Values(r)) /\ DOMAIN q \subseteq DOMAIN r
         /\ Len(r) \in DOMAIN r \ DOMAIN q /\ r[Len(r)] = d
         /\ \A i \in DOMAIN r : i \in DOMAIN q \/ i = Len(r)
         /\ \A i \in DOMAIN q : r[i] = q[i]
<1> DEFINE n == Len(q)
           S == Values(q) \cup {d}
<1>1. DOMAIN q = 1..n /\ n \in Nat
  OBVIOUS
<1>2. q \in Seq(S) /\ d \in S
  OBVIOUS
<1> HIDE DEF S
<1>3. r \in Seq(S) /\ Len(r) = n + 1 /\ (\A i \in 1..n : r[i] = q[i]) /\ r[n + 1] = d
  BY <1>2, AppendProperties
<1>6. r \in Seq(Values(r))
  BY <1>3, OwnValues
<1>7. DOMAIN r = 1..(n + 1)
  BY <1>3
<1> QED
  BY <1>1, <1>3, <1>6, <1>7

\* The document is replaced by one of the same owner, or follows the others.
LEMMA Replaced ==
  ASSUME Filed, NEW j \in DOMAIN docs, NEW d, DOMAIN d = DocFields, SameOwner(d, docs[j]),
         docs' = [docs EXCEPT ![j] = d]
  PROVE  /\ Filed'
         /\ DOMAIN docs' = DOMAIN docs
         /\ \A i \in DOMAIN docs : SameOwner(docs'[i], docs[i]) /\ (i # j => docs'[i] = docs[i])
<1>1. docs \in Seq(Values(docs))
  BY DEF Filed
<1>2. /\ docs' \in Seq(Values(docs')) /\ DOMAIN docs' = DOMAIN docs
      /\ \A i \in DOMAIN docs : docs'[i] = IF i = j THEN d ELSE docs[i]
  BY <1>1, PutAt
<1>3. OwnedOnce(d)
  BY DEF Filed, OwnedOnce, SameOwner
<1>4. Filed'
  BY <1>2, <1>3 DEF Filed
<1> QED
  BY <1>2, <1>4 DEF SameOwner

LEMMA Appended ==
  ASSUME Filed, NEW d, DOMAIN d = DocFields, OwnedOnce(d), docs' = Append(docs, d)
  PROVE  /\ Filed'
         /\ DOMAIN docs \subseteq DOMAIN docs'
         /\ \A i \in DOMAIN docs : docs'[i] = docs[i]
<1>1. docs \in Seq(Values(docs))
  BY DEF Filed
<1>2. /\ docs' \in Seq(Values(docs')) /\ DOMAIN docs \subseteq DOMAIN docs'
      /\ Len(docs') \in DOMAIN docs' \ DOMAIN docs /\ docs'[Len(docs')] = d
      /\ \A i \in DOMAIN docs' : i \in DOMAIN docs \/ i = Len(docs')
      /\ \A i \in DOMAIN docs : docs'[i] = docs[i]
  BY <1>1, AddLast, Zenon
<1>3. Filed'
  BY <1>2 DEF Filed
<1> QED
  BY <1>2, <1>3

LEMMA DocumentsStep ==
  ASSUME ReqShape, DocInv, [Next]_vars
  PROVE  DocInv' /\ StaysPut
<1>1. AllMove
  BY Moves
<1>2. DOMAIN held = Slots /\ Filed
  BY DEF DocInv, Copies
\* Copies of other requests, and those of this one if it has not written.
<1>3. ASSUME Filed', StaysPut, DOMAIN held' = Slots, NEW s \in Slots,
             \A r \in Slots \ {s} : held'[r] = held[r],
             held'[s] = held[s] \/ held'[s] = Nothing
      PROVE  DocInv' /\ StaysPut
  <2>1. ASSUME NEW r \in Slots, Holds(r)' PROVE GoodCopy(r)'
    <3>1. held'[r] = held[r] /\ held'[r] # Nothing
      BY <1>3, <2>1 DEF Holds
    <3> QED
      BY <1>1, <1>3, <3>1, CopiesStay DEF Holds
  <2> QED
    BY <1>3, <2>1 DEF DocInv, Copies
<1>4. ASSUME UNCHANGED docVars PROVE DocInv' /\ StaysPut
  <2>1. StaysPut /\ Filed' /\ held' = held
    BY <1>2, <1>4 DEF StaysPut, Filed, docVars, OwnedOnce
  <2>2. ASSUME NEW r \in Slots, Holds(r)' PROVE GoodCopy(r)'
    <3>1. held'[r] = held[r] /\ held'[r] # Nothing
      BY <2>1, <2>2 DEF Holds
    <3> QED
      BY <1>1, <2>1, <3>1, CopiesStay DEF Holds
  <2> QED
    BY <1>2, <2>1, <2>2 DEF DocInv, Copies
<1>5. ASSUME NEW s \in Slots, DocumentFound(s) PROVE DocInv' /\ StaysPut
  <2> DEFINE call == req[s].call
  <2>1. /\ req' = req /\ ~Holds(s)
        /\ req[s].stage = "running"
        /\ call.op \in {"CreateDocument", "UpdateDocument", "DeleteDocument"}
    BY <1>5 DEF DocumentFound, OnDocuments, serverVars, CreateFinds, UpdateFinds, DeleteFinds
  <2>2. \E i, d : /\ Hold(s, i, d)
                  /\ DOMAIN d = DocFields /\ OwnedOnce(d) /\ d.companyId = req[s].for
                  /\ call.op # "CreateDocument" => i \in DOMAIN docs /\ SameOwner(d, docs[i])
    <3>1. CASE call.op = "CreateDocument" /\ CreateFinds(s, req[s].for, call.input)
      <4> DEFINE new == newDocument(req[s].for, call.input)
                 d == applyDocument(new, call.input)
      <4>1. DOMAIN new = DocFields /\ OwnedOnce(new) /\ new.companyId = req[s].for
        BY <3>1, NewIsOwnedOnce DEF CreateFinds
      <4> HIDE DEF new
      <4>2. DOMAIN d = DocFields /\ OwnedOnce(d) /\ d.companyId = req[s].for
        BY <4>1, EditKeepsOwner DEF SameOwner
      <4>3. Hold(s, Len(docs) + 1, d)
        BY <3>1 DEF CreateFinds, new
      <4> HIDE DEF d
      <4> QED
        BY <3>1, <4>2, <4>3
    <3>2. CASE call.op = "UpdateDocument" /\ UpdateFinds(s, req[s].for, call.id, call.input)
      <4> DEFINE d == applyDocument(docs[call.id], call.input)
      <4>1. call.id \in DOMAIN docs /\ docs[call.id].companyId = req[s].for /\ Hold(s, call.id, d)
        BY <3>2 DEF UpdateFinds, findDocument
      <4>2. DOMAIN d = DocFields /\ SameOwner(d, docs[call.id]) /\ OwnedOnce(d)
        BY <1>2, <4>1, EditKeepsOwner DEF Filed
      <4> HIDE DEF d
      <4> QED
        BY <4>1, <4>2 DEF SameOwner
    <3>3. CASE call.op = "DeleteDocument" /\ DeleteFinds(s, req[s].for, call.id)
      <4>1. /\ call.id \in DOMAIN docs /\ docs[call.id].companyId = req[s].for
            /\ Hold(s, call.id, docs[call.id])
        BY <3>3 DEF DeleteFinds, findDocument
      <4>2. DOMAIN docs[call.id] = DocFields /\ OwnedOnce(docs[call.id])
        BY <1>2, <4>1 DEF Filed
      <4> QED
        BY <4>1, <4>2 DEF SameOwner
    <3> QED
      BY <1>5, <3>1, <3>2, <3>3 DEF DocumentFound
  <2>3. PICK i, d : /\ Hold(s, i, d)
                    /\ DOMAIN d = DocFields /\ OwnedOnce(d) /\ d.companyId = req[s].for
                    /\ call.op # "CreateDocument" => i \in DOMAIN docs /\ SameOwner(d, docs[i])
    BY <2>2
  <2>4. /\ docs' = docs /\ DOMAIN held' = Slots
        /\ \A r \in Slots \ {s} : held'[r] = held[r]
        /\ held'[s] = [id |-> i, doc |-> d]
    BY <1>2, <2>3 DEF Hold
  <2>5. StaysPut /\ Filed'
    BY <1>2, <2>4 DEF StaysPut, Filed, OwnedOnce
  <2>6. GoodCopy(s)'
    <3>1. req[s] # Idle
      BY <2>1 DEF Idle
    <3> QED
      BY <2>1, <2>3, <2>4, <3>1 DEF GoodCopy, OwnedOnce
  <2>7. ASSUME NEW r \in Slots \ {s}, Holds(r)' PROVE GoodCopy(r)'
    <3>1. held'[r] = held[r] /\ held'[r] # Nothing
      BY <2>4, <2>7 DEF Holds
    <3> QED
      BY <1>1, <2>5, <3>1, CopiesStay DEF Holds
  <2> QED
    BY <2>4, <2>5, <2>6, <2>7 DEF DocInv, Copies
<1>6. ASSUME NEW s \in Slots, DocumentWritten(s) PROVE DocInv' /\ StaysPut
  <2> DEFINE op == req[s].call.op
             d == held[s].doc
             j == held[s].id
  <2>1. /\ OnDocuments(s)
        /\ \/ op = "CreateDocument" /\ CreateWrites(s)
           \/ op = "UpdateDocument" /\ UpdateWrites(s)
           \/ op = "DeleteDocument" /\ DeleteWrites(s)
    BY <1>6 DEF DocumentWritten
  <2>2. Holds(s) /\ Release(s)
    BY <2>1 DEF CreateWrites, UpdateWrites, DeleteWrites
  <2>3. GoodCopy(s)
    BY <2>2 DEF DocInv, Copies
  <2>4. /\ DOMAIN held' = Slots /\ held'[s] = Nothing
        /\ \A r \in Slots \ {s} : held'[r] = held[r]
    BY <1>2, <2>2 DEF Release
  <2>5. ASSUME NEW e, j \in DOMAIN docs, DOMAIN e = DocFields, SameOwner(e, docs[j]),
               docs[j].companyId = req[s].for, docs' = [docs EXCEPT ![j] = e]
        PROVE  Filed' /\ StaysPut
    BY <1>2, <2>1, <2>5, Replaced DEF StaysPut, SameOwner
  <2>6. CASE op = "CreateDocument" /\ CreateWrites(s)
    <3>1. docs' = Append(docs, d)
      BY <2>6 DEF CreateWrites
    <3>2. Filed' /\ StaysPut
      BY <1>2, <2>3, <3>1, Appended DEF GoodCopy, StaysPut
    <3> QED
      BY <1>3, <2>4, <3>2
  <2>7. CASE op = "UpdateDocument" /\ UpdateWrites(s)
    <3>1. docs' = [docs EXCEPT ![j] = d]
      BY <2>7 DEF UpdateWrites
    <3>2. /\ j \in DOMAIN docs /\ DOMAIN d = DocFields /\ SameOwner(d, docs[j])
          /\ docs[j].companyId = req[s].for
      BY <2>3, <2>7 DEF GoodCopy, SameOwner
    <3>3. Filed' /\ StaysPut
      BY <2>5, <3>1, <3>2
    <3> QED
      BY <1>3, <2>4, <3>3
  <2>8. CASE op = "DeleteDocument" /\ DeleteWrites(s)
    <3> DEFINE e == [docs[j] EXCEPT !.live = FALSE]
    <3>1. docs' = [docs EXCEPT ![j] = e]
      BY <2>8 DEF DeleteWrites
    <3>2. j \in DOMAIN docs /\ docs[j].companyId = req[s].for /\ DOMAIN docs[j] = DocFields
      BY <1>2, <2>3, <2>8 DEF GoodCopy, SameOwner, Filed
    <3>3. DOMAIN e = DocFields /\ SameOwner(e, docs[j])
      BY <3>2 DEF DocFields, SameOwner
    <3> HIDE DEF e
    <3>4. Filed' /\ StaysPut
      BY <2>5, <3>1, <3>2, <3>3
    <3> QED
      BY <1>3, <2>4, <3>4
  <2> QED
    BY <2>1, <2>6, <2>7, <2>8
<1>7. ASSUME NEW s \in Slots, DocumentFailed(s) PROVE DocInv' /\ StaysPut
  <2>1. docs' = docs /\ Release(s)
    BY <1>7 DEF DocumentFailed
  <2>2. /\ DOMAIN held' = Slots /\ held'[s] = Nothing
        /\ \A r \in Slots \ {s} : held'[r] = held[r]
    BY <1>2, <2>1 DEF Release
  <2>3. StaysPut /\ Filed'
    BY <1>2, <2>1 DEF StaysPut, Filed, OwnedOnce
  <2> QED
    BY <1>3, <2>2, <2>3
<1>8. ASSUME NEW s \in Slots, Serve(s) PROVE DocInv' /\ StaysPut
  BY <1>4, <1>5, <1>6, <1>7, <1>8 DEF Serve, DocumentRefused
<1> QED
  BY <1>4, <1>8 DEF Next, vars

\* A document has one owner, of its own company, for any requests side by side
\* (CreateDocument, UpdateDocument, Store.Update).
THEOREM OneOwnerAlways == Spec => []OneOwnerEach
<1>1. ReqShape /\ DocInv /\ [Next]_vars => (ReqShape /\ DocInv)'
  BY Moves, DocumentsStep DEF AllMove
<1>2. DocInv => OneOwnerEach
  BY DEF DocInv, Filed, OneOwnerEach
<1> QED
  BY <1>1, <1>2, InitInv, InitDocs, PTL DEF Spec

\* A document keeps its owner and its company and is changed only for that
\* company, though it is replaced by its identifier alone (scoped, findDocument,
\* applyDocument, Store.Update, SoftDelete).
THEOREM DocumentsKeepTheirPlace == Spec => DocumentsStayPut
<1>1. ReqShape /\ DocInv /\ [Next]_vars => (ReqShape /\ DocInv)'
  BY Moves, DocumentsStep DEF AllMove
<1>2. ReqShape /\ DocInv /\ [Next]_vars =>
        [\A i \in DOMAIN docs :
           /\ i \in DOMAIN docs'
           /\ docs'[i].companyId = docs[i].companyId
           /\ docs'[i].vehicleId = docs[i].vehicleId /\ docs'[i].driverId = docs[i].driverId
           /\ docs'[i] # docs[i] =>
                \E s \in Slots : OnDocuments(s) /\ req[s].for = docs[i].companyId]_vars
  BY DocumentsStep DEF StaysPut
<1> QED
  BY <1>1, <1>2, InitInv, InitDocs, PTL DEF Spec, DocumentsStayPut
-----------------------------------------------------------------------------
(* A seed that nobody edits under leaves its whole file behind.  SeedTakes *)
(* speaks of the end of a run; the invariant says it of the part that has  *)
(* been written so far.                                                    *)

EntryFields == {"kind", "shared", "code", "name", "live", "province"}
TaskFields ==
  {"stage", "file", "todo", "kind", "left", "provinceIDs", "dryRun", "missed"}

Listed ==
  store \in Seq(Values(store)) /\ \A i \in DOMAIN store : DOMAIN store[i] = EntryFields

\* What is left of a kind is the end of its list; provinces come before all else.
OnItsWay(t) ==
  /\ DOMAIN t = TaskFields
  /\ t.stage \in {"run", "done", "failed"}
  /\ t.file \in Files /\ t.todo \subseteq DOMAIN t.file
  /\ t.left \in Seq(Entries)
  /\ t.left # <<>> =>
       /\ t.kind \in (DOMAIN t.file \cap collections) \ t.todo
       /\ Len(t.left) <= Len(t.file[t.kind])
       /\ \A j \in 1..Len(t.left) :
            t.left[j] = t.file[t.kind][Len(t.file[t.kind]) - Len(t.left) + j]
       /\ t.kind = "provinsi" => t.todo = DOMAIN t.file \ {"provinsi"}
  /\ "provinsi" \in t.todo => t.todo = DOMAIN t.file /\ t.left = <<>>
  /\ t.stage = "done" => t.left = <<>> /\ t.todo = {}

TaskInv ==
  /\ DOMAIN task = Seeders
  /\ \A s \in Seeders \ {Process} : task[s] = Resting
  /\ task[Process] = Resting \/ OnItsWay(task[Process])

\* The entry is live in document i, a province is known by it, and a city
\* points at its province.
Shows(doc, i, ids, kind, e) ==
  /\ doc.kind = kind /\ doc.shared /\ doc.live /\ doc.code = e.code /\ doc.name = e.name
  /\ kind = "provinsi" => e.code \in DOMAIN ids /\ ids[e.code] = i
  /\ kind = "kota" /\ e.parent \in DOMAIN ids => doc.province = ids[e.parent]

\* Entry j of a kind is behind the task.
Behind(t, kind, j) ==
  /\ kind \in (DOMAIN t.file \cap collections) \ t.todo
  /\ j \in 1..Len(t.file[kind])
  /\ kind = t.kind => j <= Len(t.file[kind]) - Len(t.left)

Undisturbed(t) == quiet /\ t.stage \in {"run", "done"} /\ ~t.dryRun

Written ==
  Undisturbed(task[Process]) =>
    \A kind \in collections, j \in Nat :
      Behind(task[Process], kind, j) =>
        LET e == task[Process].file[kind][j] IN
        /\ ~Incomplete(e)
        /\ \E i \in DOMAIN store : Shows(store[i], i, task[Process].provinceIDs, kind, e)

SeedInv == Listed /\ TaskInv /\ Written

LEMMA ListedMore ==
  ASSUME Listed, NEW d, DOMAIN d = EntryFields, store' = Append(store, d)
  PROVE  /\ Listed' /\ DOMAIN store \subseteq DOMAIN store'
         /\ Len(store') \in DOMAIN store' \ DOMAIN store /\ store'[Len(store')] = d
         /\ \A i \in DOMAIN store : store'[i] = store[i]
<1>1. store \in Seq(Values(store))
  BY DEF Listed
<1>2. /\ store' \in Seq(Values(store')) /\ DOMAIN store \subseteq DOMAIN store'
      /\ Len(store') \in DOMAIN store' \ DOMAIN store /\ store'[Len(store')] = d
      /\ \A i \in DOMAIN store' : i \in DOMAIN store \/ i = Len(store')
      /\ \A i \in DOMAIN store : store'[i] = store[i]
  BY <1>1, AddLast, Zenon
<1> QED
  BY <1>2 DEF Listed

LEMMA ListedAgain ==
  ASSUME Listed, NEW j \in DOMAIN store, NEW d, DOMAIN d = EntryFields,
         store' = [store EXCEPT ![j] = d]
  PROVE  /\ Listed' /\ DOMAIN store' = DOMAIN store
         /\ \A i \in DOMAIN store : store'[i] = IF i = j THEN d ELSE store[i]
<1>1. /\ store' \in Seq(Values(store')) /\ DOMAIN store' = DOMAIN store
      /\ \A i \in DOMAIN store : store'[i] = IF i = j THEN d ELSE store[i]
  BY PutAt DEF Listed
<1> QED
  BY <1>1 DEF Listed

LEMMA InitSeed == DInit => SeedInv
<1> SUFFICES ASSUME DInit PROVE SeedInv
  OBVIOUS
<1>1. store = <<>> /\ task = [s \in Seeders |-> Resting] /\ Process \in Seeders
  BY DeploymentAssumption DEF DInit, SeedInit
<1>2. task[Process] = Resting /\ Resting.stage = "none"
  BY <1>1 DEF Resting
<1>3. Listed
  BY <1>1 DEF Listed
<1>4. TaskInv
  BY <1>1, <1>2 DEF TaskInv
<1>5. Written
  BY <1>2 DEF Written, Undisturbed
<1> QED
  BY <1>3, <1>4, <1>5 DEF SeedInv

\* The task is the only one, and what is said of it is said of all.
LEMMA OneTask ==
  ASSUME TaskInv, NEW u, OnItsWay(u), task' = [task EXCEPT ![Process] = u]
  PROVE  TaskInv' /\ task'[Process] = u
<1>1. DOMAIN task = Seeders /\ Process \in Seeders
  BY DeploymentAssumption DEF TaskInv
<1>2. task'[Process] = u /\ DOMAIN task' = Seeders
  BY <1>1
<1>3. \A s \in Seeders \ {Process} : task'[s] = task[s]
  BY <1>1
<1>4. (task'[Process] = Resting \/ OnItsWay(task'[Process]))
  BY <1>2
<1> QED
  BY <1>2, <1>3, <1>4 DEF TaskInv, OnItsWay

\* The entry in front is behind, or the task only counts.
LEMMA OneFurther ==
  ASSUME NEW t, OnItsWay(t), t.stage = "run", t.left # <<>>,
         NEW u, DOMAIN u = TaskFields, u.stage = t.stage, u.file = t.file, u.todo = t.todo,
         u.kind = t.kind, u.left = Tail(t.left)
  PROVE  OnItsWay(u) /\ Len(u.left) = Len(t.left) - 1
<1>1. t.left \in Seq(Entries) /\ Len(t.left) \in Nat \ {0}
  BY DEF OnItsWay
<1>2. /\ Tail(t.left) \in Seq(Entries) /\ Len(Tail(t.left)) = Len(t.left) - 1
      /\ \A j \in 1..Len(Tail(t.left)) : Tail(t.left)[j] = t.left[j + 1]
  BY <1>1
<1> DEFINE n == Len(t.file[t.kind])
<1>3. n \in Nat /\ Len(u.file[u.kind]) = n /\ Len(t.left) <= n
  <2>1. t.file[t.kind] \in Seq(Entries)
    BY SeedAssumption DEF OnItsWay
  <2>2. n \in Nat
    BY <2>1, LenProperties
  <2>3. u.file[u.kind] = t.file[t.kind]
    OBVIOUS
  <2>4. Len(t.left) <= n
    BY DEF OnItsWay
  <2> QED
    BY <2>2, <2>3, <2>4
<1>4. \A j \in 1..Len(u.left) :
        u.left[j] = u.file[u.kind][Len(u.file[u.kind]) - Len(u.left) + j]
  <2> TAKE j \in 1..Len(u.left)
  <2>1. j + 1 \in 1..Len(t.left) /\ u.left[j] = t.left[j + 1]
    BY <1>1, <1>2
  <2>2. t.left[j + 1] = t.file[t.kind][n - Len(t.left) + (j + 1)]
    BY <2>1 DEF OnItsWay
  <2> HIDE DEF n
  <2>3. n - Len(t.left) + (j + 1) = n - Len(u.left) + j
    <3> DEFINE m == Len(t.left)
    <3>1. m \in Nat /\ Len(u.left) = m - 1 /\ j \in Int
      BY <1>1, <1>2
    <3> HIDE DEF m
    <3>2. n - m + (j + 1) = n - (m - 1) + j
      BY <1>3, <3>1
    <3> QED
      BY <3>1, <3>2 DEF m
  <2> QED
    BY <1>3, <2>1, <2>2, <2>3
<1>5. Len(u.left) <= Len(u.file[u.kind])
  <2> HIDE DEF n
  <2> QED
    BY <1>1, <1>2, <1>3
<1> QED
  BY <1>1, <1>2, <1>4, <1>5 DEF OnItsWay

LEMMA SameSeed ==
  ASSUME SeedInv, UNCHANGED seedVars PROVE SeedInv'
<1>1. store' = store /\ task' = task /\ quiet' = quiet
  BY DEF seedVars
<1>2. Listed'
  BY <1>1 DEF SeedInv, Listed
<1>3. TaskInv'
  BY <1>1 DEF SeedInv, TaskInv
<1>4. Written'
  BY <1>1 DEF SeedInv, Written, Undisturbed
<1> QED
  BY <1>2, <1>3, <1>4 DEF SeedInv

LEMMA FailedKeeps ==
  ASSUME SeedInv, task[Process].stage = "run", Failed(Process), store' = store
  PROVE  SeedInv'
<1> DEFINE t == task[Process]
           u == [t EXCEPT !.stage = "failed"]
<1>1. OnItsWay(t)
  BY DEF SeedInv, TaskInv, Resting
<1>2. DOMAIN u = TaskFields /\ u.stage = "failed" /\ u.file = t.file /\ u.todo = t.todo
        /\ u.kind = t.kind /\ u.left = t.left
  BY <1>1 DEF OnItsWay, TaskFields
<1>3. OnItsWay(u)
  <2> HIDE DEF t, u
  <2> QED
    BY <1>1, <1>2 DEF OnItsWay
<1>4. task' = [task EXCEPT ![Process] = u]
  BY DEF Failed
<1>5. TaskInv' /\ task'[Process] = u
  BY <1>3, <1>4, OneTask DEF SeedInv
<1>6. Written'
  BY <1>2, <1>5 DEF Written, Undisturbed
<1>7. Listed'
  BY DEF SeedInv, Listed
<1> QED
  BY <1>5, <1>6, <1>7 DEF SeedInv

\* The task moves on and the documents stay: what is behind it was behind before.
LEMMA MovesOn ==
  ASSUME SeedInv, NEW u, OnItsWay(u), task' = [task EXCEPT ![Process] = u],
         store' = store, quiet' = quiet,
         Undisturbed(u) =>
           /\ Undisturbed(task[Process])
           /\ u.file = task[Process].file /\ u.provinceIDs = task[Process].provinceIDs
           /\ \A kind \in collections, j \in Nat :
                Behind(u, kind, j) => Behind(task[Process], kind, j)
  PROVE  SeedInv'
<1>1. TaskInv' /\ task'[Process] = u
  BY OneTask DEF SeedInv
<1>2. Listed'
  BY DEF SeedInv, Listed
<1>3. Written'
  <2> SUFFICES ASSUME Undisturbed(u)',
                      NEW kind \in collections, NEW j \in Nat, Behind(u, kind, j)
               PROVE  /\ ~Incomplete(u.file[kind][j])
                      /\ \E i \in DOMAIN store :
                           Shows(store[i], i, u.provinceIDs, kind, u.file[kind][j])
    BY <1>1 DEF Written
  <2>1. Undisturbed(u)
    BY DEF Undisturbed
  <2> QED
    BY <2>1 DEF SeedInv, Written
<1> QED
  BY <1>1, <1>2, <1>3 DEF SeedInv

LEMMA BeginKeeps == ASSUME SeedInv, BeginKind(Process) PROVE SeedInv'
<1> DEFINE t == task[Process]
<1>1. OnItsWay(t) /\ t.stage = "run" /\ t.left = <<>> /\ store' = store /\ quiet' = quiet
  BY DEF SeedInv, TaskInv, Resting, BeginKind
<1>2. PICK kind \in NextKinds(t.todo) :
        task' = [task EXCEPT ![Process].todo = @ \ {kind}, ![Process].kind = kind,
                   ![Process].left = IF kind \in collections THEN t.file[kind] ELSE <<>>]
  BY DEF BeginKind
<1>3. kind \in t.todo /\ ("provinsi" \in t.todo => kind = "provinsi")
  BY DEF NextKinds
<1> DEFINE next == IF kind \in collections THEN t.file[kind] ELSE <<>>
           u == [t EXCEPT !.todo = @ \ {kind}, !.kind = kind, !.left = next]
<1>4. task' = [task EXCEPT ![Process] = u]
  BY <1>2
<1>5. /\ DOMAIN u = TaskFields /\ u.todo = t.todo \ {kind} /\ u.kind = kind /\ u.left = next
      /\ u.stage = t.stage /\ u.file = t.file /\ u.provinceIDs = t.provinceIDs
      /\ u.dryRun = t.dryRun
  BY <1>1 DEF OnItsWay, TaskFields
<1>6. kind \in DOMAIN t.file /\ t.file[kind] \in Seq(Entries) /\ next \in Seq(Entries)
  BY <1>1, <1>3, SeedAssumption DEF OnItsWay
<1> HIDE DEF t, u, next
<1>7. Len(t.file[kind]) \in Nat
  BY <1>6
<1>8. next # <<>> => kind \in collections /\ next = t.file[kind]
  BY DEF next
<1>9. OnItsWay(u)
  <2>1. u.left # <<>> =>
          /\ u.kind \in (DOMAIN u.file \cap collections) \ u.todo
          /\ Len(u.left) <= Len(u.file[u.kind])
          /\ \A j \in 1..Len(u.left) :
               u.left[j] = u.file[u.kind][Len(u.file[u.kind]) - Len(u.left) + j]
    BY <1>5, <1>6, <1>7, <1>8
  <2>2. u.kind = "provinsi" => u.todo = DOMAIN u.file \ {"provinsi"}
    BY <1>1, <1>3, <1>5 DEF OnItsWay
  <2>3. "provinsi" \notin u.todo
    BY <1>3, <1>5
  <2> QED
    BY <1>1, <1>3, <1>5, <1>6, <2>1, <2>2, <2>3 DEF OnItsWay
<1>10. ASSUME NEW k \in collections, NEW j \in Nat, Behind(u, k, j) PROVE Behind(t, k, j)
  <2>1. k # kind
    <3>1. k = kind => next = t.file[kind] /\ j <= Len(t.file[kind]) - Len(next) /\ j \in 1..Len(t.file[kind])
      BY <1>5, <1>10 DEF Behind, next
    <3> QED
      BY <1>7, <3>1
  <2>2. t.file[k] \in Seq(Entries) /\ Len(t.file[k]) \in Nat
    BY <1>1, <1>5, <1>10, SeedAssumption DEF Behind, OnItsWay
  <2>3. Len(t.left) = 0
    BY <1>1
  <2> QED
    BY <1>5, <1>10, <2>1, <2>2, <2>3 DEF Behind
<1>11. Undisturbed(u) => Undisturbed(t)
  BY <1>5 DEF Undisturbed
<1> QED
  BY <1>1, <1>4, <1>5, <1>9, <1>10, <1>11, MovesOn DEF t

LEMMA DoneKeeps == ASSUME SeedInv, Done(Process) PROVE SeedInv'
<1> DEFINE t == task[Process]
           u == [t EXCEPT !.stage = "done"]
<1>1. /\ OnItsWay(t) /\ t.stage = "run" /\ t.left = <<>> /\ t.todo = {}
      /\ store' = store /\ quiet' = quiet
  BY DEF SeedInv, TaskInv, Resting, Done
<1>2. task' = [task EXCEPT ![Process] = u]
  BY DEF Done
<1>3. /\ DOMAIN u = TaskFields /\ u.stage = "done" /\ u.todo = t.todo /\ u.kind = t.kind
      /\ u.left = t.left /\ u.file = t.file /\ u.provinceIDs = t.provinceIDs
      /\ u.dryRun = t.dryRun
  BY <1>1 DEF OnItsWay, TaskFields
<1> HIDE DEF t, u
<1>4. OnItsWay(u)
  BY <1>1, <1>3 DEF OnItsWay
<1>5. \A kind \in collections, j \in Nat : Behind(u, kind, j) => Behind(t, kind, j)
  BY <1>3 DEF Behind
<1>6. Undisturbed(u) => Undisturbed(t)
  BY <1>1, <1>3 DEF Undisturbed
<1> QED
  BY <1>1, <1>2, <1>3, <1>4, <1>5, <1>6, MovesOn DEF t

LEMMA RehearseKeeps == ASSUME SeedInv, Rehearse(Process) PROVE SeedInv'
<1> DEFINE t == task[Process]
           u == [t EXCEPT !.left = Tail(@)]
<1>1. /\ OnItsWay(t) /\ t.stage = "run" /\ t.left # <<>> /\ t.dryRun
      /\ store' = store /\ quiet' = quiet
  BY DEF SeedInv, TaskInv, Resting, Rehearse
<1>2. task' = [task EXCEPT ![Process] = u]
  BY DEF Rehearse
<1>3. /\ DOMAIN u = TaskFields /\ u.stage = t.stage /\ u.todo = t.todo /\ u.kind = t.kind
      /\ u.left = Tail(t.left) /\ u.file = t.file /\ u.dryRun
  BY <1>1 DEF OnItsWay, TaskFields
<1> HIDE DEF t, u
<1>4. OnItsWay(u)
  BY <1>1, <1>3, OneFurther
<1>5. ~Undisturbed(u)
  BY <1>3 DEF Undisturbed
<1> QED
  BY <1>1, <1>2, <1>4, <1>5, MovesOn DEF t

LEMMA MissKeeps == ASSUME SeedInv, Miss(Process) PROVE SeedInv'
<1> DEFINE t == task[Process]
           u == [t EXCEPT !.missed = TRUE]
<1>1. OnItsWay(t) /\ store' = store /\ quiet' = quiet
  BY DEF SeedInv, TaskInv, Resting, Miss, Writing
<1>2. task' = [task EXCEPT ![Process] = u]
  BY DEF Miss
<1>3. /\ DOMAIN u = TaskFields /\ u.stage = t.stage /\ u.todo = t.todo /\ u.kind = t.kind
      /\ u.left = t.left /\ u.file = t.file /\ u.provinceIDs = t.provinceIDs
      /\ u.dryRun = t.dryRun
  BY <1>1 DEF OnItsWay, TaskFields
<1> HIDE DEF t, u
<1>4. OnItsWay(u)
  BY <1>1, <1>3 DEF OnItsWay
<1>5. \A kind \in collections, j \in Nat : Behind(u, kind, j) => Behind(t, kind, j)
  BY <1>3 DEF Behind
<1>6. Undisturbed(u) => Undisturbed(t)
  BY <1>3 DEF Undisturbed
<1> QED
  BY <1>1, <1>2, <1>3, <1>4, <1>5, <1>6, MovesOn DEF t

\* A run begins with everything before it.
LEMMA RunKeeps ==
  ASSUME SeedInv, NEW file \in Files, NEW dryRun, Run(Process, file, dryRun)
  PROVE  SeedInv'
<1> DEFINE u == [stage |-> "run", file |-> file, todo |-> DOMAIN file, kind |-> Absent,
                 left |-> <<>>, provinceIDs |-> <<>>, dryRun |-> dryRun, missed |-> FALSE]
<1>1. task' = [task EXCEPT ![Process] = u] /\ store' = store
  BY DEF Run
<1>2. OnItsWay(u)
  BY DEF OnItsWay, TaskFields
<1>3. TaskInv' /\ task'[Process] = u
  BY <1>1, <1>2, OneTask DEF SeedInv
<1>4. u.todo = DOMAIN u.file
  OBVIOUS
<1> HIDE DEF u
<1>5. Written'
  BY <1>3, <1>4 DEF Written, Behind
<1>6. Listed'
  BY <1>1 DEF SeedInv, Listed
<1> QED
  BY <1>3, <1>5, <1>6 DEF SeedInv

\* People's edits end the quiet.
LEMMA PeopleKeep == ASSUME SeedInv, People PROVE SeedInv'
<1>1. task' = task /\ quiet' = FALSE
  BY DEF People, HandAdd, HandRetire
<1>2. Listed'
  <2>1. ASSUME NEW e \in HandEntries, HandAdd(e) PROVE Listed'
    <3>1. PICK shared \in BOOLEAN :
            store' = Append(store, [kind |-> e.kind, shared |-> shared, code |-> e.code,
                                    name |-> e.name, live |-> TRUE, province |-> 0])
      BY <2>1 DEF HandAdd
    <3> DEFINE d == [kind |-> e.kind, shared |-> shared, code |-> e.code,
                     name |-> e.name, live |-> TRUE, province |-> 0]
    <3>2. DOMAIN d = EntryFields
      BY DEF EntryFields
    <3> HIDE DEF d
    <3>3. store' = Append(store, d) /\ Listed
      BY <3>1 DEF d, SeedInv
    <3> QED
      BY <3>2, <3>3, ListedMore
  <2>2. ASSUME NEW i \in Ids, HandRetire(i) PROVE Listed'
    <3>1. store' = [store EXCEPT ![i] = [store[i] EXCEPT !.live = FALSE]]
      BY <2>2 DEF HandRetire
    <3>2. DOMAIN [store[i] EXCEPT !.live = FALSE] = EntryFields
      BY DEF SeedInv, Listed, Ids
    <3> QED
      BY <3>1, <3>2, ListedAgain DEF SeedInv, Ids
  <2> QED
    BY <2>1, <2>2 DEF People
<1>3. TaskInv'
  BY <1>1 DEF SeedInv, TaskInv
<1>4. Written'
  BY <1>1 DEF Written, Undisturbed
<1> QED
  BY <1>2, <1>3, <1>4 DEF SeedInv

\* An entry is written into document i.  Only that document changes, and if it
\* was there it matched, so it is none that this run has written: entries of a
\* kind differ in code and in name.
LEMMA WroteKeeps ==
  ASSUME SeedInv, Writing(Process), quiet' = quiet, Listed',
         NEW e, e = Head(task[Process].left), NEW i \in DOMAIN store',
         Wrote(Process, i, e),
         DOMAIN store \subseteq DOMAIN store',
         \A k \in DOMAIN store : k # i => store'[k] = store[k],
         i \in DOMAIN store => i \in Matches(task[Process].kind, e),
         store'[i].kind = task[Process].kind, store'[i].shared, store'[i].live,
         store'[i].code = e.code, store'[i].name = e.name,
         task[Process].kind = "kota" /\ e.parent \in DOMAIN task[Process].provinceIDs =>
           store'[i].province = task[Process].provinceIDs[e.parent]
  PROVE  SeedInv'
<1> DEFINE t == task[Process]
           ids == t.provinceIDs
           ids1 == IF t.kind = "provinsi"
                   THEN [c \in DOMAIN ids \cup {e.code} |-> IF c = e.code THEN i ELSE ids[c]]
                   ELSE ids
<1> PICK u : u = [t EXCEPT !.left = Tail(@), !.missed = FALSE, !.provinceIDs = ids1]
  OBVIOUS
<1>1. OnItsWay(t) /\ t.stage = "run" /\ t.left # <<>> /\ ~Incomplete(e)
  BY DEF SeedInv, TaskInv, Resting, Writing
<1>2. task' = [task EXCEPT ![Process] = u]
  BY DEF Wrote
<1>3. /\ DOMAIN u = TaskFields /\ u.stage = t.stage /\ u.todo = t.todo /\ u.kind = t.kind
      /\ u.left = Tail(t.left) /\ u.file = t.file /\ u.dryRun = t.dryRun
      /\ u.provinceIDs = ids1
  BY <1>1 DEF OnItsWay, TaskFields
<1> DEFINE list == t.file[t.kind]
           n == Len(list) - Len(t.left)
<1> HIDE DEF t, ids1, ids
<1>4. OnItsWay(u) /\ Len(u.left) = Len(t.left) - 1
  BY <1>1, <1>3, OneFurther
<1>5. TaskInv' /\ task'[Process] = u
  BY <1>2, <1>4, OneTask DEF SeedInv
<1>6. /\ list \in Seq(Entries) /\ Len(list) \in Nat /\ Len(t.left) \in Nat \ {0}
      /\ n \in Nat /\ n + 1 \in 1..Len(list) /\ e = list[n + 1]
      /\ t.kind \in (DOMAIN t.file \cap collections) \ t.todo
  <2> HIDE DEF list
  <2>1. list \in Seq(Entries) /\ Len(list) \in Nat
    <3>1. list \in Seq(Entries)
      BY <1>1, SeedAssumption DEF OnItsWay, list
    <3> QED
      BY <3>1, LenProperties
  <2>2. Len(t.left) \in Nat \ {0} /\ e = t.left[1]
    BY <1>1 DEF OnItsWay, t
  <2>3. Len(t.left) <= Len(list) /\ t.left[1] = list[n + 1]
    <3>1. 1 \in 1..Len(t.left)
      BY <2>2
    <3>2. /\ Len(t.left) <= Len(list)
          /\ \A j \in 1..Len(t.left) : t.left[j] = list[Len(list) - Len(t.left) + j]
      BY <1>1 DEF OnItsWay, list
    <3> QED
      BY <3>1, <3>2
  <2>4. n \in Nat /\ n + 1 \in 1..Len(list)
    BY <2>1, <2>2, <2>3
  <2> QED
    BY <1>1, <2>1, <2>2, <2>3, <2>4 DEF OnItsWay
<1>7. Written'
  <2> SUFFICES ASSUME Undisturbed(u)',
                      NEW kind \in collections, NEW j \in Nat, Behind(u, kind, j)
               PROVE  /\ ~Incomplete(u.file[kind][j])
                      /\ \E k \in DOMAIN store' :
                           Shows(store'[k], k, ids1, kind, u.file[kind][j])
    BY <1>3, <1>5 DEF Written
  <2>1. Undisturbed(t)
    BY <1>3 DEF Undisturbed
  <2> DEFINE x == t.file[kind][j]
  <2>2. CASE kind = t.kind /\ j = n + 1
    <3>1. x = e
      BY <1>6, <2>2
    <3>2. Shows(store'[i], i, ids1, kind, e)
      BY <2>2 DEF Shows, ids1, ids, t
    <3> QED
      BY <1>1, <1>3, <3>1, <3>2
  <2>3. CASE ~(kind = t.kind /\ j = n + 1)
    <3>1. Behind(t, kind, j)
      <4>1. kind = t.kind => j <= Len(list) - (Len(t.left) - 1)
        BY <1>3, <1>4 DEF Behind
      <4> DEFINE a == Len(list)
                 b == Len(t.left)
      <4>2. a \in Nat /\ b \in Nat /\ n = a - b
        BY <1>6
      <4>3. kind = t.kind => j <= a - (b - 1) /\ j # a - b + 1
        BY <2>3, <4>1
      <4>4. kind = t.kind => j <= n
        <5> HIDE DEF a, b, n
        <5> QED
          BY <4>2, <4>3
      <4> QED
        BY <1>3, <4>4 DEF Behind
    <3>2. ~Incomplete(x) /\ \E k \in DOMAIN store : Shows(store[k], k, ids, kind, x)
      BY <2>1, <3>1 DEF SeedInv, Written, t, ids
    <3>3. PICK k \in DOMAIN store : Shows(store[k], k, ids, kind, x)
      BY <3>2
    <3>4. kind = t.kind => x.code # e.code /\ Norm[x.name] # Norm[e.name]
      <4> HAVE kind = t.kind
      <4>1. j \in DOMAIN list /\ n + 1 \in DOMAIN list /\ j # n + 1 /\ t.file \in Files
              /\ t.kind \in DOMAIN t.file
        <5>1. j \in 1..Len(list)
          BY <3>1 DEF Behind
        <5>2. DOMAIN list = 1..Len(list)
          BY <1>6, LenProperties
        <5> QED
          BY <1>1, <1>6, <2>3, <5>1, <5>2 DEF OnItsWay
      <4>2. \A a, b \in DOMAIN list :
              a # b /\ list[a].name # Absent /\ list[b].name # Absent =>
                list[a].code # list[b].code /\ Norm[list[a].name] # Norm[list[b].name]
        BY <4>1, SeedAssumption
      <4>3. x = list[j] /\ x.name # Absent /\ e.name # Absent /\ e = list[n + 1]
        BY <1>1, <1>6, <3>2 DEF Incomplete
      <4> HIDE DEF n, list, x
      <4> QED
        BY <4>1, <4>2, <4>3
    <3>5. k # i
      BY <3>3, <3>4 DEF Matches, Shows, t
    <3>6. store'[k] = store[k] /\ k \in DOMAIN store'
      BY <3>5
    <3>7. kind = "provinsi" => x.code \in DOMAIN ids1 /\ ids1[x.code] = k
      BY <3>3, <3>4 DEF Shows, ids1
    <3>8. kind = "kota" => ids1 = ids
      <4>1. kind = "kota" => t.kind # "provinsi"
        BY <1>1, <3>1 DEF Behind, OnItsWay
      <4> QED
        BY <4>1 DEF ids1
    <3>9. Shows(store'[k], k, ids1, kind, x)
      BY <3>3, <3>6, <3>7, <3>8 DEF Shows
    <3> QED
      BY <1>3, <3>2, <3>6, <3>9
  <2> QED
    BY <2>2, <2>3
<1> QED
  BY <1>5, <1>7 DEF SeedInv

LEMMA UpdateKeeps == ASSUME SeedInv, Update(Process) PROVE SeedInv'
<1> DEFINE t == task[Process]
           e == Head(t.left)
<1>1. Writing(Process) /\ quiet' = quiet
  BY DEF Update
<1>2. PICK i \in Matches(t.kind, e) :
        \/ store' = [store EXCEPT ![i] = Set(Process, @, e)] /\ Wrote(Process, i, e)
        \/ Failed(Process) /\ store' = store
  BY DEF Update
<1>3. CASE Failed(Process) /\ store' = store
  BY <1>1, <1>3, FailedKeeps DEF Writing
<1>4. CASE store' = [store EXCEPT ![i] = Set(Process, @, e)] /\ Wrote(Process, i, e)
  <2> DEFINE d == Set(Process, store[i], e)
  <2>1. i \in DOMAIN store /\ store[i].kind = t.kind /\ store[i].shared
          /\ DOMAIN store[i] = EntryFields
    BY DEF Matches, Ids, SeedInv, Listed
  <2>2. /\ DOMAIN d = EntryFields /\ d.kind = t.kind /\ d.shared /\ d.live
        /\ d.code = e.code /\ d.name = e.name
        /\ t.kind = "kota" /\ e.parent \in DOMAIN t.provinceIDs =>
             d.province = t.provinceIDs[e.parent]
    BY <2>1 DEF Set, EntryFields
  <2> HIDE DEF d
  <2>3. store' = [store EXCEPT ![i] = d]
    BY <1>4 DEF d
  <2>4. /\ Listed' /\ DOMAIN store' = DOMAIN store
        /\ \A k \in DOMAIN store : store'[k] = IF k = i THEN d ELSE store[k]
    BY <2>1, <2>2, <2>3, ListedAgain DEF SeedInv
  <2> QED
    BY <1>1, <1>4, <2>1, <2>2, <2>4, WroteKeeps
<1> QED
  BY <1>2, <1>3, <1>4

LEMMA InsertKeeps == ASSUME SeedInv, Insert(Process) PROVE SeedInv'
<1> DEFINE t == task[Process]
           e == Head(t.left)
           new == [kind |-> t.kind, shared |-> TRUE, code |-> e.code, name |-> e.name,
                   live |-> TRUE, province |-> 0]
           d == Set(Process, new, e)
<1>1. Writing(Process) /\ quiet' = quiet
  BY DEF Insert
<1>2. \/ store' = Append(store, d) /\ Wrote(Process, Len(store'), e)
      \/ Failed(Process) /\ store' = store
  BY DEF Insert
<1>3. /\ DOMAIN d = EntryFields /\ d.kind = t.kind /\ d.shared /\ d.live
      /\ d.code = e.code /\ d.name = e.name
      /\ t.kind = "kota" /\ e.parent \in DOMAIN t.provinceIDs =>
           d.province = t.provinceIDs[e.parent]
  BY DEF Set, EntryFields
<1> HIDE DEF d
<1>4. CASE Failed(Process) /\ store' = store
  BY <1>1, <1>4, FailedKeeps DEF Writing
<1>5. CASE store' = Append(store, d) /\ Wrote(Process, Len(store'), e)
  <2>1. /\ Listed' /\ DOMAIN store \subseteq DOMAIN store'
        /\ Len(store') \in DOMAIN store' \ DOMAIN store /\ store'[Len(store')] = d
        /\ \A k \in DOMAIN store : store'[k] = store[k]
    BY <1>3, <1>5, ListedMore DEF SeedInv
  <2> QED
    BY <1>1, <1>3, <1>5, <2>1, WroteKeeps
<1> QED
  BY <1>2, <1>4, <1>5

LEMMA SeedStays == ASSUME SeedInv, [Next]_vars PROVE SeedInv'
<1>1. CASE UNCHANGED seedVars
  BY <1>1, SameSeed
<1>2. CASE SeedStep(Process)
  <2>1. CASE Reject(Process) \/ Abort(Process)
    BY <2>1, FailedKeeps DEF Reject, Abort
  <2> QED
    BY <1>2, <2>1, BeginKeeps, DoneKeeps, RehearseKeeps, UpdateKeeps, MissKeeps, InsertKeeps
    DEF SeedStep
<1>3. CASE SeedKilled
  BY <1>1, <1>3, FailedKeeps DEF SeedKilled
<1>4. CASE StartSeeding
  BY <1>4, RunKeeps DEF StartSeeding
<1>5. CASE Edits
  BY <1>5, PeopleKeep DEF Edits
<1>6. UNCHANGED seedVars \/ SeedStep(Process) \/ SeedKilled \/ StartSeeding \/ Edits
  <2>1. ASSUME NEW s \in Slots, Serve(s) PROVE UNCHANGED seedVars
    BY <2>1 DEF Serve, DocumentFound, DocumentRefused, DocumentWritten, DocumentFailed
  <2> QED
    BY <2>1 DEF Next, vars, Seeding, SeedReturns, Again
<1> QED
  BY <1>1, <1>2, <1>3, <1>4, <1>5, <1>6

\* At the end nothing is before the task, and the provinces are known.
LEMMA AllTaken == ASSUME SeedInv PROVE SeedTakes
<1> SUFFICES ASSUME NEW s \in Seeders, task[s].stage = "done", ~task[s].dryRun, quiet,
                    NEW kind \in DOMAIN task[s].file \cap collections,
                    NEW e \in ToSet(task[s].file[kind])
             PROVE  \E i \in Ids :
                      /\ store[i].kind = kind /\ store[i].shared /\ store[i].live
                      /\ store[i].code = e.code /\ store[i].name = e.name
                      /\ kind = "kota" /\ "provinsi" \in DOMAIN task[s].file
                           /\ e.parent \in {p.code : p \in ToSet(task[s].file["provinsi"])} =>
                         LET p == store[i].province IN
                         /\ p \in Ids /\ store[p].kind = "provinsi" /\ store[p].live
                         /\ store[p].code = e.parent
  BY DEF SeedTakes
<1> DEFINE t == task[Process]
<1>1. s = Process /\ OnItsWay(t) /\ t.left = <<>> /\ t.todo = {} /\ Undisturbed(t)
  <2>1. task[s] # Resting
    BY DEF Resting
  <2>2. s = Process /\ OnItsWay(t)
    BY <2>1 DEF SeedInv, TaskInv
  <2>3. t.stage = "done" /\ ~t.dryRun
    BY <2>2
  <2> HIDE DEF t
  <2> QED
    BY <2>2, <2>3 DEF OnItsWay, Undisturbed
<1>2. ASSUME NEW k \in DOMAIN t.file \cap collections, NEW x \in ToSet(t.file[k])
      PROVE  \E i \in DOMAIN store : Shows(store[i], i, t.provinceIDs, k, x)
  <2>1. PICK j \in DOMAIN t.file[k] : x = t.file[k][j]
    BY DEF ToSet
  <2>2. t.file[k] \in Seq(Entries)
    BY <1>1, SeedAssumption DEF OnItsWay
  <2>3. j \in 1..Len(t.file[k]) /\ j \in Nat /\ Len(t.file[k]) \in Nat
    BY <2>2
  <2>4. Len(t.left) = 0
    BY <1>1
  <2>5. Behind(t, k, j)
    BY <1>1, <2>3, <2>4 DEF Behind
  <2> QED
    BY <1>1, <2>1, <2>3, <2>5 DEF SeedInv, Written
<1>3. PICK i \in DOMAIN store : Shows(store[i], i, t.provinceIDs, kind, e)
  BY <1>1, <1>2
<1>4. ASSUME kind = "kota", "provinsi" \in DOMAIN t.file,
             NEW q \in ToSet(t.file["provinsi"]), e.parent = q.code
      PROVE  /\ store[i].province \in DOMAIN store
             /\ store[store[i].province].kind = "provinsi" /\ store[store[i].province].live
             /\ store[store[i].province].code = e.parent
  <2>1. "provinsi" \in DOMAIN t.file \cap collections
    BY <1>4 DEF collections
  <2>2. PICK m \in DOMAIN store : Shows(store[m], m, t.provinceIDs, "provinsi", q)
    BY <1>2, <2>1
  <2>3. q.code \in DOMAIN t.provinceIDs /\ t.provinceIDs[q.code] = m
    BY <2>2 DEF Shows
  <2>4. store[i].province = m
    BY <1>3, <1>4, <2>3 DEF Shows
  <2> QED
    BY <1>4, <2>2, <2>4 DEF Shows
<1> QED
  BY <1>1, <1>3, <1>4 DEF Ids, Shows

\* A seed that went through, and that nobody edited under, has left every entry
\* of its file live under its own code and name, and every city pointing at the
\* live province its file names, whatever the lists held before, whichever of
\* the documents that match is found, and however earlier runs ended
\* (seed.go, Run).
THEOREM TheSeedTakes == Spec => []SeedTakes
<1>1. DInit => SeedInv
  BY InitSeed
<1>2. SeedInv /\ [Next]_vars => SeedInv'
  BY SeedStays
<1>3. SeedInv => SeedTakes
  BY AllTaken
<1> QED
  BY <1>1, <1>2, <1>3, PTL DEF Spec
=============================================================================
