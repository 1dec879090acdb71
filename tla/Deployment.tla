----------------------------- MODULE Deployment -----------------------------
(***************************************************************************)
(* The binary as it is deployed: started in some environment it either     *)
(* serves, or loads the reference lists and ends (cmd/server/main.go, the  *)
(* seed argument).  Of the services behind the server the one that keeps   *)
(* documents is here, so that what a request does to them is seen together *)
(* with who sent it and with when it is cut off.  A task that has ended    *)
(* may be started again, with the file as it then is; of a server that has *)
(* ended nothing is left.                                                  *)
(***************************************************************************)
EXTENDS Server, Seed, Documents

CONSTANTS
  Process,   \* the task the process runs when it is started to seed
  FirstDocument

ASSUME DeploymentAssumption ==
  /\ Process \in Seeders
  /\ Workers = Slots
  /\ DOMAIN FirstDocument = {"companyId", "vehicleId", "driverId", "docType", "live"}
  /\ OwnedOnce(FirstDocument)

vars == <<serverVars, seedVars, docVars>>

DInit == Init /\ SeedInit /\ DocInit(FirstDocument)

\* seed.Run, with the file the task was started with.
StartSeeding ==
  /\ phase = "seed"
  /\ task[Process].stage # "run"
  /\ \E file \in Files : Run(Process, file, "--dry-run" \in env.args)
  /\ phase' = "seeding"
  /\ UNCHANGED <<env, load, cause, code, grpc, http, health, errCh, stop, deadline, remote, sink,
                 stdout, collector, req>>

Seeding ==
  /\ phase = "seeding"
  /\ SeedStep(Process)
  /\ UNCHANGED serverVars

\* Run returns, with an error or without.
SeedReturns ==
  /\ phase = "seeding"
  /\ task[Process].stage # "run"
  /\ Return("seeded", IF task[Process].stage = "failed" THEN 1 ELSE 0)
  /\ UNCHANGED <<env, load, grpc, http, health, errCh, stop, deadline, remote, sink, stdout,
                 collector, req, seedVars>>

\* A signal ends a task where it is.
SeedKilled ==
  /\ Signal
  /\ IF task[Process].stage = "run"
     THEN Failed(Process) /\ UNCHANGED <<store, hands, runs, quiet>> ELSE UNCHANGED seedVars

Again ==
  /\ phase = "exit" /\ "seed" \in env.args /\ runs < MaxRuns
  /\ env' \in {e \in Envs : "seed" \in e.args}
  /\ phase' = "load" /\ cause' = "none" /\ code' = 0 /\ stop' = FALSE
  /\ sink' = "none" /\ stdout' = {} /\ collector' = {}
  /\ grpc' = "off" /\ http' = "off"
  /\ UNCHANGED <<load, health, errCh, deadline, remote, req, seedVars>>

\* People edit before a task and while it runs, which is where it matters: a
\* server does not read the lists in this module.
Edits == "seed" \in env.args /\ phase \in {"load", "seeding"} /\ People /\ UNCHANGED serverVars

-----------------------------------------------------------------------------
\* A request about documents that got to the service.
OnDocuments(s) ==
  /\ phase # "exit" /\ req[s].stage = "running"
  /\ req[s].port = "http"
  /\ req[s].call.op \in {"CreateDocument", "UpdateDocument", "DeleteDocument"}

DocumentFound(s) ==
  /\ OnDocuments(s)
  /\ LET call == req[s].call IN
     \/ call.op = "CreateDocument" /\ CreateFinds(s, req[s].for, call.input)
     \/ call.op = "UpdateDocument" /\ UpdateFinds(s, req[s].for, call.id, call.input)
     \/ call.op = "DeleteDocument" /\ DeleteFinds(s, req[s].for, call.id)
  /\ UNCHANGED <<serverVars, seedVars>>

\* What is not found, or not valid: an owner may have been retired.
DocumentRefused(s) ==
  /\ OnDocuments(s) /\ ~Holds(s)
  /\ LET call == req[s].call IN
     \/ call.op = "CreateDocument" /\ Answered(s, response(call.op, "Validation"), TRUE)
     \/ /\ call.op # "CreateDocument" /\ ~findDocument(req[s].for, call.id)
        /\ Answered(s, response(call.op, "NotFound"), TRUE)
  /\ UNCHANGED <<requestsOnly, seedVars, docVars>>

\* The write, and the answer, which is an error if the store's own is lost.
DocumentWritten(s) ==
  /\ OnDocuments(s)
  /\ LET op == req[s].call.op IN
     /\ \/ op = "CreateDocument" /\ CreateWrites(s)
        \/ op = "UpdateDocument" /\ UpdateWrites(s)
        \/ op = "DeleteDocument" /\ DeleteWrites(s)
     /\ \E err \in {"ok", "other"} : Answered(s, response(op, err), TRUE)
  /\ UNCHANGED <<requestsOnly, seedVars>>

\* The store refuses it.
DocumentFailed(s) ==
  /\ OnDocuments(s) /\ Holds(s)
  /\ Answered(s, response(req[s].call.op, "other"), TRUE)
  /\ Release(s)
  /\ UNCHANGED <<requestsOnly, seedVars, docs>>

Serve(s) ==
  \/ (Accept(s) \/ AdmitHTTP(s) \/ AdmitRPC(s) \/ Panic(s)) /\ UNCHANGED <<seedVars, docVars>>
  \/ ~OnDocuments(s) /\ Finish(s) /\ UNCHANGED <<seedVars, docVars>>
  \/ DocumentFound(s) \/ DocumentRefused(s) \/ DocumentWritten(s) \/ DocumentFailed(s)

Next ==
  \/ (Main \/ ServeGrpc \/ ListenAndServe \/ Deadline) /\ UNCHANGED <<seedVars, docVars>>
  \/ \E s \in Slots : Serve(s)
  \/ (SeedKilled \/ StartSeeding \/ Seeding \/ SeedReturns \/ Again \/ Edits)
     /\ UNCHANGED docVars

\* The main goroutine runs, and the timer of a context fires.  Of requests
\* nothing is assumed: a handler may never return.
Fairness ==
  /\ WF_vars(Main /\ UNCHANGED <<seedVars, docVars>>)
  /\ WF_vars(Deadline /\ UNCHANGED <<seedVars, docVars>>)

Spec == DInit /\ [][Next]_vars /\ Fairness

\* A document keeps its owner and its company, and only a request that acts for
\* that company, and is not yet answered, changes it (UpdateDocument: "The owner
\* is fixed; a document does not move between a truck and a person"; scoped).
DocumentsStayPut ==
  [][\A i \in DOMAIN docs :
       /\ i \in DOMAIN docs'
       /\ docs'[i].companyId = docs[i].companyId
       /\ docs'[i].vehicleId = docs[i].vehicleId /\ docs'[i].driverId = docs[i].driverId
       /\ docs'[i] # docs[i] =>
            \E s \in Slots : OnDocuments(s) /\ req[s].for = docs[i].companyId]_vars
=============================================================================
