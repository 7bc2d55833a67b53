---------------------------- MODULE DemoControl ----------------------------
(***************************************************************************)
(* The demo control-plane of the console server (ui/server/control.ts):    *)
(* the client processes it spawns and tracks, and the reset job that stops *)
(* everything, wipes Kafka and VoltDB and starts the pipeline again.       *)
(*                                                                         *)
(* The server is single-threaded: code between two awaits is one action.   *)
(* HTTP handlers and the job interleave at their awaits.  Processes, Kafka *)
(* and VoltDB are outside: a command is modelled by what it may leave      *)
(* behind and by the exit status the code looks at.                        *)
(***************************************************************************)
EXTENDS Integers, Sequences, FiniteSets

CONSTANTS
  None,
  Requests,     \* bound: HTTP requests handled at the same time
  MaxSpawns,    \* bound: client processes spawned
  MaxResets,    \* bound: resets started
  MaxBegun      \* bound: the two and the status request together

ASSUME ControlBoundsAssumption ==
  /\ {MaxSpawns, MaxResets, MaxBegun} \subseteq Nat
  /\ None \notin Nat /\ None \notin BOOLEAN

Kinds == {"loadgen", "querybench"}
Pids  == 1 .. MaxSpawns

Steps == << "stop-clients", "stop-pipeline", "kafka-teardown", "kafka-create",
            "voltdb-reset", "start-pipeline", "verify" >>
StepIds == {Steps[i] : i \in DOMAIN Steps}
(* The steps whose failure ends the job: the others' results are not tested. *)
Gating == {"stop-pipeline", "kafka-teardown", "kafka-create", "voltdb-reset"}

VARIABLES
  children,   \* the spawned processes: sequence of [kind, state]
  procs,      \* kind -> index of the tracked child, or None
  handlers,   \* request -> where its handler awaits
  job,        \* the reset job: state, steps
  stopping,   \* the client kind whose pkill the job awaits, or None
  resets,     \* resets started (bounds the run)
  pipeline,   \* the pipeline process: stopped, starting, subscribed
  launches,   \* launches dispatched that have had no effect yet
  marked,     \* voltsp.log holds the line verify looks for
  topics,     \* Kafka topics, and the data in VoltDB: from before this reset
  data,       \* ("old"), gone, or made by it ("new")
  status,     \* the status request: None, or what it has found so far
  swept,      \* history: kinds swept by a pkill since their last spawn
  fresh,      \* history: a pipeline subscribed since this reset's launch
  stray       \* history: a reset began while a launch was on its way

serverVars == <<handlers, procs, job, stopping, resets>>
worldVars  == <<pipeline, launches, marked, topics, data, fresh, stray>>
vars == <<children, swept, status, serverVars, worldVars>>

(* Bound: a reset while there is a status request counts twice.             *)
Begun == Len(children) + resets + (IF status = None THEN 0 ELSE 1 + resets)
WithinBounds == Begun <= MaxBegun

Idle == [op |-> "idle", kind |-> None, pid |-> None]

(* A child is tracked whose exitCode is null: it runs, or it was killed by  *)
(* a signal and has a signalCode instead.                                   *)
HoldsProcess(k) == procs[k] # None /\ children[procs[k]].state # "exited"

----------------------------------------------------------------------------
(* startJava and stopProc *)

(* The test at its top, then mkdir and open are awaited.  A request that    *)
(* fails it is answered with an error and leaves no trace.                  *)
BeginStart(r, k) ==
  /\ handlers[r] = Idle
  /\ ~HoldsProcess(k)
  /\ handlers' = [handlers EXCEPT ![r] = [op |-> "opening", kind |-> k, pid |-> None]]
  /\ UNCHANGED <<children, swept, status, procs, job, stopping, resets, worldVars>>

(* The child runs; the close of the log file is awaited.                    *)
Spawn(r) ==
  /\ handlers[r].op = "opening"
  /\ Len(children) < MaxSpawns
  /\ children' = Append(children, [kind |-> handlers[r].kind, state |-> "running"])
  /\ handlers' = [handlers EXCEPT ![r].op = "closing", ![r].pid = Len(children) + 1]
  /\ swept' = swept \ {handlers[r].kind}
  /\ UNCHANGED <<status, procs, job, stopping, resets, worldVars>>
  /\ WithinBounds'

Register(r) ==
  /\ handlers[r].op = "closing"
  /\ procs' = [procs EXCEPT ![handlers[r].kind] = handlers[r].pid]
  /\ handlers' = [handlers EXCEPT ![r] = Idle]
  /\ UNCHANGED <<children, swept, status, job, stopping, resets, worldVars>>

(* A failure of mkdir, open or close.                                       *)
StartFails(r) ==
  /\ handlers[r].op \in {"opening", "closing"}
  /\ handlers' = [handlers EXCEPT ![r] = Idle]
  /\ UNCHANGED <<children, swept, status, procs, job, stopping, resets, worldVars>>

Terminated(c) == IF c.state = "running" THEN [c EXCEPT !.state = "terminating"] ELSE c

(* The tracked child is sent SIGTERM.                                       *)
TrackedTerminated(k) ==
  IF procs[k] = None THEN children
  ELSE [children EXCEPT ![procs[k]] = Terminated(children[procs[k]])]
Untracked(k) == [procs EXCEPT ![k] = None]

(* Defective: only the tracked child is stopped.                            *)
BugSweep(k) == children
(* pkill -f: every process of the kind is sent SIGTERM.                     *)
Sweep(k) ==
  [i \in DOMAIN children |->
     IF children[i].kind = k THEN Terminated(children[i]) ELSE children[i]]

BeginStop(r, k) ==
  /\ handlers[r] = Idle
  /\ children' = TrackedTerminated(k)
  /\ procs' = Untracked(k)
  /\ handlers' = [handlers EXCEPT ![r] = [op |-> "stopping", kind |-> k, pid |-> None]]
  /\ UNCHANGED <<swept, status, job, stopping, resets, worldVars>>

EndStop(r) ==
  /\ handlers[r].op = "stopping"
  /\ children' = Sweep(handlers[r].kind)
  /\ swept' = swept \cup {handlers[r].kind}
  /\ handlers' = [handlers EXCEPT ![r] = Idle]
  /\ UNCHANGED <<status, procs, job, stopping, resets, worldVars>>

(* A process ends: by itself or on SIGTERM with an exit code, or killed.    *)
ChildEnds(pid) ==
  /\ children[pid].state \in {"running", "terminating"}
  /\ \E s \in {"exited", "killed"} : children' = [children EXCEPT ![pid].state = s]
  /\ UNCHANGED <<swept, status, serverVars, worldVars>>

----------------------------------------------------------------------------
(* startReset, step, runReset *)

Position(id) == CHOOSE i \in DOMAIN Steps : Steps[i] = id

(* Defective: the steps that were not reached stay pending.                 *)
BugBailed(id) == [state |-> "failed", steps |-> [job.steps EXCEPT ![id] = "failed"]]

(* bail: the pending steps are skipped and the job has failed.              *)
Bailed(id) ==
  [ state |-> "failed",
    steps |-> [s \in StepIds |-> IF Position(s) > Position(id) THEN "skipped"
                                 ELSE IF s = id THEN "failed" ELSE job.steps[s]] ]

(* The step is over and the next one runs, or the job is finished.          *)
Advanced(id, result) ==
  LET ended == [job.steps EXCEPT ![id] = result]
      i     == Position(id)
  IN  IF i < Len(Steps)
      THEN [state |-> "running", steps |-> [ended EXCEPT ![Steps[i + 1]] = "running"]]
      ELSE [state |-> IF \E s \in StepIds : ended[s] = "failed" THEN "failed" ELSE "ok",
            steps |-> ended]

EndStep(id, result) ==
  /\ job.steps[id] = "running"
  /\ job' = IF result = "failed" /\ id \in Gating THEN Bailed(id) ELSE Advanced(id, result)
  /\ UNCHANGED <<handlers, resets>>

(* Up to the first await: the job is published, its first step runs, and    *)
(* the tracked load generator has been sent SIGTERM.                        *)
StartReset ==
  /\ job.state # "running"
  /\ resets < MaxResets
  /\ job' = [state |-> "running",
             steps |-> [s \in StepIds |-> IF s = Steps[1] THEN "running" ELSE "pending"]]
  /\ children' = TrackedTerminated("loadgen")
  /\ procs' = Untracked("loadgen")
  /\ stopping' = "loadgen"
  /\ resets' = resets + 1
  /\ topics' = IF topics = "new" THEN "old" ELSE topics
  /\ data' = IF data = "new" THEN "old" ELSE data
  /\ stray' = (stray \/ launches > 0)
  /\ UNCHANGED <<swept, status, handlers, pipeline, launches, marked, fresh>>
  /\ WithinBounds'

ResetLoadgenStopped ==
  /\ stopping = "loadgen"
  /\ children' = LET swept1 == Sweep("loadgen")
                 IN  IF procs["querybench"] = None THEN swept1
                     ELSE [swept1 EXCEPT ![procs["querybench"]] = Terminated(@)]
  /\ swept' = swept \cup {"loadgen"}
  /\ procs' = Untracked("querybench")
  /\ stopping' = "querybench"
  /\ UNCHANGED <<status, handlers, job, resets, worldVars>>

ResetClientsStopped ==
  /\ stopping = "querybench"
  /\ children' = Sweep("querybench")
  /\ swept' = swept \cup {"querybench"}
  /\ stopping' = None
  /\ EndStep("stop-clients", "ok")
  /\ UNCHANGED <<status, procs, worldVars>>

outsideVars == <<children, swept, status, procs, stopping, fresh, stray>>

(* Defective: the step does not look whether the process is gone.           *)
BugStopSucceeds(p) == TRUE
(* pkill, two seconds, pgrep: ok only when no process is left.              *)
StopSucceeds(p) == p = "stopped"

StopPipeline(result) ==
  /\ pipeline' \in {pipeline, "stopped"}
  /\ result = "ok" => StopSucceeds(pipeline')
  /\ EndStep("stop-pipeline", result)
  /\ UNCHANGED <<outsideVars, launches, marked, topics, data>>

(* Every command of the script is followed by something that succeeds, so   *)
(* only a timeout fails the step, and ok says nothing of the topics.        *)
TeardownKafka(result) ==
  /\ topics' \in {topics, "gone"}
  /\ EndStep("kafka-teardown", result)
  /\ UNCHANGED <<outsideVars, pipeline, launches, marked, data>>

(* --create --if-not-exists: a topic that is still there is kept.           *)
CreateTopics(result) ==
  /\ topics' \in {topics, IF topics = "gone" THEN "new" ELSE topics}
  /\ result = "ok" => topics' # "gone"
  /\ EndStep("kafka-create", result)
  /\ UNCHANGED <<outsideVars, pipeline, launches, marked, data>>

(* remove_db.sql and ddl.sql: a failure may come between the two.           *)
DeploySchema(result) ==
  /\ data' \in IF result = "ok" THEN {"new"} ELSE {data, "gone"}
  /\ EndStep("voltdb-reset", result)
  /\ UNCHANGED <<outsideVars, pipeline, launches, marked, topics>>

(* The result of removing the old log is not looked at; the launch is       *)
(* dispatched and not awaited.                                              *)
StartPipeline ==
  /\ marked' \in {marked, FALSE}
  /\ launches' = launches + 1
  /\ fresh' = FALSE
  /\ EndStep("start-pipeline", "ok")
  /\ UNCHANGED <<children, swept, status, procs, stopping, stray, pipeline, topics, data>>

(* The log is searched for the line for 75 s.                               *)
Verify(result) ==
  /\ result = "ok" => marked
  /\ EndStep("verify", result)
  /\ UNCHANGED <<outsideVars, pipeline, launches, marked, topics, data>>

ResetStep ==
  \/ ResetLoadgenStopped
  \/ ResetClientsStopped
  \/ \E result \in {"ok", "failed"} :
       \/ StopPipeline(result) \/ TeardownKafka(result) \/ CreateTopics(result)
       \/ DeploySchema(result) \/ Verify(result)
  \/ StartPipeline

----------------------------------------------------------------------------
(* controlStatus *)

(* Three commands are started; whether a child is tracked is read before    *)
(* any of them is awaited.                                                  *)
BeginStatus(r) ==
  /\ handlers[r] = Idle /\ status = None
  /\ handlers' = [handlers EXCEPT ![r] = [op |-> "status", kind |-> None, pid |-> None]]
  /\ status' = [ tracked  |-> [k \in Kinds |-> IF HoldsProcess(k) THEN procs[k] ELSE None],
                 external |-> [k \in Kinds |-> None],
                 pipeline |-> None,
                 reset    |-> None,
                 before   |-> Len(children) ]
  /\ UNCHANGED <<children, swept, procs, job, stopping, resets, worldVars>>
  /\ WithinBounds'

Running(k) == \E i \in DOMAIN children :
                children[i].kind = k /\ children[i].state \in {"running", "terminating"}

(* Defective: only the tracked child is looked for.                         *)
BugFound(k) == {FALSE}
(* pgrep -f: anything it prints counts, the text of a failure included.     *)
Found(k) == {Running(k), TRUE}

LookFor(k) ==
  /\ status # None /\ status.external[k] = None
  /\ \E found \in Found(k) : status' = [status EXCEPT !.external[k] = found]
  /\ UNCHANGED <<children, swept, serverVars, worldVars>>

(* The pipeline is not running when the command fails.                      *)
LookForPipeline ==
  /\ status # None /\ status.pipeline = None
  /\ \E found \in {pipeline # "stopped", FALSE} : status' = [status EXCEPT !.pipeline = found]
  /\ UNCHANGED <<children, swept, serverVars, worldVars>>

(* All three have ended; the state of the job is read now.                  *)
EndStatus(r) ==
  /\ handlers[r].op = "status" /\ status # None
  /\ None \notin {status.pipeline} \cup {status.external[k] : k \in Kinds}
  /\ status' = [status EXCEPT !.reset = job.state]
  /\ handlers' = [handlers EXCEPT ![r] = Idle]
  /\ UNCHANGED <<children, swept, procs, job, stopping, resets, worldVars>>

(* What it answers of a client.                                             *)
ReportedRunning(k) == status.tracked[k] # None \/ status.external[k] = TRUE

----------------------------------------------------------------------------
(* The pipeline's host (external) *)

(* A dispatched launch fails to connect; or truncates the log and fails to  *)
(* start; or truncates it and starts.                                       *)
Launch ==
  /\ launches > 0
  /\ launches' = launches - 1
  /\ \/ UNCHANGED <<marked, pipeline>>
     \/ marked' = FALSE /\ UNCHANGED pipeline
     \/ marked' = FALSE /\ pipeline' = "starting"
  /\ UNCHANGED <<children, swept, status, serverVars, topics, data, fresh, stray>>

Subscribe ==
  /\ pipeline = "starting"
  /\ pipeline' = "subscribed" /\ marked' = TRUE /\ fresh' = TRUE
  /\ UNCHANGED <<children, swept, status, serverVars, launches, topics, data, stray>>

PipelineExits ==
  /\ pipeline # "stopped"
  /\ pipeline' = "stopped"
  /\ UNCHANGED <<children, swept, status, serverVars, launches, marked, topics, data, fresh, stray>>

----------------------------------------------------------------------------
Init ==
  /\ children = <<>> /\ swept = {} /\ status = None
  /\ procs = [k \in Kinds |-> None]
  /\ handlers = [r \in Requests |-> Idle]
  /\ job = [state |-> "idle", steps |-> [s \in StepIds |-> "pending"]]
  /\ stopping = None /\ resets = 0
  /\ pipeline \in {"stopped", "subscribed"}
  /\ launches = 0
  /\ marked = (pipeline = "subscribed")
  /\ topics = "old" /\ data = "old"
  /\ fresh = FALSE /\ stray = FALSE

Next ==
  \/ \E r \in Requests :
       \/ \E k \in Kinds : BeginStart(r, k) \/ BeginStop(r, k)
       \/ Spawn(r) \/ Register(r) \/ StartFails(r) \/ EndStop(r)
       \/ BeginStatus(r) \/ EndStatus(r)
  \/ \E pid \in DOMAIN children : ChildEnds(pid)
  \/ StartReset
  \/ ResetStep
  \/ LookForPipeline
  \/ \E k \in Kinds : LookFor(k)
  \/ Launch \/ Subscribe \/ PipelineExits

Spec == Init /\ [][Next]_vars

----------------------------------------------------------------------------
(* Properties *)

(* A status that has answered and says of a kind that it does not run: no   *)
(* process of it that was there when the request came is still there, also  *)
(* one that overlapping starts have lost track of or whose start is not     *)
(* over.  A pid it names is one of a process of that kind.                  *)
StatusSeesEveryClient ==
  status # None /\ status.reset # None =>
    \A k \in Kinds :
      /\ ~ReportedRunning(k) =>
           \A i \in 1 .. status.before :
             children[i].kind = k => children[i].state \notin {"running", "terminating"}
      /\ status.tracked[k] # None => children[status.tracked[k]].kind = k

(* A tracked child is of the kind it is tracked for, and a stop, by a       *)
(* request or by the reset, leaves no process of its kind running until one *)
(* is spawned again: also not one that overlapping starts have lost track   *)
(* of, or that was spawned and not yet registered.                          *)
StopCatchesLostChildren ==
  /\ \A k \in Kinds : procs[k] # None => children[procs[k]].kind = k
  /\ \A i \in DOMAIN children : children[i].kind \in swept => children[i].state # "running"

(* Topics and data are changed only while no pipeline runs that a reset has *)
(* not stopped, unless an earlier reset's launch arrives late.              *)
WipesOnlyWhenStopped ==
  [][ (topics' = "gone" /\ topics # "gone") \/ data' \in {"gone", "new"} \ {data}
        => pipeline = "stopped" \/ stray ]_vars

(* What the job reports: one step at a time, in order; nothing after a      *)
(* gating step that failed; ok only when all steps are, and then the topics *)
(* exist and the schema is this reset's; skipped only when the data is not. *)
ReportMatchesWorld ==
  /\ \A i, j \in DOMAIN Steps : i < j =>
       LET a == job.steps[Steps[i]]
           b == job.steps[Steps[j]]
       IN  /\ b # "pending" => a \in {"ok", "failed", "skipped"}
           /\ a = "failed" /\ Steps[i] \in Gating => b = "skipped"
           /\ a = "skipped" => b = "skipped"
  /\ job.state = "running" <=> \E s \in StepIds : job.steps[s] = "running"
  /\ job.state = "ok" => /\ \A s \in StepIds : job.steps[s] = "ok"
                         /\ topics # "gone" /\ data = "new"
  /\ job.state = "failed" => \A s \in StepIds : job.steps[s] # "pending"
  /\ job.steps["voltdb-reset"] = "skipped" => data # "new"

(* control.ts:197: verify is the authoritative readiness gate.  When it is  *)
(* ok, a pipeline has subscribed since this reset's launch.                 *)
VerifyIsAuthoritative ==
  [][ job.steps["verify"] = "running" /\ job'.steps["verify"] = "ok" => fresh ]_vars
=============================================================================
