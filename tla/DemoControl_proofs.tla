------------------------- MODULE DemoControl_proofs -------------------------
(***************************************************************************)
(* The demo control-plane, for every number of overlapping requests,       *)
(* processes and resets.                                                   *)
(*                                                                         *)
(* Two arguments.  A spawned process keeps its kind and never comes back   *)
(* to life (ChildrenOnlyAge), so what a sweep or a look of pgrep finds     *)
(* stays true of the processes there were at the time.  And the steps of   *)
(* the reset say what is true of the world: what a step has done when it   *)
(* is ok is not undone before the next reset, except by a launch that an   *)
(* earlier reset dispatched, and that makes the run a stray one.           *)
(***************************************************************************)
EXTENDS DemoControl, SequenceTheorems, TLAPS

Alive == {"running", "terminating"}
Child == [kind : Kinds, state : Alive \cup {"exited", "killed"}]
JobStates == {"idle", "running", "ok", "failed"}
StepStates == {"pending", "running", "ok", "failed", "skipped"}
Ops   == {"idle", "opening", "closing", "stopping", "status"}
Handler == [op : Ops, kind : Kinds \cup {None}, pid : Nat \cup {None}]

ProcessTypes ==
  /\ children \in Seq(Child)
  /\ procs \in [Kinds -> Nat \cup {None}]
  /\ handlers \in [Requests -> Handler]
  /\ swept \subseteq Kinds

(* A pid is one of a process of the kind.                                   *)
IsOf(pid, k) == pid \in DOMAIN children /\ children[pid].kind = k

(* What is tracked, or about to be, is a process of the kind it is tracked  *)
(* for.                                                                     *)
TrackedInv == \A k \in Kinds : procs[k] # None => IsOf(procs[k], k)
HandlersInv ==
  \A r \in Requests :
    /\ handlers[r].op \in {"opening", "closing", "stopping"} => handlers[r].kind \in Kinds
    /\ handlers[r].op = "closing" => IsOf(handlers[r].pid, handlers[r].kind)

SweptInv ==
  \A i \in DOMAIN children : children[i].kind \in swept => children[i].state # "running"

ProcessInv == ProcessTypes /\ TrackedInv /\ HandlersInv /\ SweptInv

StatusRecord ==
  [tracked : [Kinds -> Nat \cup {None}], external : [Kinds -> BOOLEAN \cup {None}],
   pipeline : BOOLEAN \cup {None}, reset : JobStates \cup {None}, before : Nat]

(* The status request: of the processes of before it none is alive of a     *)
(* kind that was not found, and it answers when it has looked for every     *)
(* kind.                                                                    *)
Tracks  == \A k \in Kinds : status.tracked[k] # None => IsOf(status.tracked[k], k)
Missed  == \A k \in Kinds : status.external[k] = FALSE =>
             \A i \in 1 .. status.before :
               children[i].kind = k => children[i].state \notin Alive
Answers == status.reset # None => \A k \in Kinds : status.external[k] # None

StatusInv ==
  status # None =>
    /\ status \in StatusRecord /\ status.before <= Len(children)
    /\ Tracks /\ Missed /\ Answers

JobTypes ==
  /\ DOMAIN job = {"state", "steps"}
  /\ job.steps \in [StepIds -> StepStates]
  /\ job.state \in JobStates

(* What the steps of the job say of each other.                             *)
InOrder ==
  \A i, j \in DOMAIN Steps : i < j =>
    LET a == job.steps[Steps[i]]
        b == job.steps[Steps[j]]
    IN  /\ b # "pending" => a \in {"ok", "failed", "skipped"}
        /\ a = "failed" /\ Steps[i] \in Gating => b = "skipped"
        /\ a = "skipped" => b = "skipped"

StateOfSteps ==
  /\ job.state = "running" <=> \E s \in StepIds : job.steps[s] = "running"
  /\ job.state = "ok" => \A s \in StepIds : job.steps[s] = "ok"
  /\ job.state = "failed" => \A s \in StepIds : job.steps[s] # "pending"

(* And of the world: the data is this reset's exactly when its step is ok;  *)
(* until this reset's launch there is no launch, and once the pipeline was  *)
(* stopped none runs, unless an earlier launch was on its way.              *)
StepsOfWorld ==
  /\ job.steps["kafka-create"] = "ok" => topics # "gone"
  /\ data = "new" <=> job.steps["voltdb-reset"] = "ok"
  /\ launches \in Nat
  /\ job.steps["start-pipeline"] # "ok" =>
       /\ launches = 0 \/ stray
       /\ job.steps["stop-pipeline"] = "ok" => pipeline = "stopped" \/ stray

JobInv == JobTypes /\ InOrder /\ StateOfSteps /\ StepsOfWorld
----------------------------------------------------------------------------
(* Processes *)

(* What may become of the processes: they keep their kind, none comes back  *)
(* to life, and new ones are appended.                                      *)
Aged(before, after) ==
  /\ after \in Seq(Child)
  /\ Len(before) <= Len(after)
  /\ \A i \in 1 .. Len(before) :
       /\ after[i].kind = before[i].kind
       /\ after[i].state \in Alive => before[i].state \in Alive
       /\ after[i].state = "running" => before[i].state = "running"

LEMMA AgedIsTransitive ==
  ASSUME NEW a \in Seq(Child), NEW b \in Seq(Child), NEW c, Aged(a, b), Aged(b, c)
  PROVE  Aged(a, c)
<1>1. Len(a) \in Nat /\ Len(b) \in Nat
  BY LenProperties
<1>2. c \in Seq(Child) /\ Len(b) <= Len(c) /\ Len(c) \in Nat
  BY LenProperties DEF Aged
<1>3. \A i \in 1 .. Len(a) : i \in 1 .. Len(b)
  BY <1>1 DEF Aged
<1> QED  BY <1>1, <1>2, <1>3 DEF Aged

(* SIGTERM: a process that runs is terminating.                             *)
LEMMA TerminatedFacts ==
  ASSUME NEW c \in Child
  PROVE  /\ Terminated(c) \in Child
         /\ Terminated(c).kind = c.kind
         /\ Terminated(c).state # "running"
         /\ Terminated(c).state \in Alive => c.state \in Alive
BY DEF Terminated, Child, Alive

(* SIGTERM to one of them, and to all of a kind.                            *)
LEMMA OneTerminatedAges ==
  ASSUME NEW seq \in Seq(Child), NEW pid \in 1 .. Len(seq)
  PROVE  LET after == [seq EXCEPT ![pid] = Terminated(seq[pid])]
         IN  Aged(seq, after) /\ Len(after) = Len(seq)
<1> DEFINE after == [seq EXCEPT ![pid] = Terminated(seq[pid])]
<1>1. seq[pid] \in Child /\ Len(seq) \in Nat
  BY ElementOfSeq, LenProperties
<1>2. Terminated(seq[pid]) \in Child
  BY <1>1, TerminatedFacts
<1>3. after \in Seq(Child) /\ Len(after) = Len(seq)
  BY <1>2, ExceptSeq
<1>4. \A i \in 1 .. Len(seq) : after[i] = IF i = pid THEN Terminated(seq[pid]) ELSE seq[i]
  BY <1>2, ExceptSeq
<1>5. \A i \in 1 .. Len(seq) :
        /\ after[i].kind = seq[i].kind
        /\ after[i].state \in Alive => seq[i].state \in Alive
        /\ after[i].state = "running" => seq[i].state = "running"
  BY <1>1, <1>4, TerminatedFacts
<1> HIDE DEF after
<1>6. Aged(seq, after)
  BY <1>1, <1>3, <1>5 DEF Aged
<1> QED  BY <1>3, <1>6 DEF after

LEMMA SweepAges ==
  ASSUME children \in Seq(Child), NEW k
  PROVE  /\ Aged(children, Sweep(k)) /\ Len(Sweep(k)) = Len(children)
         /\ \A i \in DOMAIN Sweep(k) : Sweep(k)[i].kind = k => Sweep(k)[i].state # "running"
<1>1. /\ Len(children) \in Nat /\ DOMAIN children = 1 .. Len(children)
      /\ \A i \in 1 .. Len(children) : children[i] \in Child
  BY LenProperties, ElementOfSeq
<1>2. \A i \in 1 .. Len(children) :
        Sweep(k)[i] = IF children[i].kind = k THEN Terminated(children[i]) ELSE children[i]
  BY <1>1 DEF Sweep
<1>3. \A i \in 1 .. Len(children) :
        /\ Sweep(k)[i] \in Child
        /\ Sweep(k)[i].kind = children[i].kind
        /\ Sweep(k)[i].state \in Alive => children[i].state \in Alive
        /\ Sweep(k)[i].state = "running" => children[i].state = "running"
        /\ Sweep(k)[i].kind = k => Sweep(k)[i].state # "running"
  BY <1>1, <1>2, TerminatedFacts
<1>4. Sweep(k) \in [1 .. Len(children) -> Child]
  BY <1>1, <1>3 DEF Sweep
<1>5. Sweep(k) \in Seq(Child)
  BY <1>1, <1>4, SeqDef
<1>6. DOMAIN Sweep(k) = 1 .. Len(children) /\ Len(Sweep(k)) = Len(children)
  BY <1>1, <1>4, <1>5, LenProperties
<1> QED  BY <1>1, <1>3, <1>5, <1>6 DEF Aged

LEMMA AgedSame ==
  ASSUME children \in Seq(Child)
  PROVE  Aged(children, children)
BY LenProperties DEF Aged

(* A process that a step ages keeps its kind, and none of a swept kind runs *)
(* again.                                                                   *)
LEMMA AgedKeeps ==
  ASSUME ProcessInv, Aged(children, children')
  PROVE  /\ \A pid, k : IsOf(pid, k) => IsOf(pid, k)'
         /\ Len(children') = Len(children) =>
              \A i \in DOMAIN children' :
                children'[i].kind \in swept => children'[i].state # "running"
<1>1. /\ DOMAIN children = 1 .. Len(children) /\ DOMAIN children' = 1 .. Len(children')
      /\ Len(children) \in Nat /\ Len(children') \in Nat
  BY LenProperties DEF ProcessInv, ProcessTypes, Aged
<1>2. \A pid, k : IsOf(pid, k) => IsOf(pid, k)'
  BY <1>1 DEF IsOf, Aged
<1>3. ASSUME Len(children') = Len(children), NEW i \in DOMAIN children',
             children'[i].kind \in swept
      PROVE  children'[i].state # "running"
  BY <1>1, <1>3 DEF Aged, ProcessInv, SweptInv
<1> QED  BY <1>2, <1>3

(* A new process.                                                           *)
LEMMA AppendAges ==
  ASSUME children \in Seq(Child), NEW k \in Kinds
  PROVE  LET new == Append(children, [kind |-> k, state |-> "running"])
         IN  /\ Aged(children, new)
             /\ Len(new) = Len(children) + 1 /\ new[Len(new)].kind = k
<1> DEFINE child == [kind |-> k, state |-> "running"]
           new   == Append(children, child)
<1>1. child \in Child
  BY DEF Child, Alive
<1>2. Len(children) \in Nat
  BY LenProperties
<1>3. /\ new \in Seq(Child) /\ Len(new) = Len(children) + 1
      /\ \A i \in 1 .. Len(children) : new[i] = children[i]
      /\ new[Len(new)] = child
  BY <1>1, <1>2
<1>4. Aged(children, new)
  BY <1>2, <1>3 DEF Aged
<1> QED  BY <1>3, <1>4

LEMMA TrackedTerminatedAges ==
  ASSUME ProcessInv, NEW k \in Kinds
  PROVE  Aged(children, TrackedTerminated(k)) /\ Len(TrackedTerminated(k)) = Len(children)
<1>1. children \in Seq(Child)
  BY DEF ProcessInv, ProcessTypes
<1>2. CASE procs[k] = None
  BY <1>1, <1>2, AgedSame DEF TrackedTerminated
<1>3. CASE procs[k] # None
  <2>1. procs[k] \in 1 .. Len(children)
    BY <1>1, <1>3, LenProperties DEF ProcessInv, TrackedInv, IsOf
  <2>2. TrackedTerminated(k) = [children EXCEPT ![procs[k]] = Terminated(children[procs[k]])]
    BY <1>3 DEF TrackedTerminated
  <2> QED  BY <1>1, <2>1, <2>2, OneTerminatedAges
<1> QED  BY <1>2, <1>3

(* A handler goes on, with a kind of its own and a process of that kind.    *)
LEMMA HandlerGoesOn ==
  ASSUME ProcessInv, Aged(children, children'),
         NEW r \in Requests, NEW h \in Handler, handlers' = [handlers EXCEPT ![r] = h],
         h.op \in {"opening", "closing", "stopping"} => h.kind \in Kinds,
         h.op = "closing" => IsOf(h.pid, h.kind)'
  PROVE  handlers' \in [Requests -> Handler] /\ HandlersInv'
<1> USE DEF ProcessInv
<1>1. handlers' \in [Requests -> Handler]
  BY DEF ProcessTypes
<1>2. \A q \in Requests : q # r => handlers'[q] = handlers[q]
  BY DEF ProcessTypes
<1>3. handlers'[r] = h
  BY DEF ProcessTypes
<1>4. HandlersInv'
  BY <1>2, <1>3, AgedKeeps DEF HandlersInv
<1> QED  BY <1>1, <1>4

LEMMA HandlersStay ==
  ASSUME ProcessInv, Aged(children, children'), UNCHANGED handlers
  PROVE  handlers' \in [Requests -> Handler] /\ HandlersInv'
BY AgedKeeps DEF ProcessInv, ProcessTypes, HandlersInv

LEMMA NoLongerTracked ==
  ASSUME ProcessInv, Aged(children, children'), NEW k \in Kinds, procs' = Untracked(k)
  PROVE  procs' \in [Kinds -> Nat \cup {None}] /\ TrackedInv'
BY AgedKeeps DEF ProcessInv, ProcessTypes, TrackedInv, Untracked

LEMMA TrackedStay ==
  ASSUME ProcessInv, Aged(children, children'), UNCHANGED procs
  PROVE  procs' \in [Kinds -> Nat \cup {None}] /\ TrackedInv'
BY AgedKeeps DEF ProcessInv, ProcessTypes, TrackedInv

(* No process of a swept kind runs again when no process is spawned.        *)
LEMMA SweptStay ==
  ASSUME ProcessInv, Aged(children, children'), Len(children') = Len(children), UNCHANGED swept
  PROVE  swept' \subseteq Kinds /\ SweptInv'
<1>1. \A i \in DOMAIN children' : children'[i].kind \in swept => children'[i].state # "running"
  BY AgedKeeps
<1> QED  BY <1>1 DEF ProcessInv, ProcessTypes, SweptInv

LEMMA MoreSwept ==
  ASSUME ProcessInv, Aged(children, children'), Len(children') = Len(children),
         NEW k \in Kinds, swept' = swept \cup {k},
         \A i \in DOMAIN children' : children'[i].kind = k => children'[i].state # "running"
  PROVE  swept' \subseteq Kinds /\ SweptInv'
<1>1. \A i \in DOMAIN children' : children'[i].kind \in swept => children'[i].state # "running"
  BY AgedKeeps
<1> QED  BY <1>1 DEF ProcessInv, ProcessTypes, SweptInv

LEMMA ProcessParts ==
  ASSUME Aged(children, children'),
         procs' \in [Kinds -> Nat \cup {None}] /\ TrackedInv',
         handlers' \in [Requests -> Handler] /\ HandlersInv',
         swept' \subseteq Kinds /\ SweptInv'
  PROVE  ProcessInv'
BY DEF ProcessInv, ProcessTypes, Aged

----------------------------------------------------------------------------
(* The steps and the processes *)

LEMMA IdleIsHandler == Idle \in Handler /\ Idle.op = "idle"
BY DEF Idle, Handler, Ops

LEMMA TwoFieldsSet ==
  ASSUME NEW h \in Handler, NEW op, NEW pid
  PROVE  [[h EXCEPT !.op = op] EXCEPT !.pid = pid] = [op |-> op, kind |-> h.kind, pid |-> pid]
<1>1. h = [op |-> h.op, kind |-> h.kind, pid |-> h.pid]
  BY DEF Handler
<1>2. [h EXCEPT !.op = op] = [op |-> op, kind |-> h.kind, pid |-> h.pid]
  BY <1>1
<1>3. PICK g : g = [op |-> op, kind |-> h.kind, pid |-> h.pid]
  OBVIOUS
<1>4. [g EXCEPT !.pid = pid] = [op |-> op, kind |-> h.kind, pid |-> pid]
  BY <1>3
<1> QED  BY <1>2, <1>3, <1>4

LEMMA StartSteps ==
  ASSUME ProcessInv, NEW r \in Requests,
         \/ \E k \in Kinds : BeginStart(r, k)
         \/ Spawn(r) \/ Register(r) \/ StartFails(r)
  PROVE  ProcessInv' /\ Aged(children, children')
<1>1. children \in Seq(Child) /\ handlers \in [Requests -> Handler] /\ handlers[r] \in Handler
  BY DEF ProcessInv, ProcessTypes
<1>2. ASSUME NEW k \in Kinds, BeginStart(r, k)
      PROVE  ProcessInv' /\ Aged(children, children')
  <2> DEFINE h == [op |-> "opening", kind |-> k, pid |-> None]
  <2>1. Aged(children, children') /\ UNCHANGED <<procs, swept>> /\ Len(children') = Len(children)
    BY <1>1, <1>2, AgedSame DEF BeginStart
  <2>2. handlers' = [handlers EXCEPT ![r] = h] /\ h \in Handler
    BY <1>2 DEF BeginStart, Handler, Ops
  <2>3. handlers' \in [Requests -> Handler] /\ HandlersInv'
    BY <2>1, <2>2, HandlerGoesOn
  <2> QED  BY <2>1, <2>3, TrackedStay, SweptStay, ProcessParts
<1>3. CASE Spawn(r)
  <2>1. PICK k \in Kinds : k = handlers[r].kind
    BY <1>3 DEF Spawn, ProcessInv, HandlersInv
  <2>2. children' = Append(children, [kind |-> k, state |-> "running"])
    BY <1>3, <2>1 DEF Spawn
  <2>3. /\ Aged(children, children') /\ Len(children') = Len(children) + 1
        /\ children'[Len(children')].kind = k
    BY <1>1, <2>2, AppendAges
  <2>4. Len(children) \in Nat /\ DOMAIN children' = 1 .. Len(children')
    BY <1>1, <2>3, LenProperties DEF Aged
  <2>5. PICK h \in Handler : h = [op |-> "closing", kind |-> k, pid |-> Len(children')]
    <3>1. Len(children') \in Nat /\ "closing" \in Ops
      BY <2>3, <2>4 DEF Ops
    <3>2. [op |-> "closing", kind |-> k, pid |-> Len(children')] \in Handler
      BY <3>1 DEF Handler
    <3> QED  BY <3>2
  <2>6. handlers' = [handlers EXCEPT ![r] = h]
    <3>1. handlers' = [handlers EXCEPT ![r] = [[handlers[r] EXCEPT !.op = "closing"]
                                                 EXCEPT !.pid = Len(children')]]
      BY <1>1, <1>3, <2>3 DEF Spawn
    <3>2. [[handlers[r] EXCEPT !.op = "closing"] EXCEPT !.pid = Len(children')] = h
      BY <1>1, <2>1, <2>5, TwoFieldsSet
    <3> QED  BY <3>1, <3>2
  <2>7. handlers' \in [Requests -> Handler] /\ HandlersInv'
    <3>1. IsOf(h.pid, h.kind)'
      BY <2>3, <2>4, <2>5 DEF IsOf
    <3> QED  BY <2>3, <2>5, <2>6, <3>1, HandlerGoesOn
  <2>8. swept' = swept \ {k}
    BY <1>3, <2>1 DEF Spawn
  <2>9. ASSUME NEW i \in DOMAIN children', children'[i].kind \in swept'
        PROVE  children'[i].state # "running"
    <3>1. i \in 1 .. Len(children)
      BY <2>3, <2>4, <2>8, <2>9
    <3> QED  BY <2>3, <2>8, <2>9, <3>1, <1>1, LenProperties DEF Aged, ProcessInv, SweptInv
  <2>10. swept' \subseteq Kinds /\ SweptInv'
    BY <2>8, <2>9 DEF SweptInv, ProcessInv, ProcessTypes
  <2>11. procs' = procs
    BY <1>3 DEF Spawn
  <2> QED  BY <2>3, <2>7, <2>10, <2>11, TrackedStay, ProcessParts
<1>4. CASE Register(r)
  <2> DEFINE k   == handlers[r].kind
             pid == handlers[r].pid
  <2>1. Aged(children, children') /\ UNCHANGED swept /\ Len(children') = Len(children)
    BY <1>1, <1>4, AgedSame DEF Register
  <2>2. k \in Kinds /\ IsOf(pid, k) /\ pid \in Nat \cup {None}
    BY <1>1, <1>4 DEF Register, ProcessInv, HandlersInv, Handler
  <2>3. procs' = [procs EXCEPT ![k] = pid]
    BY <1>4 DEF Register
  <2>4. procs' \in [Kinds -> Nat \cup {None}] /\ TrackedInv'
    BY <2>1, <2>2, <2>3, AgedKeeps DEF ProcessInv, ProcessTypes, TrackedInv
  <2>5. handlers' = [handlers EXCEPT ![r] = Idle]
    BY <1>4 DEF Register
  <2>6. handlers' \in [Requests -> Handler] /\ HandlersInv'
    BY <2>1, <2>5, IdleIsHandler, HandlerGoesOn
  <2> QED  BY <2>1, <2>4, <2>6, SweptStay, ProcessParts
<1>5. CASE StartFails(r)
  <2>1. Aged(children, children') /\ UNCHANGED <<procs, swept>> /\ Len(children') = Len(children)
    BY <1>1, <1>5, AgedSame DEF StartFails
  <2>2. handlers' = [handlers EXCEPT ![r] = Idle]
    BY <1>5 DEF StartFails
  <2>3. handlers' \in [Requests -> Handler] /\ HandlersInv'
    BY <2>1, <2>2, IdleIsHandler, HandlerGoesOn
  <2> QED  BY <2>1, <2>3, TrackedStay, SweptStay, ProcessParts
<1> QED  BY <1>2, <1>3, <1>4, <1>5

LEMMA StopSteps ==
  ASSUME ProcessInv, NEW r \in Requests, (\E k \in Kinds : BeginStop(r, k)) \/ EndStop(r)
  PROVE  ProcessInv' /\ Aged(children, children')
<1>1. ASSUME NEW k \in Kinds, BeginStop(r, k)
      PROVE  ProcessInv' /\ Aged(children, children')
  <2> DEFINE h == [op |-> "stopping", kind |-> k, pid |-> None]
  <2>1. Aged(children, children') /\ Len(children') = Len(children)
    BY <1>1, TrackedTerminatedAges DEF BeginStop
  <2>2. procs' = Untracked(k) /\ UNCHANGED swept
    BY <1>1 DEF BeginStop
  <2>3. handlers' = [handlers EXCEPT ![r] = h] /\ h \in Handler
    BY <1>1 DEF BeginStop, Handler, Ops
  <2>4. handlers' \in [Requests -> Handler] /\ HandlersInv'
    BY <2>1, <2>3, HandlerGoesOn
  <2> QED  BY <2>1, <2>2, <2>4, NoLongerTracked, SweptStay, ProcessParts
<1>2. CASE EndStop(r)
  <2> DEFINE k == handlers[r].kind
  <2>1. k \in Kinds /\ children \in Seq(Child)
    BY <1>2 DEF EndStop, ProcessInv, ProcessTypes, HandlersInv
  <2>2. children' = Sweep(k) /\ swept' = swept \cup {k} /\ UNCHANGED procs
    BY <1>2 DEF EndStop
  <2>3. /\ Aged(children, children') /\ Len(children') = Len(children)
        /\ \A i \in DOMAIN children' : children'[i].kind = k => children'[i].state # "running"
    BY <2>1, <2>2, SweepAges
  <2>4. handlers' = [handlers EXCEPT ![r] = Idle]
    BY <1>2 DEF EndStop
  <2>5. handlers' \in [Requests -> Handler] /\ HandlersInv'
    BY <2>3, <2>4, IdleIsHandler, HandlerGoesOn
  <2>6. swept' \subseteq Kinds /\ SweptInv'
    BY <2>1, <2>2, <2>3, MoreSwept
  <2> QED  BY <2>2, <2>3, <2>5, <2>6, TrackedStay, ProcessParts
<1> QED  BY <1>1, <1>2

LEMMA ChildEndsStep ==
  ASSUME ProcessInv, NEW pid \in DOMAIN children, ChildEnds(pid)
  PROVE  ProcessInv' /\ Aged(children, children')
<1>1. PICK s \in {"exited", "killed"} : children' = [children EXCEPT ![pid].state = s]
  BY DEF ChildEnds
<1>2. /\ children \in Seq(Child) /\ Len(children) \in Nat /\ DOMAIN children = 1 .. Len(children)
      /\ \A i \in 1 .. Len(children) : children[i] \in Child
  BY LenProperties, ElementOfSeq DEF ProcessInv, ProcessTypes
<1>3. [children[pid] EXCEPT !.state = s] = [kind |-> children[pid].kind, state |-> s]
  BY <1>2 DEF Child
<1>4. [kind |-> children[pid].kind, state |-> s] \in Child
  BY <1>2 DEF Child
<1>5. children' = [children EXCEPT ![pid] = [kind |-> children[pid].kind, state |-> s]]
  BY <1>1, <1>3
<1>6. /\ children' \in Seq(Child) /\ Len(children') = Len(children)
      /\ \A i \in 1 .. Len(children) :
           children'[i] = IF i = pid THEN [kind |-> children[pid].kind, state |-> s] ELSE children[i]
  BY <1>2, <1>4, <1>5, ExceptSeq
<1>7. \A i \in 1 .. Len(children) :
        /\ children'[i].kind = children[i].kind
        /\ children'[i].state \in Alive => children[i].state \in Alive
        /\ children'[i].state = "running" => children[i].state = "running"
  BY <1>2, <1>6 DEF Alive
<1>8. Aged(children, children')
  BY <1>2, <1>6, <1>7 DEF Aged
<1>9. UNCHANGED <<handlers, procs, swept>>
  BY DEF ChildEnds, serverVars
<1> QED  BY <1>6, <1>8, <1>9, HandlersStay, TrackedStay, SweptStay, ProcessParts

LEMMA StartResetStep ==
  ASSUME ProcessInv, StartReset
  PROVE  ProcessInv' /\ Aged(children, children')
<1>1. /\ children' = TrackedTerminated("loadgen") /\ procs' = Untracked("loadgen")
      /\ UNCHANGED <<handlers, swept>>
  BY DEF StartReset
<1>2. "loadgen" \in Kinds
  BY DEF Kinds
<1>3. Aged(children, children') /\ Len(children') = Len(children)
  BY <1>1, <1>2, TrackedTerminatedAges
<1> QED  BY <1>1, <1>2, <1>3, NoLongerTracked, HandlersStay, SweptStay, ProcessParts

LEMMA LoadgenStoppedStep ==
  ASSUME ProcessInv, ResetLoadgenStopped
  PROVE  ProcessInv' /\ Aged(children, children')
<1> DEFINE pid == procs["querybench"]
<1>1. children \in Seq(Child) /\ {"loadgen", "querybench"} \subseteq Kinds
  BY DEF ProcessInv, ProcessTypes, Kinds
<1>2. PICK once \in Seq(Child) :
        /\ once = Sweep("loadgen") /\ Aged(children, once) /\ Len(once) = Len(children)
        /\ \A i \in DOMAIN once : once[i].kind = "loadgen" => once[i].state # "running"
  BY <1>1, SweepAges DEF Aged
<1>3. Aged(once, children') /\ Len(children') = Len(children)
  <2>1. CASE pid = None
    BY <1>2, <2>1, LenProperties DEF ResetLoadgenStopped, Aged
  <2>2. CASE pid # None
    <3>1. pid \in 1 .. Len(once)
      BY <1>1, <1>2, <2>2, LenProperties DEF ProcessInv, TrackedInv, IsOf
    <3>2. children' = [once EXCEPT ![pid] = Terminated(once[pid])]
      BY <1>2, <2>2 DEF ResetLoadgenStopped
    <3> QED  BY <1>2, <3>1, <3>2, OneTerminatedAges
  <2> QED  BY <2>1, <2>2
<1>4. Aged(children, children') /\ children' \in Seq(Child)
  BY <1>1, <1>2, <1>3, AgedIsTransitive DEF Aged
<1>5. \A i \in DOMAIN children' : children'[i].kind = "loadgen" => children'[i].state # "running"
  BY <1>2, <1>3, <1>4, LenProperties DEF Aged
<1>6. /\ procs' = Untracked("querybench") /\ swept' = swept \cup {"loadgen"}
      /\ UNCHANGED handlers
  BY DEF ResetLoadgenStopped
<1> QED  BY <1>1, <1>3, <1>4, <1>5, <1>6, NoLongerTracked, HandlersStay, MoreSwept, ProcessParts

LEMMA ClientsStoppedStep ==
  ASSUME ProcessInv, ResetClientsStopped
  PROVE  ProcessInv' /\ Aged(children, children')
<1>1. /\ children' = Sweep("querybench") /\ swept' = swept \cup {"querybench"}
      /\ UNCHANGED <<procs, handlers>>
  BY DEF ResetClientsStopped, EndStep
<1>2. children \in Seq(Child) /\ "querybench" \in Kinds
  BY DEF ProcessInv, ProcessTypes, Kinds
<1>3. /\ Aged(children, children') /\ Len(children') = Len(children)
      /\ \A i \in DOMAIN children' : children'[i].kind = "querybench" => children'[i].state # "running"
  BY <1>1, <1>2, SweepAges
<1> QED  BY <1>1, <1>2, <1>3, TrackedStay, HandlersStay, MoreSwept, ProcessParts

(* A step of the status request, which changes at most its handler.         *)
LEMMA StatusSteps ==
  ASSUME ProcessInv, NEW r \in Requests, BeginStatus(r) \/ EndStatus(r)
  PROVE  ProcessInv' /\ Aged(children, children')
<1>1. UNCHANGED <<children, procs, swept>>
  BY DEF BeginStatus, EndStatus
<1>2. Aged(children, children') /\ Len(children') = Len(children)
  BY <1>1, AgedSame DEF ProcessInv, ProcessTypes
<1>3. PICK h \in Handler : handlers' = [handlers EXCEPT ![r] = h] /\ h.op \in {"idle", "status"}
  <2>1. [op |-> "status", kind |-> None, pid |-> None] \in Handler
    BY DEF Handler, Ops
  <2> QED  BY <2>1, IdleIsHandler DEF BeginStatus, EndStatus
<1>4. handlers' \in [Requests -> Handler] /\ HandlersInv'
  BY <1>2, <1>3, HandlerGoesOn
<1> QED  BY <1>1, <1>2, <1>4, TrackedStay, SweptStay, ProcessParts

LEMMA ProcessStep ==
  ASSUME ProcessInv, [Next]_vars
  PROVE  ProcessInv' /\ Aged(children, children')
<1>1. CASE UNCHANGED <<children, procs, handlers, swept>>
  <2>1. Aged(children, children') /\ Len(children') = Len(children)
    BY <1>1, AgedSame DEF ProcessInv, ProcessTypes
  <2> QED  BY <1>1, <2>1, HandlersStay, TrackedStay, SweptStay, ProcessParts
<1>2. CASE \E r \in Requests :
             \/ \E k \in Kinds : BeginStart(r, k) \/ BeginStop(r, k)
             \/ Spawn(r) \/ Register(r) \/ StartFails(r) \/ EndStop(r)
             \/ BeginStatus(r) \/ EndStatus(r)
  BY <1>2, StartSteps, StopSteps, StatusSteps
<1>3. CASE \E pid \in DOMAIN children : ChildEnds(pid)
  BY <1>3, ChildEndsStep
<1>4. CASE StartReset
  BY <1>4, StartResetStep
<1>5. CASE ResetStep
  <2>1. ASSUME NEW result,
               \/ StopPipeline(result) \/ TeardownKafka(result) \/ CreateTopics(result)
               \/ DeploySchema(result) \/ Verify(result)
        PROVE  UNCHANGED <<children, procs, handlers, swept>>
    BY <2>1 DEF StopPipeline, TeardownKafka, CreateTopics, DeploySchema, Verify, EndStep, outsideVars
  <2>2. StartPipeline => UNCHANGED <<children, procs, handlers, swept>>
    BY DEF StartPipeline, EndStep
  <2> QED  BY <1>1, <1>5, <2>1, <2>2, LoadgenStoppedStep, ClientsStoppedStep DEF ResetStep
<1>6. CASE LookForPipeline \/ \E k \in Kinds : LookFor(k)
  BY <1>1, <1>6 DEF LookForPipeline, LookFor, serverVars
<1>7. CASE Launch \/ Subscribe \/ PipelineExits
  BY <1>1, <1>7 DEF Launch, Subscribe, PipelineExits, serverVars
<1>8. CASE UNCHANGED vars
  BY <1>1, <1>8 DEF vars, serverVars
<1> QED  BY <1>2, <1>3, <1>4, <1>5, <1>6, <1>7, <1>8 DEF Next

LEMMA InitProcess == Init => ProcessInv
<1> SUFFICES ASSUME Init PROVE ProcessInv
  OBVIOUS
<1>1. children = <<>> /\ children \in Seq(Child) /\ DOMAIN children = {}
  BY DEF Init
<1>2. /\ procs \in [Kinds -> Nat \cup {None}] /\ \A k \in Kinds : procs[k] = None
      /\ handlers \in [Requests -> Handler] /\ \A r \in Requests : handlers[r].op = "idle"
      /\ swept = {}
  BY IdleIsHandler DEF Init
<1> QED  BY <1>1, <1>2 DEF ProcessInv, ProcessTypes, TrackedInv, HandlersInv, SweptInv

(* Neither overlapping starts nor a start that races a stop make a stop     *)
(* miss a process of its kind, and what is tracked for a kind is of it      *)
(* (control.ts, startJava and stopProc).                                    *)
THEOREM StopsCatchLostChildren == Spec => []StopCatchesLostChildren
<1>1. Init => ProcessInv
  BY InitProcess
<1>2. ProcessInv /\ [Next]_vars => ProcessInv'
  BY ProcessStep
<1>3. ProcessInv => StopCatchesLostChildren
  BY DEF ProcessInv, TrackedInv, SweptInv, IsOf, StopCatchesLostChildren
<1> QED  BY <1>1, <1>2, <1>3, PTL DEF Spec

----------------------------------------------------------------------------
(* The job *)

LEMMA StepsFacts ==
  /\ DOMAIN Steps = 1 .. 7 /\ Len(Steps) = 7
  /\ StepIds = {"stop-clients", "stop-pipeline", "kafka-teardown", "kafka-create",
                "voltdb-reset", "start-pipeline", "verify"}
  /\ Steps[1] = "stop-clients" /\ Steps[2] = "stop-pipeline" /\ Steps[3] = "kafka-teardown"
  /\ Steps[4] = "kafka-create" /\ Steps[5] = "voltdb-reset" /\ Steps[6] = "start-pipeline"
  /\ Steps[7] = "verify"
<1>1. DOMAIN Steps = 1 .. 7 /\ Len(Steps) = 7
  BY DEF Steps
<1>2. /\ Steps[1] = "stop-clients" /\ Steps[2] = "stop-pipeline" /\ Steps[3] = "kafka-teardown"
      /\ Steps[4] = "kafka-create" /\ Steps[5] = "voltdb-reset" /\ Steps[6] = "start-pipeline"
      /\ Steps[7] = "verify"
  BY DEF Steps
<1>3. 1 .. 7 = {1, 2, 3, 4, 5, 6, 7}
  OBVIOUS
<1>4. StepIds = {Steps[1], Steps[2], Steps[3], Steps[4], Steps[5], Steps[6], Steps[7]}
  BY <1>1, <1>3 DEF StepIds
<1> QED  BY <1>1, <1>2, <1>4

LEMMA StepsDistinct ==
  \A i, j \in 1 .. 7 : Steps[i] = Steps[j] => i = j
<1>1. 1 .. 7 = {1, 2, 3, 4, 5, 6, 7}
  OBVIOUS
<1> QED  BY <1>1, StepsFacts

LEMMA PositionFacts ==
  ASSUME NEW n \in 1 .. 7
  PROVE  Position(Steps[n]) = n /\ Steps[n] \in StepIds
<1>1. \E i \in DOMAIN Steps : Steps[i] = Steps[n]
  BY StepsFacts
<1>2. Position(Steps[n]) \in 1 .. 7 /\ Steps[Position(Steps[n])] = Steps[n]
  BY <1>1, StepsFacts DEF Position
<1> QED  BY <1>2, StepsDistinct, StepsFacts DEF StepIds

LEMMA StepIdIsStep == \A s \in StepIds : \E n \in 1 .. 7 : s = Steps[n]
BY StepsFacts DEF StepIds

(* While a step runs the earlier ones have ended and the later ones wait.   *)
LEMMA OneStepAtATime ==
  ASSUME JobTypes, InOrder, NEW n \in 1 .. 7, job.steps[Steps[n]] = "running"
  PROVE  /\ \A j \in 1 .. 7 : j > n => job.steps[Steps[j]] = "pending"
         /\ \A j \in 1 .. 7 : j < n =>
              /\ job.steps[Steps[j]] \in {"ok", "failed"}
              /\ job.steps[Steps[j]] = "failed" => Steps[j] \notin Gating
BY StepsFacts DEF InOrder

LEMMA AdvancedFacts ==
  ASSUME JobTypes, NEW n \in 1 .. 7, NEW result \in StepStates, job' = Advanced(Steps[n], result)
  PROVE  /\ DOMAIN job' = {"state", "steps"} /\ job'.steps \in [StepIds -> StepStates]
         /\ \A j \in 1 .. 7 :
              job'.steps[Steps[j]] = IF j = n THEN result
                                     ELSE IF j = n + 1 THEN "running" ELSE job.steps[Steps[j]]
         /\ n < 7 => job'.state = "running"
         /\ n = 7 => job'.state = IF \E s \in StepIds : job'.steps[s] = "failed"
                                  THEN "failed" ELSE "ok"
<1> DEFINE ended == [job.steps EXCEPT ![Steps[n]] = result]
<1>1. Position(Steps[n]) = n /\ Len(Steps) = 7
  BY PositionFacts, StepsFacts
<1>2. ended \in [StepIds -> StepStates]
  BY DEF JobTypes
<1>3. \A j \in 1 .. 7 : ended[Steps[j]] = IF j = n THEN result ELSE job.steps[Steps[j]]
  BY StepsDistinct, PositionFacts DEF JobTypes
<1>4. CASE n < 7
  <2>1. job' = [state |-> "running", steps |-> [ended EXCEPT ![Steps[n + 1]] = "running"]]
    BY <1>1, <1>4 DEF Advanced
  <2>2. n + 1 \in 1 .. 7
    BY <1>4
  <2>3. \A j \in 1 .. 7 :
          job'.steps[Steps[j]] = IF j = n + 1 THEN "running" ELSE ended[Steps[j]]
    BY <1>2, <2>1, <2>2, StepsDistinct, PositionFacts
  <2>4. DOMAIN job' = {"state", "steps"} /\ job'.state = "running"
    BY <2>1
  <2>5. job'.steps \in [StepIds -> StepStates]
    <3>1. job'.steps = [ended EXCEPT ![Steps[n + 1]] = "running"] /\ "running" \in StepStates
      BY <2>1 DEF StepStates
    <3> HIDE DEF ended
    <3> QED  BY <1>2, <3>1
  <2> HIDE DEF ended
  <2> QED  BY <1>3, <1>4, <2>3, <2>4, <2>5
<1>5. CASE n = 7
  <2>1. job' = [state |-> IF \E s \in StepIds : ended[s] = "failed" THEN "failed" ELSE "ok",
                steps |-> ended]
    BY <1>1, <1>5 DEF Advanced
  <2> HIDE DEF ended
  <2>2. DOMAIN job' = {"state", "steps"} /\ job'.steps = ended
    BY <2>1
  <2>3. job'.state = IF \E s \in StepIds : ended[s] = "failed" THEN "failed" ELSE "ok"
    BY <2>1
  <2>4. \A j \in 1 .. 7 : j # n + 1
    BY <1>5
  <2> QED  BY <1>2, <1>3, <1>5, <2>2, <2>3, <2>4
<1> QED  BY <1>4, <1>5

LEMMA BailedFacts ==
  ASSUME JobTypes, NEW n \in 1 .. 7, job' = Bailed(Steps[n])
  PROVE  /\ DOMAIN job' = {"state", "steps"} /\ job'.steps \in [StepIds -> StepStates]
         /\ \A j \in 1 .. 7 :
              job'.steps[Steps[j]] = IF j > n THEN "skipped"
                                     ELSE IF j = n THEN "failed" ELSE job.steps[Steps[j]]
         /\ job'.state = "failed"
<1>1. \A j \in 1 .. 7 : Position(Steps[j]) = j /\ Steps[j] \in StepIds
  BY PositionFacts
<1>2. job'.steps = [s \in StepIds |-> IF Position(s) > Position(Steps[n]) THEN "skipped"
                                      ELSE IF s = Steps[n] THEN "failed" ELSE job.steps[s]]
  BY DEF Bailed
<1>3. \A j \in 1 .. 7 :
        job'.steps[Steps[j]] = IF j > n THEN "skipped"
                               ELSE IF j = n THEN "failed" ELSE job.steps[Steps[j]]
  BY <1>1, <1>2, StepsDistinct
<1>4. DOMAIN job' = {"state", "steps"} /\ job'.state = "failed"
  BY DEF Bailed
<1>5. job'.steps \in [StepIds -> StepStates]
  BY <1>2 DEF JobTypes, StepStates
<1> QED  BY <1>3, <1>4, <1>5

LEMMA EndStepKeepsJob ==
  ASSUME JobTypes, InOrder, StateOfSteps, NEW n \in 1 .. 7, NEW result \in {"ok", "failed"},
         EndStep(Steps[n], result)
  PROVE  JobTypes' /\ InOrder' /\ StateOfSteps'
<1> DEFINE old(j) == job.steps[Steps[j]]
           new(j) == job'.steps[Steps[j]]
<1>1. job.steps[Steps[n]] = "running"
  BY DEF EndStep
<1>2. /\ \A j \in 1 .. 7 : j > n => old(j) = "pending"
      /\ \A j \in 1 .. 7 : j < n =>
           /\ old(j) \in {"ok", "failed"}
           /\ old(j) = "failed" => Steps[j] \notin Gating
  BY <1>1, OneStepAtATime
<1>3. DOMAIN Steps = 1 .. 7 /\ \A s \in StepIds : \E j \in 1 .. 7 : s = Steps[j]
  BY StepsFacts, StepIdIsStep
<1>4. \A j \in 1 .. 7 : Steps[j] \in StepIds
  BY PositionFacts
<1>5. CASE result = "failed" /\ Steps[n] \in Gating
  <2>1. job' = Bailed(Steps[n])
    BY <1>5 DEF EndStep
  <2>2. /\ DOMAIN job' = {"state", "steps"} /\ job'.steps \in [StepIds -> StepStates]
        /\ \A j \in 1 .. 7 : new(j) = IF j > n THEN "skipped" ELSE IF j = n THEN "failed" ELSE old(j)
        /\ job'.state = "failed"
    BY <2>1, BailedFacts
  <2> HIDE DEF old, new
  <2>3. \A i, j \in 1 .. 7 : i < j =>
          /\ new(j) # "pending" => new(i) \in {"ok", "failed", "skipped"}
          /\ new(i) = "failed" /\ Steps[i] \in Gating => new(j) = "skipped"
          /\ new(i) = "skipped" => new(j) = "skipped"
    BY <1>2, <2>2
  <2>4. \A j \in 1 .. 7 : new(j) \notin {"running", "pending"}
    BY <1>2, <2>2
  <2>5. InOrder'
    BY <1>3, <2>3 DEF InOrder, new
  <2>6. StateOfSteps'
    BY <1>3, <2>2, <2>4 DEF StateOfSteps, new
  <2> QED  BY <2>2, <2>5, <2>6 DEF JobTypes, JobStates
<1>6. CASE ~(result = "failed" /\ Steps[n] \in Gating)
  <2>1. job' = Advanced(Steps[n], result) /\ result \in StepStates
    BY <1>6 DEF EndStep, StepStates
  <2>2. /\ DOMAIN job' = {"state", "steps"} /\ job'.steps \in [StepIds -> StepStates]
        /\ \A j \in 1 .. 7 : new(j) = IF j = n THEN result ELSE IF j = n + 1 THEN "running" ELSE old(j)
        /\ n < 7 => job'.state = "running"
        /\ n = 7 => job'.state = IF \E s \in StepIds : job'.steps[s] = "failed" THEN "failed" ELSE "ok"
    BY <2>1, AdvancedFacts
  <2> HIDE DEF old, new
  <2>3. \A i, j \in 1 .. 7 : i < j =>
          /\ new(j) # "pending" => new(i) \in {"ok", "failed", "skipped"}
          /\ new(i) = "failed" /\ Steps[i] \in Gating => new(j) = "skipped"
          /\ new(i) = "skipped" => new(j) = "skipped"
    BY <1>2, <1>6, <2>2
  <2>4. InOrder'
    BY <1>3, <2>3 DEF InOrder, new
  <2>5. CASE n < 7
    <3>1. new(n + 1) = "running" /\ n + 1 \in 1 .. 7 /\ job'.state = "running"
      BY <2>2, <2>5
    <3>2. \E s \in StepIds : job'.steps[s] = "running"
      BY <1>4, <3>1 DEF new
    <3> QED  BY <2>2, <2>4, <3>1, <3>2 DEF JobTypes, JobStates, StateOfSteps
  <2>6. CASE n = 7
    <3>1. \A j \in 1 .. 7 : new(j) \in {"ok", "failed"}
      BY <1>2, <2>2, <2>6
    <3>2. \A s \in StepIds : job'.steps[s] \in {"ok", "failed"}
      BY <1>3, <3>1 DEF new
    <3>3. job'.state = IF \E s \in StepIds : job'.steps[s] = "failed" THEN "failed" ELSE "ok"
      BY <2>2, <2>6
    <3> QED  BY <2>2, <2>4, <3>2, <3>3 DEF JobTypes, JobStates, StateOfSteps
  <2> QED  BY <2>5, <2>6
<1> QED  BY <1>5, <1>6

LEMMA EndStepFacts ==
  ASSUME JobTypes, InOrder, NEW n \in 1 .. 7, NEW result \in {"ok", "failed"},
         EndStep(Steps[n], result)
  PROVE  /\ job.steps[Steps[n]] = "running" /\ job'.steps[Steps[n]] = result
         /\ \A j \in 1 .. 7 : j < n => job'.steps[Steps[j]] = job.steps[Steps[j]]
         /\ \A j \in 1 .. 7 : j > n =>
              job.steps[Steps[j]] = "pending" /\ job'.steps[Steps[j]] # "ok"
<1>1. job.steps[Steps[n]] = "running"
  BY DEF EndStep
<1>2. \A j \in 1 .. 7 : j > n => job.steps[Steps[j]] = "pending"
  BY <1>1, OneStepAtATime
<1>3. CASE result = "failed" /\ Steps[n] \in Gating
  <2>1. job' = Bailed(Steps[n])
    BY <1>3 DEF EndStep
  <2> QED  BY <1>1, <1>2, <1>3, <2>1, BailedFacts
<1>4. CASE ~(result = "failed" /\ Steps[n] \in Gating)
  <2>1. job' = Advanced(Steps[n], result) /\ result \in StepStates
    BY <1>4 DEF EndStep, StepStates
  <2>2. \A j \in 1 .. 7 :
          job'.steps[Steps[j]] = IF j = n THEN result
                                 ELSE IF j = n + 1 THEN "running" ELSE job.steps[Steps[j]]
    BY <2>1, AdvancedFacts
  <2> QED  BY <1>1, <1>2, <2>2
<1> QED  BY <1>3, <1>4

(* A step that ends: what it has done, by its place among the steps.        *)
LEMMA ResetStepEnds ==
  ASSUME JobInv, NEW n \in 1 .. 7, NEW result \in {"ok", "failed"}, EndStep(Steps[n], result),
         UNCHANGED stray,
         n = 2 => (result = "ok" => pipeline' = "stopped"),
         n # 2 => UNCHANGED pipeline,
         n = 4 => (result = "ok" => topics' # "gone"),
         n \notin {3, 4} => UNCHANGED topics,
         n = 5 => IF result = "ok" THEN data' = "new" ELSE data' \in {data, "gone"},
         n # 5 => UNCHANGED data,
         n = 6 => result = "ok" /\ launches' = launches + 1,
         n # 6 => UNCHANGED launches
  PROVE  JobInv'
<1>1. JobTypes' /\ InOrder' /\ StateOfSteps'
  BY EndStepKeepsJob DEF JobInv
<1>2. /\ job.steps[Steps[n]] = "running" /\ job'.steps[Steps[n]] = result
      /\ \A j \in 1 .. 7 : j < n => job'.steps[Steps[j]] = job.steps[Steps[j]]
      /\ \A j \in 1 .. 7 : j > n => job.steps[Steps[j]] = "pending" /\ job'.steps[Steps[j]] # "ok"
  BY EndStepFacts DEF JobInv
<1> USE StepsFacts DEF JobInv, StepsOfWorld
<1>3. job'.steps["kafka-create"] = "ok" => topics' # "gone"
  BY <1>2
<1>4. data' = "new" <=> job'.steps["voltdb-reset"] = "ok"
  BY <1>2
<1>5. launches' \in Nat
  BY <1>2
<1>6. job'.steps["start-pipeline"] # "ok" => launches' = 0 \/ stray'
  BY <1>2
<1>7. job'.steps["start-pipeline"] # "ok" /\ job'.steps["stop-pipeline"] = "ok" =>
        pipeline' = "stopped" \/ stray'
  BY <1>2
<1> QED  BY <1>1, <1>3, <1>4, <1>5, <1>6, <1>7

LEMMA ResetBegins ==
  ASSUME JobInv, StartReset
  PROVE  JobInv'
<1>1. job' = [state |-> "running",
              steps |-> [s \in StepIds |-> IF s = Steps[1] THEN "running" ELSE "pending"]]
  BY DEF StartReset
<1>2. JobTypes'
  BY <1>1 DEF JobTypes, JobStates, StepStates
<1>3. \A j \in 1 .. 7 : job'.steps[Steps[j]] = IF j = 1 THEN "running" ELSE "pending"
  BY <1>1, PositionFacts, StepsDistinct
<1>4. InOrder'
  BY <1>3, StepsFacts DEF InOrder
<1>5. StateOfSteps'
  BY <1>1, StepsFacts DEF StateOfSteps
<1>6. /\ job'.steps["kafka-create"] = "pending" /\ job'.steps["voltdb-reset"] = "pending"
      /\ job'.steps["stop-pipeline"] = "pending"
  BY <1>3, StepsFacts
<1>7. data' # "new" /\ launches' = launches /\ (stray' = (stray \/ launches > 0))
  BY DEF StartReset
<1>8. launches \in Nat
  BY DEF JobInv, StepsOfWorld
<1>9. launches' \in Nat /\ (launches' = 0 \/ launches > 0)
  BY <1>7, <1>8
<1>10. launches' = 0 \/ stray'
  BY <1>7, <1>9, Zenon
<1> QED  BY <1>2, <1>4, <1>5, <1>6, <1>7, <1>9, <1>10 DEF JobInv, StepsOfWorld

LEMMA JobStep ==
  ASSUME JobInv, [Next]_vars
  PROVE  JobInv'
<1> USE StepsFacts
<1>1. CASE UNCHANGED <<job, pipeline, launches, topics, data, stray>>
  BY <1>1 DEF JobInv, JobTypes, InOrder, StateOfSteps, StepsOfWorld
<1>2. ASSUME NEW r \in Requests,
             \/ \E k \in Kinds : BeginStart(r, k) \/ BeginStop(r, k)
             \/ Spawn(r) \/ Register(r) \/ StartFails(r) \/ EndStop(r)
             \/ BeginStatus(r) \/ EndStatus(r)
      PROVE  UNCHANGED <<job, pipeline, launches, topics, data, stray>>
  BY <1>2 DEF BeginStart, BeginStop, Spawn, Register, StartFails, EndStop, BeginStatus, EndStatus,
              worldVars
<1>3. CASE \E pid \in DOMAIN children : ChildEnds(pid)
  BY <1>1, <1>3 DEF ChildEnds, serverVars, worldVars
<1>4. CASE StartReset
  BY <1>4, ResetBegins
<1>5. CASE ResetLoadgenStopped
  BY <1>1, <1>5 DEF ResetLoadgenStopped, worldVars
<1>6. CASE ResetClientsStopped
  <2>1. EndStep(Steps[1], "ok") /\ UNCHANGED <<pipeline, launches, topics, data, stray>>
    BY <1>6 DEF ResetClientsStopped, worldVars
  <2> QED  BY <2>1, ResetStepEnds
<1>7. ASSUME NEW result \in {"ok", "failed"}, StopPipeline(result)
      PROVE  JobInv'
  <2>1. /\ EndStep(Steps[2], result) /\ UNCHANGED <<launches, topics, data, stray>>
        /\ result = "ok" => pipeline' = "stopped"
    BY <1>7 DEF StopPipeline, StopSucceeds, outsideVars
  <2> QED  BY <2>1, ResetStepEnds
<1>8. ASSUME NEW result \in {"ok", "failed"}, TeardownKafka(result)
      PROVE  JobInv'
  <2>1. EndStep(Steps[3], result) /\ UNCHANGED <<pipeline, launches, data, stray>>
    BY <1>8 DEF TeardownKafka, outsideVars
  <2> QED  BY <2>1, ResetStepEnds
<1>9. ASSUME NEW result \in {"ok", "failed"}, CreateTopics(result)
      PROVE  JobInv'
  <2>1. /\ EndStep(Steps[4], result) /\ UNCHANGED <<pipeline, launches, data, stray>>
        /\ result = "ok" => topics' # "gone"
    BY <1>9 DEF CreateTopics, outsideVars
  <2> QED  BY <2>1, ResetStepEnds
<1>10. ASSUME NEW result \in {"ok", "failed"}, DeploySchema(result)
       PROVE  JobInv'
  <2>1. /\ EndStep(Steps[5], result) /\ UNCHANGED <<pipeline, launches, topics, stray>>
        /\ IF result = "ok" THEN data' = "new" ELSE data' \in {data, "gone"}
    BY <1>10 DEF DeploySchema, outsideVars
  <2> QED  BY <2>1, ResetStepEnds
<1>11. CASE StartPipeline
  <2>1. /\ EndStep(Steps[6], "ok") /\ UNCHANGED <<pipeline, topics, data, stray>>
        /\ launches' = launches + 1
    BY <1>11 DEF StartPipeline
  <2> QED  BY <2>1, ResetStepEnds
<1>12. ASSUME NEW result \in {"ok", "failed"}, Verify(result)
       PROVE  JobInv'
  <2>1. EndStep(Steps[7], result) /\ UNCHANGED <<pipeline, launches, topics, data, stray>>
    BY <1>12 DEF Verify, outsideVars
  <2> QED  BY <2>1, ResetStepEnds
<1>13. CASE LookForPipeline \/ \E k \in Kinds : LookFor(k)
  BY <1>1, <1>13 DEF LookForPipeline, LookFor, serverVars, worldVars
<1>14. CASE Launch \/ Subscribe \/ PipelineExits
  <2>1. UNCHANGED <<job, topics, data, stray>>
    BY <1>14 DEF Launch, Subscribe, PipelineExits, serverVars
  <2>2. /\ launches' \in Nat /\ (launches = 0 => launches' = 0)
        /\ pipeline' # pipeline => launches > 0 \/ pipeline # "stopped" \/ pipeline' = "stopped"
    BY <1>14 DEF Launch, Subscribe, PipelineExits, JobInv, StepsOfWorld
  <2> QED  BY <2>1, <2>2 DEF JobInv, JobTypes, InOrder, StateOfSteps, StepsOfWorld
<1>15. CASE UNCHANGED vars
  BY <1>1, <1>15 DEF vars, serverVars, worldVars
<1> QED
  BY <1>1, <1>2, <1>3, <1>4, <1>5, <1>6, <1>7, <1>8, <1>9, <1>10, <1>11, <1>12, <1>13, <1>14, <1>15
  DEF Next, ResetStep

LEMMA InitJob == Init => JobInv
<1> SUFFICES ASSUME Init PROVE JobInv
  OBVIOUS
<1>1. /\ job = [state |-> "idle", steps |-> [s \in StepIds |-> "pending"]]
      /\ launches = 0 /\ data = "old"
  BY DEF Init
<1>2. JobTypes
  BY <1>1 DEF JobTypes, JobStates, StepStates
<1>3. \A s \in StepIds : job.steps[s] = "pending"
  BY <1>1
<1>4. InOrder
  BY <1>3, PositionFacts, StepsFacts DEF InOrder
<1>5. StateOfSteps
  BY <1>1, <1>3 DEF StateOfSteps
<1> QED  BY <1>1, <1>2, <1>3, <1>4, <1>5, StepsFacts DEF JobInv, StepsOfWorld

LEMMA JobAlways == Spec => []JobInv
<1>1. JobInv /\ [Next]_vars => JobInv'
  BY JobStep
<1> QED  BY <1>1, InitJob, PTL DEF Spec

(* What the job reports is so: one step at a time and in order, nothing     *)
(* after a gating step that failed, "ok" only with topics and the schema of *)
(* this reset, "skipped" of the schema only when it is not this reset's     *)
(* (control.ts, step and runReset).                                         *)
THEOREM ReportsMatchTheWorld == Spec => []ReportMatchesWorld
<1>1. JobInv => ReportMatchesWorld
  <2> SUFFICES ASSUME JobInv PROVE ReportMatchesWorld
    OBVIOUS
  <2> USE DEF JobInv
  <2>1. job.state = "ok" => topics # "gone" /\ data = "new"
    BY StepsFacts DEF StateOfSteps, StepsOfWorld
  <2>2. job.steps["voltdb-reset"] = "skipped" => data # "new"
    BY DEF StepsOfWorld
  <2> QED  BY <2>1, <2>2, Zenon DEF InOrder, StateOfSteps, ReportMatchesWorld
<1> QED  BY <1>1, JobAlways, PTL

(* Topics and data are wiped only while no pipeline runs, however launches  *)
(* and exits of the pipeline fall between the steps, unless a launch of an  *)
(* earlier reset was still on its way when this one began.                  *)
THEOREM WipesWhenStopped == Spec => WipesOnlyWhenStopped
<1> DEFINE Wipe == (topics' = "gone" /\ topics # "gone") \/ data' \in {"gone", "new"} \ {data}
<1>1. ASSUME JobInv, [Next]_vars, Wipe
      PROVE  pipeline = "stopped" \/ stray
  <2>1. ASSUME NEW n \in {3, 4, 5}, job.steps[Steps[n]] = "running"
        PROVE  pipeline = "stopped" \/ stray
    <3>1. n \in 1 .. 7
      OBVIOUS
    <3>2. job.steps[Steps[2]] = "ok" /\ job.steps[Steps[6]] = "pending"
      BY <1>1, <2>1, <3>1, OneStepAtATime, StepsFacts DEF JobInv, Gating
    <3> QED  BY <1>1, <3>2, StepsFacts DEF JobInv, StepsOfWorld
  <2>2. \E result \in {"ok", "failed"} :
          TeardownKafka(result) \/ CreateTopics(result) \/ DeploySchema(result)
    <3>1. ~ UNCHANGED <<topics, data>>
      BY <1>1
    <3>2. ~ StartReset
      BY <1>1 DEF StartReset
    <3> QED
      BY <1>1, <3>1, <3>2
      DEF Next, ResetStep, vars, worldVars, serverVars, outsideVars, EndStep,
          BeginStart, BeginStop, Spawn, Register, StartFails, EndStop, BeginStatus, EndStatus,
          ChildEnds, ResetLoadgenStopped, ResetClientsStopped, StopPipeline, StartPipeline, Verify,
          LookForPipeline, LookFor, Launch, Subscribe, PipelineExits
  <2>3. \E n \in {3, 4, 5} : job.steps[Steps[n]] = "running"
    BY <2>2, StepsFacts DEF TeardownKafka, CreateTopics, DeploySchema, EndStep
  <2> QED  BY <2>1, <2>3
<1>2. JobInv /\ [Next]_vars => [Wipe => pipeline = "stopped" \/ stray]_vars
  BY <1>1
<1> QED  BY <1>2, JobAlways, PTL DEF Spec, WipesOnlyWhenStopped

----------------------------------------------------------------------------
(* The status request *)

(* What it has found stays true of the processes there were.                *)
LEMMA FoundStaysTrue ==
  ASSUME ProcessInv, StatusInv, Aged(children, children'), UNCHANGED status
  PROVE  StatusInv'
<1> SUFFICES ASSUME status # None PROVE StatusInv'
  BY DEF StatusInv
<1>1. /\ Len(children) \in Nat /\ Len(children') \in Nat /\ Len(children) <= Len(children')
      /\ status.before \in Nat /\ status.before <= Len(children)
  BY LenProperties DEF ProcessInv, ProcessTypes, Aged, StatusInv, StatusRecord
<1>2. Tracks'
  BY AgedKeeps DEF StatusInv, Tracks
<1>3. ASSUME NEW k \in Kinds, status.external[k] = FALSE, NEW i \in 1 .. status.before,
             children'[i].kind = k
      PROVE  children'[i].state \notin Alive
  BY <1>1, <1>3 DEF Aged, StatusInv, Missed
<1>4. Missed'
  BY <1>3 DEF Missed
<1>5. Answers' /\ status' \in StatusRecord /\ status'.before <= Len(children')
  BY <1>1 DEF StatusInv, Answers
<1> QED  BY <1>2, <1>4, <1>5 DEF StatusInv

LEMMA StatusBegins ==
  ASSUME ProcessInv, NEW r \in Requests, BeginStatus(r)
  PROVE  StatusInv'
<1>1. /\ children \in Seq(Child) /\ procs \in [Kinds -> Nat \cup {None}] /\ Len(children) \in Nat
  BY LenProperties DEF ProcessInv, ProcessTypes
<1>2. /\ status' = [ tracked  |-> [k \in Kinds |-> IF HoldsProcess(k) THEN procs[k] ELSE None],
                     external |-> [k \in Kinds |-> None], pipeline |-> None, reset |-> None,
                     before   |-> Len(children) ]
      /\ children' = children
  BY DEF BeginStatus
<1>3. [k \in Kinds |-> IF HoldsProcess(k) THEN procs[k] ELSE None] \in [Kinds -> Nat \cup {None}]
  BY <1>1
<1>4. status' \in StatusRecord
  BY <1>1, <1>2, <1>3 DEF StatusRecord
<1>5. Tracks'
  <2>1. \A k \in Kinds : status'.tracked[k] # None => IsOf(status'.tracked[k], k)
    BY <1>2 DEF ProcessInv, TrackedInv
  <2> QED  BY <1>2, <2>1 DEF Tracks, IsOf
<1>6. Missed'
  BY <1>2, ControlBoundsAssumption DEF Missed
<1>7. Answers' /\ status'.before <= Len(children')
  BY <1>1, <1>2 DEF Answers
<1> QED  BY <1>4, <1>5, <1>6, <1>7 DEF StatusInv

(* pgrep finds nothing only when no process of the kind is alive.           *)
LEMMA LookKeeps ==
  ASSUME ProcessInv, StatusInv, NEW k \in Kinds, LookFor(k)
  PROVE  StatusInv'
<1>1. PICK found \in {Running(k), TRUE} : status' = [status EXCEPT !.external[k] = found]
  BY DEF LookFor, Found
<1>2. /\ status \in StatusRecord /\ children' = children
      /\ status # None /\ status.external[k] = None
      /\ status.before <= Len(children) /\ Tracks /\ Missed /\ Answers
  BY DEF LookFor, StatusInv
<1>3. found \in BOOLEAN
  BY <1>1, Zenon DEF Running
<1>4. /\ status'.external = [status.external EXCEPT ![k] = found]
      /\ status'.tracked = status.tracked /\ status'.before = status.before
      /\ status'.reset = status.reset /\ status'.pipeline = status.pipeline
  BY <1>1, <1>2 DEF StatusRecord
<1>5. status' \in StatusRecord
  BY <1>1, <1>2, <1>3 DEF StatusRecord
<1>6. Tracks'
  BY <1>2, <1>4 DEF Tracks, IsOf
<1>7. Answers'
  BY <1>2, <1>4 DEF Answers
<1>8. ASSUME found = FALSE, NEW i \in 1 .. status.before, children[i].kind = k
      PROVE  children[i].state \notin Alive
  <2>1. i \in DOMAIN children
    BY <1>2, LenProperties DEF ProcessInv, ProcessTypes, StatusRecord
  <2>2. ~ Running(k)
    BY <1>1, <1>8
  <2> QED  BY <1>8, <2>1, <2>2 DEF Running, Alive
<1>9. \A j \in Kinds : status'.external[j] = IF j = k THEN found ELSE status.external[j]
  BY <1>2, <1>4 DEF StatusRecord
<1>10. Missed'
  <2> SUFFICES ASSUME NEW j \in Kinds, status'.external[j] = FALSE,
                      NEW i \in 1 .. status.before, children[i].kind = j
               PROVE  children[i].state \notin Alive
    BY <1>2, <1>4 DEF Missed
  <2>1. CASE j = k
    BY <1>8, <1>9, <2>1
  <2>2. CASE j # k
    BY <1>2, <1>9, <2>2 DEF Missed
  <2> QED  BY <2>1, <2>2
<1> QED  BY <1>2, <1>4, <1>5, <1>6, <1>7, <1>10 DEF StatusInv

LEMMA PipelineLookKeeps ==
  ASSUME StatusInv, LookForPipeline
  PROVE  StatusInv'
<1>1. PICK found \in BOOLEAN : status' = [status EXCEPT !.pipeline = found]
  BY DEF LookForPipeline
<1>2. /\ status \in StatusRecord /\ children' = children /\ status # None
      /\ status.before <= Len(children) /\ Tracks /\ Missed /\ Answers
  BY DEF LookForPipeline, StatusInv
<1>3. /\ status'.external = status.external /\ status'.tracked = status.tracked
      /\ status'.before = status.before /\ status'.reset = status.reset
      /\ status' \in StatusRecord
  BY <1>1, <1>2 DEF StatusRecord
<1> QED  BY <1>2, <1>3 DEF StatusInv, Tracks, Missed, Answers, IsOf

LEMMA StatusAnswers ==
  ASSUME StatusInv, JobInv, NEW r \in Requests, EndStatus(r)
  PROVE  StatusInv'
<1>1. /\ status' = [status EXCEPT !.reset = job.state] /\ children' = children /\ status # None
      /\ \A k \in Kinds : status.external[k] # None
  BY DEF EndStatus
<1>2. /\ status \in StatusRecord /\ job.state \in JobStates
      /\ status.before <= Len(children) /\ Tracks /\ Missed
  BY <1>1 DEF StatusInv, JobInv, JobTypes
<1>3. /\ status'.external = status.external /\ status'.tracked = status.tracked
      /\ status'.before = status.before /\ status' \in StatusRecord
  BY <1>1, <1>2 DEF StatusRecord
<1> QED  BY <1>1, <1>2, <1>3 DEF StatusInv, Tracks, Missed, Answers, IsOf

ControlInv == ProcessInv /\ JobInv /\ StatusInv

LEMMA StatusStep ==
  ASSUME ControlInv, [Next]_vars
  PROVE  StatusInv'
<1> USE DEF ControlInv
<1>1. CASE UNCHANGED status
  BY <1>1, ProcessStep, FoundStaysTrue
<1>2. CASE \E r \in Requests : BeginStatus(r) \/ EndStatus(r)
  BY <1>2, StatusBegins, StatusAnswers
<1>3. CASE LookForPipeline \/ \E k \in Kinds : LookFor(k)
  BY <1>3, LookKeeps, PipelineLookKeeps
<1>4. ASSUME NEW r \in Requests,
             \/ \E k \in Kinds : BeginStart(r, k) \/ BeginStop(r, k)
             \/ Spawn(r) \/ Register(r) \/ StartFails(r) \/ EndStop(r)
      PROVE  UNCHANGED status
  BY <1>4 DEF BeginStart, BeginStop, Spawn, Register, StartFails, EndStop
<1>5. (\E pid \in DOMAIN children : ChildEnds(pid)) \/ StartReset => UNCHANGED status
  BY DEF ChildEnds, StartReset
<1>6. ResetStep => UNCHANGED status
  BY DEF ResetStep, ResetLoadgenStopped, ResetClientsStopped, StopPipeline, TeardownKafka,
         CreateTopics, DeploySchema, StartPipeline, Verify, outsideVars
<1>7. Launch \/ Subscribe \/ PipelineExits \/ UNCHANGED vars => UNCHANGED status
  BY DEF Launch, Subscribe, PipelineExits, vars
<1> QED  BY <1>1, <1>2, <1>3, <1>4, <1>5, <1>6, <1>7 DEF Next

(* A status request that says of a kind that it does not run is right of    *)
(* every process there was when the request came, whatever started, stopped *)
(* and ended while its three commands ran (control.ts, controlStatus).      *)
THEOREM StatusSeesClients == Spec => []StatusSeesEveryClient
<1>1. Init => ControlInv
  BY InitProcess, InitJob DEF ControlInv, StatusInv, Init
<1>2. ControlInv /\ [Next]_vars => ControlInv'
  BY ProcessStep, JobStep, StatusStep DEF ControlInv
<1>3. ControlInv => StatusSeesEveryClient
  <2> SUFFICES ASSUME ControlInv, status # None, status.reset # None, NEW k \in Kinds
               PROVE  /\ ~ReportedRunning(k) =>
                           \A i \in 1 .. status.before :
                             children[i].kind = k => children[i].state \notin Alive
                      /\ status.tracked[k] # None => children[status.tracked[k]].kind = k
    BY DEF StatusSeesEveryClient, Alive
  <2>1. status \in StatusRecord /\ Tracks /\ Missed /\ status.external[k] # None
    BY DEF ControlInv, StatusInv, Answers
  <2>2. status.external[k] \in BOOLEAN
    BY <2>1 DEF StatusRecord
  <2> QED  BY <2>1, <2>2 DEF Tracks, Missed, ReportedRunning, IsOf
<1> QED  BY <1>1, <1>2, <1>3, PTL DEF Spec
=============================================================================
