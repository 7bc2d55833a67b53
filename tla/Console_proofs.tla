--------------------------- MODULE Console_proofs ---------------------------
(***************************************************************************)
(* The console, for every walk through its pages and without any of the    *)
(* bounds of the run on what is under way.                                 *)
(*                                                                         *)
(* The argument is about the tasks: whatever function a task is, it asks   *)
(* what that function asks (TaskOK), and what the server has answered it   *)
(* says what the server did (AnswerOK).  A step of a page leaves the       *)
(* tasks as they are but for one that begins, goes on or ends (Turn); a    *)
(* step of the server answers one, or lets one through that needs the      *)
(* unlock only when it came with a token in force (PassOK).  So the tokens *)
(* and the addresses can be followed from the server through an answer to  *)
(* the page, and a change back from its effect to the look at its token.   *)
(* The tail of the topic has an argument of its own, at the end.           *)
(***************************************************************************)
EXTENDS Console, SumTheorems, SequenceTheorems

OpType  == [do : {"none", "insert", "delete", "read"}, day : Nat, amount : Nat]
EnvType == [mode : DataModes, readOnly : BOOLEAN, token : {None} \cup Nat]

IsTask(t) == DOMAIN t = {"id", "fn", "at", "mount", "env", "req", "pass", "ans", "kept"}
IsKept(k) == DOMAIN k = {"points", "texts", "left", "choice", "number", "source"}

(* A request that changes the rows of the story is a statement that says so; *)
(* it is one of those that need the unlock.                                 *)
Changing == {"insert", "delete"}
ChangeOK(req) == req.op.do \in Changing =>
  req.path \in {"browser", "sql"} /\ req.text = <<req.op.do>>
NeedsUnlock(req) == req.path \in {"produce", "control"} \/ req.op.do \in Changing

(* What a function asks for, when iss tokens have been issued.              *)
RequestOK(fn, req, kept, iss) ==
  /\ req.op \in OpType /\ ChangeOK(req)
  /\ fn = "unlock" => req.path = "unlock"
  /\ req.path = "unlock" => fn \in {"unlock", "gone"}
  /\ fn = "lock" => req.path = "lock"
  /\ req.path = "lock" => req.token \in {None} \cup 1 .. iss
  /\ fn = "save" => req.text = <<kept.choice.voltApiUrl>> /\ req.path = "connection"
KeptOK(fn, kept) ==
  /\ IsKept(kept)
  /\ fn = "save" => kept.choice \in Drafts
  /\ fn = "story" => kept.left \in Seq(OpType) /\ kept.left # <<>>

(* What an answer says of the server, which has issued iss tokens, keeps    *)
(* those of held and has accepted the addresses of acc.                     *)
AnswerOK(req, a, iss, held, acc) ==
  /\ a \in AnswerType
  /\ req.path = "unlock" /\ a.done => a.trace \in 1 .. iss
  /\ req.path = "unlock" /\ a.ok => a.done /\ a.value = a.trace
  /\ req.path = "lock" /\ a.done => req.token \notin held
  /\ req.path = "connection" /\ a.ok => Head(req.text) \in acc \cup {NoUrl}

(* What the server lets through although it needs the unlock came with it.  *)
PassOK(t) ==
  /\ t.pass \in {"no", "locked", "unlocked"}
  /\ t.pass # "no" /\ NeedsUnlock(t.req) => t.pass = "unlocked"

TaskOK(t, iss, held, acc) ==
  /\ IsTask(t) /\ PassOK(t)
  /\ t.id \in Nat /\ t.env \in EnvType
  /\ RequestOK(t.fn, t.req, t.kept, iss)
  /\ KeptOK(t.fn, t.kept)
  /\ t.ans = None \/ AnswerOK(t.req, t.ans, iss, held, acc)

ServerOK ==
  /\ issued \in 0 .. MaxTokens
  /\ tokens = [k \in DOMAIN tokens |-> tokens[k]] /\ DOMAIN tokens \subseteq 1 .. issued
  /\ dead \subseteq 1 .. issued
  /\ \A k \in DOMAIN tokens : tokens[k] \in {"live", "expired"}
  /\ \A k \in DOMAIN tokens : tokens[k] = "live" => k \notin dead
  /\ accepted \subseteq AllowedUrls /\ upstream \in accepted \cup {EnvUrl}
  /\ job \in BOOLEAN

DatabaseOK ==
  /\ daily \in [DOMAIN daily -> Nat] /\ DOMAIN daily \subseteq Nat
  /\ IsFiniteSet(DOMAIN daily)
  /\ stream \in Nat /\ recorded \in Nat /\ stream + recorded <= MaxEvents

SessionOK ==
  /\ settings \in Drafts
  /\ readOnly \in BOOLEAN
  /\ unlockToken \in {None} \cup 1 .. issued
  /\ orphans \subseteq 1 .. issued

UniqueIds(T) == \A t, u \in T : t.id = u.id => t = u
TasksOK ==
  /\ IsFiniteSet(tasks) /\ Cardinality(tasks) <= MaxTasks
  /\ UniqueIds(tasks)
  /\ \A t \in tasks : TaskOK(t, issued, DOMAIN tokens, accepted)

PageOK    == "page" \in DOMAIN view /\ view.page \in Pages
HistoryOK == history \in Seq([ok : BOOLEAN, locked : BOOLEAN]) /\ Len(history) <= MaxHistory

TypesInv == ServerOK /\ DatabaseOK /\ SessionOK /\ TasksOK /\ PageOK /\ HistoryOK
----------------------------------------------------------------------------
(* Tasks *)

(* What the server forgets it never hands out again, and what it has        *)
(* accepted stays so.                                                       *)
ServerGrows ==
  /\ issued' \in Nat /\ issued <= issued' /\ accepted \subseteq accepted'
  /\ DOMAIN tokens' \subseteq DOMAIN tokens \cup issued + 1 .. issued'

LEMMA TaskStays ==
  ASSUME issued \in Nat, ServerGrows, NEW t, TaskOK(t, issued, DOMAIN tokens, accepted)
  PROVE  TaskOK(t, issued', DOMAIN tokens', accepted')
<1>1. RequestOK(t.fn, t.req, t.kept, issued')
  BY DEF TaskOK, RequestOK, ServerGrows
<1>2. ASSUME t.ans # None
      PROVE  AnswerOK(t.req, t.ans, issued', DOMAIN tokens', accepted')
  <2>1. AnswerOK(t.req, t.ans, issued, DOMAIN tokens, accepted)
    BY <1>2 DEF TaskOK
  <2>2. t.req.path = "lock" /\ t.ans.done => t.req.token \notin DOMAIN tokens'
    <3> SUFFICES ASSUME t.req.path = "lock", t.ans.done
                 PROVE  t.req.token \notin DOMAIN tokens'
      OBVIOUS
    <3>1. t.req.token \notin DOMAIN tokens
      BY <2>1 DEF AnswerOK
    <3>2. t.req.token \in {None} \cup 1 .. issued
      BY DEF TaskOK, RequestOK
    <3>3. None \notin issued + 1 .. issued'
      BY ServerAssumption
    <3>4. t.req.token \notin issued + 1 .. issued'
      BY <3>2, <3>3
    <3> QED  BY <3>1, <3>4 DEF ServerGrows
  <2>3. t.ans \in AnswerType
    BY <2>1 DEF AnswerOK
  <2>4. t.req.path = "unlock" /\ t.ans.done => t.ans.trace \in 1 .. issued'
    BY <2>1 DEF AnswerOK, ServerGrows
  <2> QED  BY <2>1, <2>2, <2>3, <2>4 DEF AnswerOK, ServerGrows
<1> QED  BY <1>1, <1>2 DEF TaskOK

LEMMA FreeIdIsFree ==
  ASSUME IsFiniteSet(tasks)
  PROVE  FreeId \in Nat /\ \A t \in tasks : t.id # FreeId
<1> DEFINE S == 1 .. Cardinality(tasks) + 1
<1>1. Cardinality(tasks) \in Nat
  BY FS_CardinalityType
<1>2. \E i \in S : \A t \in tasks : t.id # i
  <2> SUFFICES ASSUME \A i \in S : \E t \in tasks : t.id = i  PROVE FALSE
    OBVIOUS
  <2> DEFINE f == [i \in S |-> CHOOSE t \in tasks : t.id = i]
  <2>1. IsFiniteSet(S) /\ Cardinality(tasks) < Cardinality(S)
    BY <1>1, FS_Interval
  <2>2. \A i \in S : f[i] \in tasks /\ f[i].id = i
    OBVIOUS
  <2>3. f \in [S -> tasks]
    BY <2>2
  <2> HIDE DEF f, S
  <2>4. \E x, y \in S : x # y /\ f[x] = f[y]
    BY <2>1, <2>3, FS_PigeonHole
  <2> QED  BY <2>2, <2>4
<1>3. FreeId \in S /\ \A t \in tasks : t.id # FreeId
  BY <1>2 DEF FreeId
<1> QED  BY <1>1, <1>3

(* A task of which no more than a number it keeps has changed.              *)
Alike(t, u) ==
  /\ IsTask(u)
  /\ u.id = t.id /\ u.fn = t.fn /\ u.at = t.at /\ u.mount = t.mount /\ u.env = t.env
  /\ u.req = t.req /\ u.pass = t.pass /\ u.ans = t.ans
  /\ IsKept(u.kept)
  /\ u.kept.left = t.kept.left /\ u.kept.choice = t.kept.choice /\ u.kept.texts = t.kept.texts

Renumbered(T, O) ==
  /\ IsFiniteSet(O) /\ Cardinality(O) <= Cardinality(T)
  /\ UniqueIds(O)
  /\ \A t \in T : \E u \in O : Alike(t, u)
  /\ \A u \in O : \E t \in T : Alike(t, u)

LEMMA SameTasks ==
  ASSUME TasksOK
  PROVE  Renumbered(tasks, tasks)
<1>1. Cardinality(tasks) \in Nat
  BY FS_CardinalityType DEF TasksOK
<1>2. \A t \in tasks : Alike(t, t)
  BY DEF TasksOK, TaskOK, KeptOK, Alike
<1> QED  BY <1>1, <1>2 DEF Renumbered, TasksOK

LEMMA ImageIsRenumbered ==
  ASSUME TasksOK, NEW f, \A t \in tasks : Alike(t, f[t])
  PROVE  Renumbered(tasks, {f[t] : t \in tasks})
<1> DEFINE O == {f[t] : t \in tasks}
           g == [t \in tasks |-> f[t]]
<1>1. g \in [tasks -> O] /\ \A u \in O : \E t \in tasks : g[t] = u
  OBVIOUS
<1>2. g \in Surjection(tasks, O)
  BY <1>1 DEF Surjection
<1>3. IsFiniteSet(O) /\ Cardinality(O) <= Cardinality(tasks)
  <2> HIDE DEF g, O
  <2> QED  BY <1>2, FS_Surjection DEF TasksOK
<1>4. UniqueIds(O)
  BY DEF UniqueIds, TasksOK, Alike
<1> QED  BY <1>3, <1>4 DEF Renumbered

LEMMA ZeroIsAlike ==
  ASSUME NEW t, IsTask(t), IsKept(t.kept)
  PROVE  Alike(t, t) /\ Alike(t, [t EXCEPT !.kept.number = 0])
<1>1. Alike(t, t)
  BY DEF Alike
<1>2. Alike(t, [t EXCEPT !.kept.number = 0])
  BY DEF IsTask, IsKept, Alike
<1> QED  BY <1>1, <1>2

LEMMA StoppedIsRenumbered ==
  ASSUME TasksOK
  PROVE  Renumbered(tasks, Stopped(tasks))
<1> DEFINE f == [t \in tasks |-> IF t.fn = "tick" /\ Mounted(t) THEN [t EXCEPT !.kept.number = 0]
                                 ELSE t]
<1>1. \A t \in tasks : IsTask(t) /\ IsKept(t.kept)
  BY DEF TasksOK, TaskOK, KeptOK
<1>2. \A t \in tasks : Alike(t, t) /\ Alike(t, [t EXCEPT !.kept.number = 0])
  BY <1>1, ZeroIsAlike
<1>3. \A t \in tasks : Alike(t, f[t])
  BY <1>2
<1>4. Stopped(tasks) = {f[t] : t \in tasks}
  BY DEF Stopped
<1> HIDE DEF f
<1> QED  BY <1>3, <1>4, ImageIsRenumbered

LEMMA CancelledIsRenumbered ==
  ASSUME TasksOK
  PROVE  Renumbered(tasks, Cancelled(tasks))
<1> DEFINE f == [t \in tasks |-> IF t.fn = "useCall" /\ Mounted(t) THEN [t EXCEPT !.kept.number = 0]
                                 ELSE t]
<1>1. \A t \in tasks : IsTask(t) /\ IsKept(t.kept)
  BY DEF TasksOK, TaskOK, KeptOK
<1>2. \A t \in tasks : Alike(t, t) /\ Alike(t, [t EXCEPT !.kept.number = 0])
  BY <1>1, ZeroIsAlike
<1>3. \A t \in tasks : Alike(t, f[t])
  BY <1>2
<1>4. Cancelled(tasks) = {f[t] : t \in tasks}
  BY DEF Cancelled
<1> HIDE DEF f
<1> QED  BY <1>3, <1>4, ImageIsRenumbered

LEMMA DetachedIsRenumbered ==
  ASSUME TasksOK
  PROVE  Renumbered(tasks, Detached(tasks))
<1> DEFINE f == [t \in tasks |-> IF t.fn = "capture" /\ Mounted(t) THEN [t EXCEPT !.kept.number = 0]
                                 ELSE t]
<1>1. \A t \in tasks : IsTask(t) /\ IsKept(t.kept)
  BY DEF TasksOK, TaskOK, KeptOK
<1>2. \A t \in tasks : Alike(t, t) /\ Alike(t, [t EXCEPT !.kept.number = 0])
  BY <1>1, ZeroIsAlike
<1>3. \A t \in tasks : Alike(t, f[t])
  BY <1>2
<1>4. Detached(tasks) = {f[t] : t \in tasks}
  BY DEF Detached
<1> HIDE DEF f
<1> QED  BY <1>3, <1>4, ImageIsRenumbered

(* A step after which the tasks are still what they should be, of which     *)
(* only the ended ones are gone or ask something else, and none has got an  *)
(* answer.                                                                  *)
Turn(ended) ==
  /\ TasksOK'
  /\ \A t \in tasks \ ended : \E u \in tasks' : Alike(t, u)
  /\ \A u \in tasks' : u.ans # None => \E t \in tasks : Alike(t, u)

(* A task that asks its first question, or its next one.                    *)
Asks(fn, req, kept) ==
  RequestOK(fn, req, kept, issued) /\ KeptOK(fn, kept)

LEMMA AlikeIsOK ==
  ASSUME NEW iss, NEW held, NEW acc, NEW t, TaskOK(t, iss, held, acc), NEW u, Alike(t, u)
  PROVE  TaskOK(u, iss, held, acc)
BY DEF TaskOK, Alike, RequestOK, PassOK, KeptOK

LEMMA RenumberedAreOK ==
  ASSUME TasksOK, NEW O, Renumbered(tasks, O)
  PROVE  \A u \in O : TaskOK(u, issued, DOMAIN tokens, accepted)
BY AlikeIsOK DEF TasksOK, Renumbered

LEMMA RenumberedTurn ==
  ASSUME TasksOK, UNCHANGED serverVars, NEW O, Renumbered(tasks, O), tasks' = O
  PROVE  Turn({})
<1>1. Cardinality(O) \in Nat /\ Cardinality(tasks) \in Nat /\ MaxTasks \in Nat
  BY FS_CardinalityType, SessionAssumption DEF TasksOK, Renumbered
<1>2. Cardinality(O) <= MaxTasks
  BY <1>1 DEF Renumbered, TasksOK
<1>3. TasksOK'
  BY <1>2, RenumberedAreOK DEF TasksOK, Renumbered, serverVars
<1> QED  BY <1>3 DEF Turn, Renumbered

LEMMA StayTurn ==
  ASSUME TasksOK, UNCHANGED <<serverVars, tasks>>
  PROVE  Turn({})
BY SameTasks, RenumberedTurn

LEMMA EndTurn ==
  ASSUME TasksOK, UNCHANGED serverVars, NEW t \in tasks, Ends(t)
  PROVE  Turn({t})
<1>1. tasks' = tasks \ {t}
  BY DEF Ends
<1>2. IsFiniteSet(tasks') /\ Cardinality(tasks') <= Cardinality(tasks)
  BY <1>1, FS_Subset DEF TasksOK
<1>3. Cardinality(tasks') \in Nat /\ Cardinality(tasks) \in Nat /\ MaxTasks \in Nat
  BY <1>2, FS_CardinalityType, SessionAssumption DEF TasksOK
<1>4. Cardinality(tasks') <= MaxTasks
  BY <1>2, <1>3 DEF TasksOK
<1>5. TasksOK'
  BY <1>1, <1>2, <1>4 DEF TasksOK, UniqueIds, serverVars
<1>6. \A u \in tasks : Alike(u, u)
  BY DEF TasksOK, TaskOK, KeptOK, Alike
<1> QED  BY <1>1, <1>5, <1>6 DEF Turn

LEMMA BeginTurn ==
  ASSUME TasksOK, UNCHANGED serverVars, NEW O, Renumbered(tasks, O),
         NEW fn, NEW at, NEW env \in EnvType, NEW req, NEW kept, Asks(fn, req, kept),
         BeginAmong(O, fn, at, env, req, kept)
  PROVE  Turn({})
<1> DEFINE new == [id |-> FreeId, fn |-> fn, at |-> at, mount |-> mount, env |-> env,
                   req |-> req, pass |-> "no", ans |-> None, kept |-> kept]
<1>1. tasks' = O \cup {new} /\ Cardinality(O) < MaxTasks
  BY DEF BeginAmong
<1>2. FreeId \in Nat /\ \A t \in tasks : t.id # FreeId
  BY FreeIdIsFree DEF TasksOK
<1>3. TaskOK(new, issued, DOMAIN tokens, accepted)
  BY <1>2 DEF TaskOK, IsTask, PassOK, Asks
<1>4. \A u \in O : u.id # FreeId
  BY <1>2 DEF Renumbered, Alike
<1>5. UniqueIds(tasks')
  BY <1>1, <1>4 DEF UniqueIds, Renumbered
<1>6. IsFiniteSet(tasks') /\ Cardinality(tasks') <= Cardinality(O) + 1
  <2> HIDE DEF new
  <2>1. IsFiniteSet(O)
    BY DEF Renumbered
  <2>2. Cardinality(O) \in Nat
    BY <2>1, FS_CardinalityType
  <2>3. IsFiniteSet(O \cup {new})
        /\ Cardinality(O \cup {new}) = IF new \in O THEN Cardinality(O) ELSE Cardinality(O) + 1
    BY <2>1, FS_AddElement
  <2> QED  BY <1>1, <2>2, <2>3
<1>7. Cardinality(tasks') <= MaxTasks
  <2>1. Cardinality(O) \in Nat /\ Cardinality(tasks') \in Nat /\ MaxTasks \in Nat
    BY <1>6, FS_CardinalityType, SessionAssumption DEF Renumbered
  <2> QED  BY <1>1, <1>6, <2>1
<1>8. TasksOK'
  <2> HIDE DEF new
  <2> QED  BY <1>1, <1>3, <1>5, <1>6, <1>7, RenumberedAreOK DEF TasksOK, serverVars
<1>9. new.ans = None
  OBVIOUS
<1> HIDE DEF new
<1> QED  BY <1>1, <1>8, <1>9 DEF Turn, Renumbered

LEMMA ReplacedTasks ==
  ASSUME TasksOK, NEW t \in tasks, NEW u, u.id = t.id, tasks' = (tasks \ {t}) \cup {u}
  PROVE  IsFiniteSet(tasks') /\ Cardinality(tasks') <= MaxTasks /\ UniqueIds(tasks')
<1>1. /\ IsFiniteSet(tasks \ {t})
      /\ Cardinality(tasks \ {t}) = Cardinality(tasks) - 1
  BY FS_RemoveElement DEF TasksOK
<1>2. /\ IsFiniteSet(tasks')
      /\ Cardinality(tasks') = IF u \in tasks \ {t} THEN Cardinality(tasks \ {t})
                               ELSE Cardinality(tasks \ {t}) + 1
  BY <1>1, FS_AddElement
<1>3. Cardinality(tasks) \in Nat /\ MaxTasks \in Nat
  BY FS_CardinalityType, SessionAssumption DEF TasksOK
<1>4. Cardinality(tasks') <= MaxTasks
  BY <1>1, <1>2, <1>3 DEF TasksOK
<1>5. UniqueIds(tasks')
  BY DEF TasksOK, UniqueIds
<1> QED  BY <1>2, <1>4, <1>5

LEMMA SendTurn ==
  ASSUME TasksOK, UNCHANGED serverVars, NEW t \in tasks,
         NEW at, NEW req, NEW kept, Asks(t.fn, req, kept), Sends(t, at, req, kept)
  PROVE  Turn({t})
<1> DEFINE u == [t EXCEPT !.at = at, !.req = req, !.pass = "no", !.ans = None, !.kept = kept]
<1>1. TaskOK(t, issued, DOMAIN tokens, accepted)
  BY DEF TasksOK
<1>2. /\ IsTask(u) /\ u.id = t.id /\ u.fn = t.fn /\ u.env = t.env
      /\ u.req = req /\ u.kept = kept /\ u.pass = "no" /\ u.ans = None
  BY <1>1 DEF TaskOK, IsTask
<1>3. tasks' = (tasks \ {t}) \cup {u}
  BY DEF Sends
<1> HIDE DEF u
<1>4. TaskOK(u, issued, DOMAIN tokens, accepted)
  BY <1>1, <1>2 DEF TaskOK, PassOK, Asks
<1>5. TasksOK'
  BY <1>2, <1>3, <1>4, ReplacedTasks DEF TasksOK, serverVars
<1>6. \A v \in tasks : Alike(v, v)
  BY DEF TasksOK, TaskOK, KeptOK, Alike
<1> QED  BY <1>2, <1>3, <1>5, <1>6 DEF Turn

----------------------------------------------------------------------------
(* The steps of the pages *)

PageStays == "page" \in DOMAIN view' /\ view'.page = view.page

(* Whatever a page does but navigate; most of it leaves the lock alone and  *)
(* no answer of an unlock behind.                                           *)
PageStep  == UNCHANGED <<serverVars, mount>> /\ PageStays
QuietStep ==
  /\ PageStep /\ UNCHANGED lock
  /\ \E ended \in SUBSET tasks : Turn(ended) /\ \A t \in ended : t.fn \notin {"unlock", "gone"}
LockStep ==
  /\ PageStep /\ UNCHANGED <<settings, tasks>>
  /\ UnlockWrites(None) \/ LockWrites(None)

LEMMA CapturedIsEnv ==
  ASSUME TypesInv
  PROVE  Captured \in EnvType /\ NoOptions \in EnvType
BY DEF TypesInv, ServerOK, SessionOK, Drafts, Captured, NoOptions, EnvType, DataModes

LEMMA NothingIsKept == IsKept(NothingKept)
BY DEF IsKept, NothingKept

(* A call or a statement through the facade is none of the other requests.  *)
Plain(req) ==
  req.path \notin {"unlock", "lock", "connection"} /\ req.op \in OpType /\ ChangeOK(req)

LEMMA CallsArePlain ==
  ASSUME NEW env, NEW name, NEW op \in OpType, op.do \notin Changing
  PROVE  Plain(ProcedureCall(env, name, op)) /\ Plain(StatementRun(env, name, op))
BY DEF Plain, ProcedureCall, StatementRun, Request, Via, ChangeOK

LEMMA PlainAsks ==
  ASSUME NEW fn, fn \notin {"unlock", "lock", "save"}, NEW req, Plain(req),
         NEW kept, KeptOK(fn, kept)
  PROVE  Asks(fn, req, kept)
BY DEF Asks, RequestOK, Plain

LEMMA NoOpType == NoOp \in OpType /\ NoOp.do \notin Changing
BY DEF NoOp, OpType, Changing

LEMMA BeginsQuietly ==
  ASSUME TypesInv, PageStep, UNCHANGED lock, NEW O, Renumbered(tasks, O),
         NEW fn, NEW at, NEW env \in EnvType, NEW req, NEW kept, Asks(fn, req, kept),
         BeginAmong(O, fn, at, env, req, kept)
  PROVE  QuietStep
<1>1. Turn({})
  BY BeginTurn DEF TypesInv, PageStep
<1> QED  BY <1>1 DEF QuietStep

LEMMA StaysQuietly ==
  ASSUME TypesInv, PageStep, UNCHANGED <<lock, tasks>>
  PROVE  QuietStep
<1>1. Turn({})
  BY StayTurn DEF TypesInv, PageStep
<1> QED  BY <1>1 DEF QuietStep

LEMMA RenumbersQuietly ==
  ASSUME TypesInv, PageStep, UNCHANGED lock, NEW O, Renumbered(tasks, O), tasks' = O
  PROVE  QuietStep
<1>1. Turn({})
  BY RenumberedTurn DEF TypesInv, PageStep
<1> QED  BY <1>1 DEF QuietStep

LEMMA EndsQuietly ==
  ASSUME TypesInv, PageStep, UNCHANGED lock, NEW t \in tasks, Ends(t),
         t.fn \notin {"unlock", "gone"}
  PROVE  QuietStep
<1>1. Turn({t})
  BY EndTurn DEF TypesInv, PageStep
<1> QED  BY <1>1 DEF QuietStep

LEMMA SendsQuietly ==
  ASSUME TypesInv, PageStep, UNCHANGED lock, NEW t \in tasks,
         t.fn \notin {"unlock", "gone"},
         NEW at, NEW req, NEW kept, Asks(t.fn, req, kept), Sends(t, at, req, kept)
  PROVE  QuietStep
<1>1. Turn({t})
  BY SendTurn DEF TypesInv, PageStep
<1> QED  BY <1>1 DEF QuietStep

(* A page that sets one of its fields stays the page it is, and one that    *)
(* has been left stays away.                                                *)
LEMMA FieldStays ==
  ASSUME "page" \in DOMAIN view, NEW new, view' = new,
         DOMAIN new = DOMAIN view, new.page = view.page
  PROVE  PageStays
BY DEF PageStays

LEMMA SetViewStays ==
  ASSUME "page" \in DOMAIN view, NEW t, NEW new, SetView(t, new),
         "page" \in DOMAIN new, new.page = view.page
  PROVE  PageStays
BY DEF PageStays, SetView

(* The SQL console.                                                         *)
LEMMA SqlSteps ==
  ASSUME TypesInv, SqlNext
  PROVE  QuietStep /\ UNCHANGED settings
<1> USE DEF session, lock
<1>1. "page" \in DOMAIN view
  BY DEF TypesInv, PageOK
<1>2. CASE Run
  <2>1. PageStep /\ UNCHANGED <<lock, settings>>
    BY <1>1, <1>2 DEF Run, PageStep, PageStays
  <2> DEFINE list == Statements(view.text)
             new  == [NothingKept EXCEPT !.texts = [i \in DOMAIN list |-> list[i].text],
                                         !.source = view.text]
  <2>a. KeptOK("run", new)
    BY NothingIsKept DEF KeptOK, IsKept
  <2>b. BeginCall("run", RunNext(Captured, <<list[1].text>>), new)
    BY <1>2 DEF Run
  <2> HIDE DEF list, new
  <2>2. PICK text, kept : /\ BeginCall("run", RunNext(Captured, text), kept)
                          /\ KeptOK("run", kept)
    BY <2>a, <2>b
  <2>3. Asks("run", RunNext(Captured, text), kept)
    BY <2>2, CallsArePlain, PlainAsks, NoOpType DEF RunNext
  <2> QED  BY <2>1, <2>2, <2>3, BeginsQuietly, SameTasks, CapturedIsEnv DEF BeginCall, TypesInv
<1>3. CASE Explain
  <2>1. PageStep /\ UNCHANGED <<lock, settings>>
    BY <1>1, <1>3 DEF Explain, PageStep, PageStays
  <2>2. Asks("explain", ProcedureCall(Captured, "@Explain", NoOp), NothingKept)
    BY CallsArePlain, PlainAsks, NoOpType, NothingIsKept DEF KeptOK
  <2> QED  BY <1>3, <2>1, <2>2, BeginsQuietly, SameTasks, CapturedIsEnv
           DEF Explain, BeginCall, TypesInv
<1>4. ASSUME NEW text, Edit(text)
      PROVE  QuietStep /\ UNCHANGED settings
  <2>1. PageStep /\ UNCHANGED <<lock, settings, tasks>>
    BY <1>1, <1>4 DEF Edit, PageStep, PageStays
  <2> QED  BY <2>1, StaysQuietly
<1>5. ASSUME NEW t \in tasks, EndStatement(t)
      PROVE  QuietStep /\ UNCHANGED settings
  <2>1. PageStep /\ UNCHANGED <<lock, settings>>
    BY <1>1, <1>5 DEF EndStatement, PageStep, PageStays, SetView
  <2>2. t.fn = "run" /\ IsKept(t.kept)
    BY <1>5 DEF EndStatement, Resumes, TypesInv, TasksOK, TaskOK, KeptOK
  <2>3. CASE Ends(t)
    BY <2>1, <2>2, <2>3, EndsQuietly
  <2>4. CASE ~Ends(t)
    <3> DEFINE left == Tail(t.kept.texts)
               new  == [t.kept EXCEPT !.texts = left,
                                      !.points = Append(t.kept.points, IF t.ans.ok THEN 1 ELSE 0)]
    <3>a. IsKept(new)
      BY <2>2 DEF IsKept
    <3>b. Sends(t, "sent", RunNext(t.env, left), new)
      BY <1>5, <2>4 DEF EndStatement
    <3> HIDE DEF left, new
    <3>1. PICK text, kept : Sends(t, "sent", RunNext(t.env, text), kept) /\ IsKept(kept)
      BY <3>a, <3>b
    <3>2. Asks("run", RunNext(t.env, text), kept)
      BY <3>1, CallsArePlain, PlainAsks, NoOpType DEF RunNext, KeptOK
    <3> QED  BY <2>1, <2>2, <3>1, <3>2, SendsQuietly
  <2> QED  BY <2>3, <2>4
<1>6. ASSUME NEW t \in tasks, EndExplain(t)
      PROVE  QuietStep /\ UNCHANGED settings
  <2>1. PageStep /\ UNCHANGED <<lock, settings>>
    BY <1>1, <1>6 DEF EndExplain, PageStep, PageStays, SetView
  <2> QED  BY <1>6, <2>1, EndsQuietly DEF EndExplain, Resumes
<1> QED  BY <1>2, <1>3, <1>4, <1>5, <1>6 DEF SqlNext

(* The decay story.                                                         *)
LEMMA ScriptIsOps ==
  ASSUME NEW step \in StepIds
  PROVE  Script(step) \in Seq(OpType) \ {<<>>}
<1>1. NoOp \in OpType /\ Delete \in OpType
  BY DEF NoOp, Delete, OpType
<1>2. \A d \in Nat : \A n \in {SeedAmount, TailAmount} : Insert(d, n) \in OpType
  BY DEF Insert, OpType, SeedAmount, TailAmount
<1>3. Read(WatchWindow) \in OpType
  BY StoryAssumption DEF Read, OpType
<1>4. Sweep \in Seq(OpType) \ {<<>>}
  <2>1. Sweep \in [1 .. Readings -> OpType] /\ Readings \in Nat \ {0}
    BY <1>1, StoryAssumption DEF Sweep
  <2> QED  BY <2>1
<1>5. [i \in DOMAIN SeedDays |-> Insert(SeedDays[i], SeedAmount)] \in Seq(OpType) \ {<<>>}
  <2>1. /\ Len(SeedDays) \in Nat \ {0} /\ DOMAIN SeedDays = 1 .. Len(SeedDays)
        /\ \A i \in DOMAIN SeedDays : SeedDays[i] \in Nat
    BY StoryAssumption, LenProperties, ElementOfSeq, EmptySeq
  <2>2. [i \in DOMAIN SeedDays |-> Insert(SeedDays[i], SeedAmount)]
          \in [1 .. Len(SeedDays) -> OpType]
    BY <1>2, <2>1
  <2> QED  BY <2>1, <2>2
<1>6. <<Insert(TailDay, TailAmount)>> \o Sweep \in Seq(OpType) \ {<<>>}
  <2>1. <<Insert(TailDay, TailAmount)>> \in Seq(OpType)
    BY <1>2, StoryAssumption
  <2>2. /\ <<Insert(TailDay, TailAmount)>> \o Sweep \in Seq(OpType)
        /\ Len(<<Insert(TailDay, TailAmount)>> \o Sweep) = 1 + Len(Sweep)
    BY <1>4, <2>1, ConcatProperties
  <2>3. Len(Sweep) \in Nat
    BY <1>4, LenProperties
  <2> QED  BY <2>2, <2>3
<1>7. <<NoOp, Delete, NoOp>> \in Seq(OpType) \ {<<>>} /\ <<NoOp>> \in Seq(OpType) \ {<<>>}
      /\ <<NoOp, NoOp>> \in Seq(OpType) \ {<<>>}
  BY <1>1
<1>8. <<Read(WatchWindow)>> \in Seq(OpType) \ {<<>>}
  BY <1>3
<1> HIDE DEF Sweep
<1> QED  BY Zenon, <1>4, <1>5, <1>6, <1>7, <1>8 DEF Script, StepIds

LEMMA StoryCallsArePlain ==
  ASSUME NEW env, NEW step, NEW op \in OpType
  PROVE  Plain(CallRequest(env, step, op))
<1>1. CASE step = "reset" \/ op.do \in Changing
  <2> DEFINE word == IF op.do = "insert" THEN "insert" ELSE "delete"
  <2>1. PICK e : CallRequest(env, step, op) = StatementRun(e, <<word>>, op)
    BY <1>1 DEF CallRequest, Changing
  <2>2. op.do \in Changing => word = op.do
    BY DEF Changing
  <2> HIDE DEF word
  <2> QED  BY <2>1, <2>2 DEF Plain, StatementRun, Request, Via, ChangeOK
<1>2. CASE ~ (step = "reset" \/ op.do \in Changing)
  BY <1>2, CallsArePlain DEF CallRequest, Changing
<1> QED  BY <1>1, <1>2

LEMMA WatchingIsRead == Read(WatchWindow) \in OpType /\ Read(WatchWindow).do \notin Changing
BY StoryAssumption DEF Read, OpType, Changing

LEMMA FinishesQuietly ==
  ASSUME TypesInv, UNCHANGED <<serverVars, session, mount>>,
         NEW t \in tasks, t.fn = "story",
         NEW new, DOMAIN new = DOMAIN view, new.page = view.page, Finish(t, new)
  PROVE  QuietStep
<1>1. "page" \in DOMAIN view
  BY DEF TypesInv, PageOK
<1>2. PageStays
  BY <1>1 DEF Finish, SetView, PageStays
<1> QED  BY <1>2, EndsQuietly DEF Finish, PageStep, session, lock

LEMMA ProceedsQuietly ==
  ASSUME TypesInv, UNCHANGED <<serverVars, session, mount>>,
         NEW t \in tasks, t.fn = "story",
         NEW new, DOMAIN new = DOMAIN view, new.page = view.page, Proceed(t, new)
  PROVE  QuietStep
<1> DEFINE kept == [t.kept EXCEPT !.left = Tail(@)]
<1>1. IsKept(t.kept) /\ t.kept.left \in Seq(OpType) /\ t.kept.left # <<>>
  BY DEF TypesInv, TasksOK, TaskOK, KeptOK
<1>2. IsKept(kept) /\ kept.left \in Seq(OpType)
  <2>1. Tail(t.kept.left) \in Seq(OpType)
    BY <1>1, HeadTailProperties
  <2> QED  BY <1>1, <2>1 DEF IsKept
<1>3. CASE kept.left = <<>>
  BY <1>3, FinishesQuietly DEF Proceed
<1>4. CASE kept.left # <<>>
  <2>1. Sends(t, "sent", CallRequest(t.env, StepOf(t), kept.left[1]), kept) /\ UNCHANGED view
    BY <1>4 DEF Proceed
  <2>2. kept.left[1] \in OpType
    BY <1>2, <1>4, EmptySeq, LenProperties, ElementOfSeq
  <2>3. Asks("story", CallRequest(t.env, StepOf(t), kept.left[1]), kept)
    <3>1. KeptOK("story", kept)
      BY <1>2, <1>4 DEF KeptOK
    <3> HIDE DEF kept
    <3> QED  BY <2>2, <3>1, StoryCallsArePlain, PlainAsks
  <2>4. PageStep /\ UNCHANGED lock
    BY <2>1 DEF PageStep, PageStays, session, lock, TypesInv, PageOK
  <2> HIDE DEF kept
  <2> QED  BY <2>1, <2>3, <2>4, SendsQuietly
<1> QED  BY <1>3, <1>4

LEMMA StorySteps ==
  ASSUME TypesInv, StoryNext
  PROVE  (QuietStep \/ LockStep) /\ UNCHANGED settings
<1> USE DEF session, Unchanged
<1>0. "page" \in DOMAIN view
  BY DEF TypesInv, PageOK
<1>1. CASE StoryUnlock
  <2>1. CASE BeginUnlock
    <3>1. PageStep /\ UNCHANGED <<lock, settings>>
      BY <1>0, <2>1 DEF BeginUnlock, PageStep, PageStays
    <3>2. Asks("unlock", UnlockRequest, NothingKept)
      BY NoOpType, NothingIsKept DEF Asks, RequestOK, ChangeOK, KeptOK, UnlockRequest, Request
    <3> QED  BY <2>1, <3>1, <3>2, BeginsQuietly, SameTasks, CapturedIsEnv
             DEF BeginUnlock, Begin, TypesInv
  <2>2. CASE MockUnlock(view)
    BY <1>0, <2>2 DEF MockUnlock, LockStep, PageStep, PageStays
  <2> QED  BY <1>1, <2>1, <2>2 DEF StoryUnlock
<1>2. ASSUME NEW step \in Steps, Execute(step)
      PROVE  QuietStep /\ UNCHANGED settings
  <2> DEFINE op == Head(Script(step))
             n  == IF \A t \in tasks : t.fn \notin {"story", "gone"} THEN 1 ELSE 0
             kept == [NothingKept EXCEPT !.texts = <<step>>, !.left = Script(step), !.number = n]
  <2>1. PageStep /\ UNCHANGED <<lock, settings>>
    BY <1>0, <1>2 DEF Execute, PageStep, PageStays
  <2>2. Script(step) \in Seq(OpType) /\ Script(step) # <<>> /\ op \in OpType
    BY ScriptIsOps, HeadTailProperties, StoryAssumption
  <2>3. KeptOK("story", kept)
    BY <2>2, NothingIsKept DEF KeptOK, IsKept
  <2>4. BeginCall("story", CallRequest(Captured, step, op), kept)
    BY <1>2 DEF Execute
  <2>5. BeginAmong(tasks, "story", "sent", Captured, CallRequest(Captured, step, op), kept)
    BY <2>4 DEF BeginCall
  <2> HIDE DEF op, kept, n
  <2>6. Asks("story", CallRequest(Captured, step, op), kept)
    BY <2>2, <2>3, StoryCallsArePlain, PlainAsks
  <2> QED  BY <2>1, <2>5, <2>6, BeginsQuietly, SameTasks, CapturedIsEnv DEF TypesInv
<1>3. ASSUME NEW t \in tasks, EndStatements(t)
      PROVE  QuietStep /\ UNCHANGED settings
  <2> DEFINE new == IF StepOf(t) = "reset" THEN [view EXCEPT !.jump = None] ELSE view
  <2>1. t.fn = "story" /\ UNCHANGED <<serverVars, session, mount>>
    BY <1>3 DEF EndStatements, InStory, Resumes
  <2>2. DOMAIN new = DOMAIN view /\ new.page = view.page
    BY <1>0
  <2>3. Proceed(t, new) \/ Finish(t, new)
    BY <1>3 DEF EndStatements
  <2> HIDE DEF new
  <2> QED  BY <2>1, <2>2, <2>3, ProceedsQuietly, FinishesQuietly
<1>4. ASSUME NEW t \in tasks, EndReading(t)
      PROVE  QuietStep /\ UNCHANGED settings
  <2>1. t.fn = "story" /\ UNCHANGED <<serverVars, session, mount>>
    BY <1>4 DEF EndReading, InStory, Resumes
  <2>2. Proceed(t, view) \/ Finish(t, view)
    BY <1>4 DEF EndReading
  <2> QED  BY <2>1, <2>2, ProceedsQuietly, FinishesQuietly
<1>5. ASSUME NEW t \in tasks, EndBefore(t)
      PROVE  QuietStep /\ UNCHANGED settings
  <2> DEFINE kept == [t.kept EXCEPT !.points = <<WarmSumOf(t.ans), t.ans.trace>>]
  <2>1. t.fn = "story" /\ KeptOK("story", t.kept)
    BY <1>5 DEF EndBefore, InStory, Resumes, TypesInv, TasksOK, TaskOK
  <2>2. KeptOK("story", kept)
    BY <2>1 DEF KeptOK, IsKept
  <2>3. PageStep /\ UNCHANGED <<lock, settings>>
    BY <1>0, <1>5 DEF EndBefore, PageStep, PageStays, SetView
  <2>4. \/ Sends(t, "produce", ProduceRequest(t.env), kept)
        \/ Sends(t, "after", AfterRequest(t), kept)
    BY <1>5 DEF EndBefore
  <2>5. Plain(ProduceRequest(t.env)) /\ Plain(AfterRequest(t))
    BY WatchingIsRead, CallsArePlain, NoOpType
    DEF Plain, ProduceRequest, AfterRequest, Request, ChangeOK
  <2> HIDE DEF kept
  <2> QED  BY <2>1, <2>2, <2>3, <2>4, <2>5, PlainAsks, SendsQuietly
<1>6. ASSUME NEW t \in tasks, EndProduce(t)
      PROVE  QuietStep /\ UNCHANGED settings
  <2>1. t.fn = "story" /\ KeptOK("story", t.kept)
    BY <1>6 DEF EndProduce, InStory, Resumes, TypesInv, TasksOK, TaskOK
  <2>2. UNCHANGED <<serverVars, session, mount>>
    BY <1>6 DEF EndProduce
  <2>3. CASE Finish(t, view)
    BY <2>1, <2>2, <2>3, FinishesQuietly
  <2>4. CASE Sends(t, "after", AfterRequest(t), t.kept) /\ UNCHANGED view
    <3>1. Plain(AfterRequest(t))
      BY WatchingIsRead, CallsArePlain DEF AfterRequest
    <3>2. PageStep /\ UNCHANGED lock
      BY <1>0, <2>2, <2>4 DEF PageStep, PageStays
    <3> QED  BY <2>1, <2>2, <2>4, <3>1, <3>2, PlainAsks, SendsQuietly
  <2> QED  BY <1>6, <2>3, <2>4 DEF EndProduce
<1>7. ASSUME NEW t \in tasks, EndAfter(t)
      PROVE  QuietStep /\ UNCHANGED settings
  <2> DEFINE new == [view EXCEPT !.jump = [before |-> t.kept.points[1], after |-> WarmSumOf(t.ans),
                                           alone |-> t.kept.number = 1,
                                           grew |-> t.ans.trace - t.kept.points[2]]]
  <2>1. t.fn = "story" /\ UNCHANGED <<serverVars, session, mount>>
    BY <1>7 DEF EndAfter, InStory, Resumes
  <2>2. Finish(t, new)
    BY <1>7 DEF EndAfter
  <2>3. DOMAIN new = DOMAIN view /\ new.page = view.page
    BY <1>0
  <2> HIDE DEF new
  <2> QED  BY <2>1, <2>2, <2>3, FinishesQuietly
<1> QED  BY <1>1, <1>2, <1>3, <1>4, <1>5, <1>6, <1>7 DEF StoryNext

(* The demo control.                                                        *)
LEMMA TicksQuietly ==
  ASSUME TypesInv, UNCHANGED <<serverVars, session, mount>>, NEW O, Renumbered(tasks, O),
         NEW live, NEW v, DOMAIN v = DOMAIN view, v.page = view.page, Tick(O, live, v)
  PROVE  QuietStep
<1> USE DEF session
<1>1. "page" \in DOMAIN view
  BY DEF TypesInv, PageOK
<1>2. CASE live
  <2> DEFINE kept == [NothingKept EXCEPT !.number = 1]
  <2>1. BeginAmong(O, "tick", "sent", NoOptions, StatusRequest, kept) /\ view' = v
    BY <1>2 DEF Tick
  <2>2. KeptOK("tick", kept)
    BY NothingIsKept DEF KeptOK, IsKept
  <2>3. Plain(StatusRequest)
    BY NoOpType DEF Plain, ChangeOK, StatusRequest, Request
  <2>4. PageStep
    BY <1>1, <2>1 DEF PageStep, PageStays
  <2> HIDE DEF kept
  <2> QED  BY <2>1, <2>2, <2>3, <2>4, PlainAsks, CapturedIsEnv, BeginsQuietly
<1>3. CASE ~live
  <2>1. tasks' = O /\ view' = WithTimer(v)
    BY <1>3 DEF Tick
  <2>2. PageStep
    BY <1>1, <2>1 DEF PageStep, PageStays, WithTimer
  <2> QED  BY <2>1, <2>2, RenumbersQuietly
<1> QED  BY <1>2, <1>3

LEMMA ActsQuietly ==
  ASSUME TypesInv, NEW label, NEW dialog, Act(label, dialog)
  PROVE  QuietStep /\ UNCHANGED settings
<1> USE DEF session
<1>1. "page" \in DOMAIN view
  BY DEF TypesInv, PageOK
<1>2. PageStep /\ UNCHANGED <<lock, settings>>
  BY <1>1 DEF Act, PageStep, PageStays
<1>3. Plain(ControlRequest(label))
  BY NoOpType DEF Plain, ChangeOK, ControlRequest, Request
<1>4. KeptOK("act", NothingKept)
  BY NothingIsKept DEF KeptOK
<1>5. BeginAmong(tasks, "act", "sent", NoOptions, ControlRequest(label), NothingKept)
  BY DEF Act, Begin
<1> QED  BY <1>2, <1>3, <1>4, <1>5, PlainAsks, CapturedIsEnv, SameTasks, BeginsQuietly DEF TypesInv

LEMMA UnlocksQuietly ==
  ASSUME TypesInv, BeginUnlock
  PROVE  QuietStep /\ UNCHANGED settings
<1>1. PageStep /\ UNCHANGED <<lock, settings>>
  BY DEF BeginUnlock, PageStep, PageStays, session, TypesInv, PageOK
<1>2. Asks("unlock", UnlockRequest, NothingKept)
  BY NoOpType, NothingIsKept DEF Asks, RequestOK, ChangeOK, KeptOK, UnlockRequest, Request
<1> QED  BY <1>1, <1>2, BeginsQuietly, SameTasks, CapturedIsEnv
         DEF BeginUnlock, Begin, TypesInv

LEMMA ShowsQuietly ==
  ASSUME TypesInv, NEW dialog, ShowDialog(dialog)
  PROVE  QuietStep /\ UNCHANGED settings
<1>1. PageStep /\ UNCHANGED <<lock, settings, tasks>>
  BY DEF ShowDialog, Quiet, PageStep, PageStays, session, TypesInv, PageOK
<1> QED  BY <1>1, StaysQuietly

LEMMA ControlSteps ==
  ASSUME TypesInv, ControlNext
  PROVE  QuietStep /\ UNCHANGED settings
<1> USE DEF session
<1>0. "page" \in DOMAIN view
  BY DEF TypesInv, PageOK
<1>1. CASE RunEffect
  <2> DEFINE v == [Cleared(view) EXCEPT !.deps = Deps]
  <2>1. DOMAIN v = DOMAIN view /\ v.page = view.page
    BY <1>0 DEF Cleared
  <2>2. Tick(Stopped(tasks), Live, v) /\ UNCHANGED <<serverVars, session, mount>>
    BY <1>1 DEF RunEffect
  <2> HIDE DEF v
  <2> QED  BY <2>1, <2>2, TicksQuietly, StoppedIsRenumbered DEF TypesInv
<1>2. CASE TimerFires
  <2> DEFINE v == [view EXCEPT !.pending = FALSE]
             w == [view EXCEPT !.strays = @ - 1]
  <2>1. /\ DOMAIN v = DOMAIN view /\ v.page = view.page
        /\ DOMAIN w = DOMAIN view /\ w.page = view.page
    BY <1>0
  <2>2. /\ Tick(tasks, view.deps.live, v) \/ Tick(tasks, view.deps.live, w)
        /\ UNCHANGED <<serverVars, session, mount>>
    BY <1>2 DEF TimerFires
  <2> HIDE DEF v, w
  <2> QED  BY <2>1, <2>2, TicksQuietly, SameTasks DEF TypesInv
<1>3. CASE ControlPressed
  BY <1>3, ActsQuietly, UnlocksQuietly, ShowsQuietly DEF ControlPressed
<1>4. ASSUME NEW t \in tasks, EndTick(t)
      PROVE  QuietStep /\ UNCHANGED settings
  <2>1. PageStep /\ UNCHANGED <<lock, settings>>
    BY <1>0, <1>4 DEF EndTick, PageStep, PageStays, SetView, WithTimer, Refreshed
  <2> QED  BY <1>4, <2>1, EndsQuietly DEF EndTick, Resumes
<1>5. ASSUME NEW t \in tasks, EndAct(t)
      PROVE  QuietStep /\ UNCHANGED settings
  <2>1. PageStep /\ UNCHANGED <<lock, settings>>
    BY <1>0, <1>5 DEF EndAct, PageStep, PageStays, SetView
  <2>2. t.fn = "act" /\ KeptOK("act", t.kept) /\ Sends(t, "refresh", StatusRequest, t.kept)
    BY <1>5 DEF EndAct, Resumes, TypesInv, TasksOK, TaskOK
  <2>3. Plain(StatusRequest)
    BY NoOpType DEF Plain, ChangeOK, StatusRequest, Request
  <2> QED  BY <2>1, <2>2, <2>3, PlainAsks, SendsQuietly
<1>6. ASSUME NEW t \in tasks, EndRefresh(t)
      PROVE  QuietStep /\ UNCHANGED settings
  <2>1. PageStep /\ UNCHANGED <<lock, settings>>
    BY <1>0, <1>6 DEF EndRefresh, PageStep, PageStays, SetView, Refreshed
  <2> QED  BY <1>6, <2>1, EndsQuietly DEF EndRefresh, Resumes
<1> QED  BY <1>1, <1>2, <1>3, <1>4, <1>5, <1>6 DEF ControlNext

(* Explorer, Procedures and Runbook.                                        *)
LEMMA CallsQuietly ==
  ASSUME TypesInv, UNCHANGED <<serverVars, session, mount>>, PageStays,
         NEW O, Renumbered(tasks, O), NEW fn, fn \notin {"unlock", "lock", "save"},
         NEW req, Plain(req), NEW kept, KeptOK(fn, kept),
         BeginAmong(O, fn, "sent", Captured, req, kept)
  PROVE  QuietStep
BY PlainAsks, CapturedIsEnv, BeginsQuietly DEF PageStep, session

LEMMA CapturesQuietly ==
  ASSUME TypesInv, NEW kind, NEW busy, Capture(kind, busy)
  PROVE  QuietStep /\ UNCHANGED settings
<1> DEFINE n == IF busy THEN 1 ELSE 0
           kept == [NothingKept EXCEPT !.texts = <<kind, view.subject>>, !.number = n]
           req == ProcedureCall(Captured, "GetRollingFeatures", NoOp)
<1>1. UNCHANGED <<serverVars, session, mount, settings>> /\ PageStays
  BY DEF Capture, PageStays, TypesInv, PageOK, session
<1>2. BeginAmong(tasks, "capture", "sent", Captured, req, kept)
  BY DEF Capture, BeginCall
<1>3. KeptOK("capture", kept)
  BY NothingIsKept DEF KeptOK, IsKept
<1>4. Plain(req)
  BY NoOpType, CallsArePlain
<1> HIDE DEF kept, req, n
<1> QED  BY <1>1, <1>2, <1>3, <1>4, SameTasks, CallsQuietly DEF TypesInv

LEMMA ResetsQuietly ==
  ASSUME TypesInv, Quiet, NEW new, view' = new, DOMAIN new = DOMAIN view, new.page = view.page
  PROVE  QuietStep /\ UNCHANGED settings
<1>1. PageStep /\ UNCHANGED <<lock, settings, tasks>>
  BY DEF Quiet, PageStep, PageStays, session, TypesInv, PageOK
<1> QED  BY <1>1, StaysQuietly

LEMMA ChoosesQuietly ==
  ASSUME TypesInv, NEW new, NEW cleared, DOMAIN cleared = DOMAIN view, cleared.page = view.page,
         Choose(new, cleared), Leaves(new) \/ UNCHANGED tasks
  PROVE  QuietStep /\ UNCHANGED settings
<1>1. PageStep /\ UNCHANGED <<lock, settings>>
  BY DEF Choose, PageStep, PageStays, session, TypesInv, PageOK
<1>2. CASE UNCHANGED tasks
  BY <1>1, <1>2, StaysQuietly
<1>3. CASE tasks' = Detached(tasks)
  BY <1>1, <1>3, DetachedIsRenumbered, RenumbersQuietly DEF TypesInv
<1> QED  BY <1>2, <1>3 DEF Leaves

LEMMA StartsQuietly ==
  ASSUME TypesInv, NEW fn \in {"execute", "plan"}, NEW req, Plain(req),
         NEW kept, KeptOK(fn, kept), Starts(fn, req, kept)
  PROVE  QuietStep /\ UNCHANGED settings
<1>1. UNCHANGED <<serverVars, session, mount, settings>> /\ PageStays
  BY DEF Starts, PageStays, TypesInv, PageOK, session
<1>2. BeginAmong(tasks, fn, "sent", Captured, req, kept)
  BY DEF Starts, BeginCall
<1> QED  BY <1>1, <1>2, SameTasks, CallsQuietly DEF TypesInv

LEMMA CallsSteps ==
  ASSUME TypesInv, CallsNext
  PROVE  QuietStep /\ UNCHANGED settings
<1> USE DEF session
<1>0. "page" \in DOMAIN view
  BY DEF TypesInv, PageOK
<1>1. CASE RunCall
  <2> DEFINE kept == [NothingKept EXCEPT !.texts = <<view.subject, settings.dataMode>>,
                                         !.number = 1]
             req == ProcedureCall(Captured, FeaturesOf(view.subject), NoOp)
  <2>1. UNCHANGED <<serverVars, session, mount, settings>> /\ PageStays
    BY <1>0, <1>1 DEF RunCall, PageStays
  <2>2. BeginAmong(Cancelled(tasks), "useCall", "sent", Captured, req, kept)
    BY <1>1 DEF RunCall
  <2>3. KeptOK("useCall", kept)
    BY NothingIsKept DEF KeptOK, IsKept
  <2>4. Plain(req)
    BY NoOpType, CallsArePlain
  <2> HIDE DEF kept, req
  <2> QED  BY <2>1, <2>2, <2>3, <2>4, CancelledIsRenumbered, CallsQuietly DEF TypesInv
<1>2. CASE Captures
  <2> DEFINE new == [view EXCEPT !.baseline = None, !.follow = None]
  <2>1. \/ \E kind \in {"baseline", "follow"}, busy \in BOOLEAN : Capture(kind, busy)
        \/ view' = new /\ Quiet
    BY <1>2 DEF Captures
  <2>2. DOMAIN new = DOMAIN view /\ new.page = view.page
    BY <1>0
  <2> HIDE DEF new
  <2> QED  BY <2>1, <2>2, CapturesQuietly, ResetsQuietly
<1>3. ASSUME NEW subject, ChooseSubject(subject)
      PROVE  QuietStep /\ UNCHANGED settings
  <2> DEFINE new == [view EXCEPT !.baseline = None, !.follow = None,
                                 !.capturing = @ /\ subject \in Customers]
  <2>1. Choose(subject, new) /\ Leaves(subject)
    BY <1>3 DEF ChooseSubject
  <2>2. DOMAIN new = DOMAIN view /\ new.page = view.page
    BY <1>0
  <2> HIDE DEF new
  <2> QED  BY <2>1, <2>2, ChoosesQuietly
<1>4. ASSUME NEW step, ChooseStep(step)
      PROVE  QuietStep /\ UNCHANGED settings
  <2> DEFINE new == [view EXCEPT !.response = None, !.capturing = FALSE]
  <2>1. Choose(step, new) /\ Leaves(step)
    BY <1>4 DEF ChooseStep
  <2>2. DOMAIN new = DOMAIN view /\ new.page = view.page
    BY <1>0
  <2> HIDE DEF new
  <2> QED  BY <2>1, <2>2, ChoosesQuietly
<1>5. ASSUME NEW procedure, ChooseProcedure(procedure)
      PROVE  QuietStep /\ UNCHANGED settings
  <2> DEFINE new == [view EXCEPT !.response = None, !.plan = None]
  <2>1. Choose(procedure, new) /\ UNCHANGED tasks
    BY <1>5 DEF ChooseProcedure
  <2>2. DOMAIN new = DOMAIN view /\ new.page = view.page
    BY <1>0
  <2> HIDE DEF new
  <2> QED  BY <2>1, <2>2, ChoosesQuietly
<1>6. CASE ExecuteProcedure \/ RunStep
  <2> DEFINE kept == [NothingKept EXCEPT !.texts = <<view.subject>>]
  <2>1. \E req : Starts("execute", req, kept) /\ Plain(req)
    BY <1>6, NoOpType, CallsArePlain DEF ExecuteProcedure, RunStep
  <2>2. KeptOK("execute", kept)
    BY NothingIsKept DEF KeptOK, IsKept
  <2> HIDE DEF kept
  <2> QED  BY <2>1, <2>2, StartsQuietly
<1>7. CASE ExplainProcedure
  <2>1. Starts("plan", ProcedureCall(Captured, "@Explain", NoOp), NothingKept)
    BY <1>7 DEF ExplainProcedure
  <2>2. KeptOK("plan", NothingKept)
    BY NothingIsKept DEF KeptOK
  <2> QED  BY <2>1, <2>2, NoOpType, CallsArePlain, StartsQuietly
<1>8. ASSUME NEW t \in tasks, EndCall(t) \/ EndCapture(t) \/ EndRun(t) \/ EndPlan(t)
      PROVE  QuietStep /\ UNCHANGED settings
  <2>1. UNCHANGED <<serverVars, lock, settings, mount>>
    BY <1>8 DEF EndCall, EndCapture, EndRun, EndPlan
  <2>2. PageStays
    <3>1. CASE EndCall(t)
      BY <1>0, <3>1 DEF EndCall, PageStays, SetView
    <3>2. CASE EndCapture(t)
      <4> DEFINE done == [view EXCEPT !.capturing = @ /\ t.kept.number = 0]
      <4>1. DOMAIN done = DOMAIN view /\ done.page = view.page
        BY <1>0
      <4>2. \/ view' = view
            \/ \E b : view' = [done EXCEPT !.baseline = b, !.follow = None]
            \/ \E b : view' = [done EXCEPT !.follow = b]
        BY <3>2 DEF EndCapture, SetView
      <4> HIDE DEF done
      <4> QED  BY <1>0, <4>1, <4>2 DEF PageStays
    <3>3. CASE EndRun(t)
      BY <1>0, <3>3 DEF EndRun, PageStays, SetView
    <3>4. CASE EndPlan(t)
      BY <1>0, <3>4 DEF EndPlan, PageStays, SetView
    <3> QED  BY <1>8, <3>1, <3>2, <3>3, <3>4
  <2>3. Ends(t) /\ t.fn \notin {"unlock", "gone"}
    BY <1>8 DEF EndCall, EndCapture, EndRun, EndPlan, Resumes
  <2> QED  BY <2>1, <2>2, <2>3, EndsQuietly DEF PageStep
<1> QED  BY <1>1, <1>2, <1>3, <1>4, <1>5, <1>6, <1>7, <1>8 DEF CallsNext

(* The Settings page, and the banner.  Of the settings a step keeps the     *)
(* address, or takes one that the server has accepted, the empty one or the *)
(* default, or is in mock mode.                                             *)
SettingsMove ==
  /\ settings' \in Drafts
  /\ settings'.voltApiUrl # settings.voltApiUrl /\ settings'.dataMode = "live"
       => settings'.voltApiUrl \in accepted \cup {DefaultUrl, NoUrl}

LEMMA SettingsStay ==
  ASSUME TypesInv, UNCHANGED settings
  PROVE  SettingsMove
BY DEF SettingsMove, TypesInv, SessionOK

LEMMA SaveSteps ==
  ASSUME TypesInv, NEW draft \in Drafts, Save(draft)
  PROVE  QuietStep /\ SettingsMove
<1>0. "page" \in DOMAIN view
  BY DEF TypesInv, PageOK
<1>1. CASE NeedsServer(draft)
  <2> DEFINE kept == [NothingKept EXCEPT !.choice = draft]
             req  == ConnectionRequest(draft.voltApiUrl)
  <2>1. BeginAmong(tasks, "save", "sent", NoOptions, req, kept)
    BY <1>1 DEF Save, Begin
  <2>2. view' = [view EXCEPT !.saving = TRUE] /\ UNCHANGED <<settings, serverVars, lock, mount>>
    BY <1>1 DEF Save
  <2>3. PageStep
    BY <1>0, <2>2 DEF PageStep, PageStays
  <2>4. KeptOK("save", kept) /\ kept.choice = draft
    BY NothingIsKept DEF KeptOK, IsKept
  <2>5. RequestOK("save", req, kept, issued)
    BY <2>4, NoOpType DEF RequestOK, ChangeOK, ConnectionRequest, Request
  <2> HIDE DEF kept, req
  <2>6. QuietStep
    BY <2>1, <2>2, <2>3, <2>4, <2>5, CapturedIsEnv, SameTasks, BeginsQuietly DEF Asks, TypesInv
  <2> QED  BY <2>2, <2>6, SettingsStay
<1>2. CASE ~NeedsServer(draft)
  <2>1. settings' = draft /\ UNCHANGED <<tasks, view, serverVars, lock, mount>>
    BY <1>2 DEF Save
  <2>2. PageStep
    BY <1>0, <2>1 DEF PageStep, PageStays
  <2>3. SettingsMove
    BY <1>2, <2>1 DEF NeedsServer, SettingsMove
  <2> QED  BY <2>1, <2>2, <2>3, StaysQuietly
<1> QED  BY <1>1, <1>2

LEMMA EndSaveSteps ==
  ASSUME TypesInv, NEW t \in tasks, EndSave(t)
  PROVE  QuietStep /\ SettingsMove
<1>1. PageStep /\ UNCHANGED lock
  BY DEF EndSave, SetView, PageStep, PageStays, TypesInv, PageOK
<1>2. t.fn = "save" /\ t.ans # None /\ Ends(t)
  BY DEF EndSave, Resumes
<1>3. TaskOK(t, issued, DOMAIN tokens, accepted)
  BY DEF TypesInv, TasksOK
<1>4. /\ t.kept.choice \in Drafts /\ t.req.path = "connection"
      /\ t.req.text = <<t.kept.choice.voltApiUrl>>
  BY <1>2, <1>3 DEF TaskOK, RequestOK, KeptOK
<1>5. t.ans.ok => Head(t.req.text) \in accepted \cup {NoUrl}
  BY <1>2, <1>3, <1>4 DEF TaskOK, AnswerOK
<1>6. Head(t.req.text) = t.kept.choice.voltApiUrl
  BY <1>4
<1>7. settings' = IF t.ans.ok THEN t.kept.choice ELSE settings
  BY DEF EndSave
<1>8. settings \in Drafts
  BY DEF TypesInv, SessionOK
<1>9. SettingsMove
  BY <1>4, <1>5, <1>6, <1>7, <1>8 DEF SettingsMove
<1> QED  BY <1>1, <1>2, <1>9, EndsQuietly

LEMMA ChangeSteps ==
  ASSUME TypesInv, ChangeSettings
  PROVE  QuietStep /\ SettingsMove
<1>0. "page" \in DOMAIN view
  BY DEF TypesInv, PageOK
<1>1. CASE ResetSettings
  <2>1. PageStep /\ UNCHANGED <<lock, tasks>>
    BY <1>0, <1>1 DEF ResetSettings, PageStep, PageStays
  <2>2. SettingsMove
    BY <1>1, ServerAssumption, SessionAssumption
    DEF ResetSettings, DefaultSettings, SettingsMove, Drafts, TypesInv, ServerOK
  <2> QED  BY <2>1, <2>2, StaysQuietly
<1>2. CASE SwitchToLive
  <2>1. PageStep /\ UNCHANGED <<lock, tasks>>
    BY <1>0, <1>2 DEF SwitchToLive, PageStep, PageStays
  <2>2. SettingsMove
    BY <1>2 DEF SwitchToLive, SettingsMove, Drafts, DataModes, TypesInv, SessionOK
  <2> QED  BY <2>1, <2>2, StaysQuietly
<1>3. CASE TestConnection
  <2>1. PageStep /\ UNCHANGED <<lock, settings>>
    BY <1>0, <1>3 DEF TestConnection, PageStep, PageStays, session
  <2>2. BeginAmong(tasks, "test", "sent", NoOptions, TestRequest, NothingKept)
    BY <1>3 DEF TestConnection, Begin
  <2>3. Plain(TestRequest) /\ KeptOK("test", NothingKept)
    BY NoOpType, NothingIsKept DEF Plain, ChangeOK, TestRequest, Request, KeptOK
  <2> QED  BY <2>1, <2>2, <2>3, SettingsStay, PlainAsks, CapturedIsEnv, SameTasks, BeginsQuietly
           DEF TypesInv
<1>4. ASSUME NEW draft \in Drafts, Save(draft)
      PROVE  QuietStep /\ SettingsMove
  BY <1>4, SaveSteps
<1> QED  BY <1>1, <1>2, <1>3, <1>4 DEF ChangeSettings

LEMMA SettingsSteps ==
  ASSUME TypesInv, SettingsNext,
         ~ \E t \in tasks : EndLock(t)
  PROVE  (QuietStep \/ LockStep) /\ SettingsMove
<1> USE DEF session
<1>0. "page" \in DOMAIN view
  BY DEF TypesInv, PageOK
<1>1. CASE AskUnlock \/ CancelUnlock
  BY <1>1, ShowsQuietly, SettingsStay DEF AskUnlock, CancelUnlock
<1>2. CASE ConfirmUnlock
  <2> DEFINE new == [view EXCEPT !.dialog = "closed"]
  <2>1. DOMAIN new = DOMAIN view /\ new.page = view.page
    BY <1>0
  <2>2. BeginUnlock \/ MockUnlock(new)
    BY <1>2 DEF ConfirmUnlock
  <2> HIDE DEF new
  <2>3. CASE BeginUnlock
    BY <2>3, UnlocksQuietly, SettingsStay
  <2>4. CASE MockUnlock(new)
    <3>1. LockStep /\ UNCHANGED settings
      BY <1>0, <2>1, <2>4 DEF MockUnlock, LockStep, PageStep, PageStays
    <3> QED  BY <3>1, SettingsStay
  <2> QED  BY <2>2, <2>3, <2>4
<1>3. CASE Lock
  <2>1. PageStep /\ UNCHANGED <<lock, settings>>
    BY <1>0, <1>3 DEF Lock, PageStep, PageStays
  <2>2. BeginAmong(tasks, "lock", "sent", NoOptions, LockRequest, NothingKept)
    BY <1>3 DEF Lock, Begin
  <2>3. KeptOK("lock", NothingKept)
    BY NothingIsKept DEF KeptOK
  <2>4. RequestOK("lock", LockRequest, NothingKept, issued)
    BY NoOpType DEF RequestOK, ChangeOK, LockRequest, Request, TypesInv, SessionOK
  <2> QED  BY <2>1, <2>2, <2>3, <2>4, SettingsStay, CapturedIsEnv, SameTasks, BeginsQuietly
           DEF Asks, TypesInv
<1>4. CASE MockLock
  <2>1. LockStep /\ UNCHANGED settings
    BY <1>0, <1>4 DEF MockLock, LockStep, PageStep, PageStays
  <2> QED  BY <2>1, SettingsStay
<1>5. ASSUME NEW t \in tasks, EndSave(t)
      PROVE  QuietStep /\ SettingsMove
  BY <1>5, EndSaveSteps
<1>6. ASSUME NEW t \in tasks, EndTest(t)
      PROVE  QuietStep /\ SettingsMove
  <2>1. PageStep /\ UNCHANGED <<lock, settings>>
    BY <1>0, <1>6 DEF EndTest, SetView, PageStep, PageStays
  <2> QED  BY <1>6, <2>1, EndsQuietly, SettingsStay DEF EndTest, Resumes
<1> QED  BY <1>1, <1>2, <1>3, <1>4, <1>5, <1>6 DEF SettingsNext

----------------------------------------------------------------------------
(* The steps of the server *)

(* It answers one task and leaves the others alone.                         *)
Answered(t, a) ==
  /\ TasksOK' /\ a \in AnswerType
  /\ \A v \in tasks \ {t} : v \in tasks'
  /\ \E u \in tasks' : u.id = t.id /\ u.req = t.req /\ u.ans = a
  /\ \A u \in tasks' : u \in tasks \ {t} \/ (u.id = t.id /\ u.req = t.req /\ u.ans = a)

LEMMA ReplyAnswers ==
  ASSUME TypesInv, ServerGrows, NEW t \in tasks, t.ans = None, NEW a,
         AnswerOK(t.req, a, issued', DOMAIN tokens', accepted'), Reply(t, a)
  PROVE  Answered(t, a)
<1> DEFINE u == [t EXCEPT !.ans = a]
<1>0. issued \in Nat
  BY DEF TypesInv, ServerOK
<1>1. \A v \in tasks : TaskOK(v, issued', DOMAIN tokens', accepted')
  BY <1>0, TaskStays DEF TypesInv, TasksOK
<1>2. /\ IsTask(u) /\ u.id = t.id /\ u.fn = t.fn /\ u.env = t.env
      /\ u.req = t.req /\ u.pass = t.pass /\ u.kept = t.kept /\ u.ans = a
  BY <1>1 DEF TaskOK, IsTask
<1>3. tasks' = (tasks \ {t}) \cup {u}
  BY DEF Reply
<1> HIDE DEF u
<1>4. TaskOK(u, issued', DOMAIN tokens', accepted')
  BY <1>1, <1>2 DEF TaskOK, PassOK
<1>5. IsFiniteSet(tasks') /\ Cardinality(tasks') <= MaxTasks /\ UniqueIds(tasks')
  BY <1>2, <1>3, ReplacedTasks DEF TypesInv
<1>6. TasksOK'
  BY <1>1, <1>3, <1>4, <1>5 DEF TasksOK
<1> QED  BY <1>2, <1>3, <1>6 DEF Answered, AnswerOK

LEMMA LostIsOK ==
  ASSUME NEW req, NEW answer, NEW iss, NEW held, NEW acc, AnswerOK(req, answer, iss, held, acc)
  PROVE  /\ AnswerOK(req, Lost(answer), iss, held, acc)
         /\ Lost(answer).done = answer.done /\ Lost(answer).trace = answer.trace
<1>1. answer \in AnswerType
  BY DEF AnswerOK
<1>2. /\ Lost(answer) \in AnswerType /\ Lost(answer).ok = FALSE
      /\ Lost(answer).done = answer.done /\ Lost(answer).trace = answer.trace
  BY <1>1 DEF AnswerType, Lost
<1> HIDE DEF Lost
<1> QED  BY <1>2 DEF AnswerOK

LEMMA RespondAnswers ==
  ASSUME TypesInv, ServerGrows, NEW t \in tasks, t.ans = None, NEW answer,
         AnswerOK(t.req, answer, issued', DOMAIN tokens', accepted'),
         Respond(t, answer) \/ Reply(t, answer) \/ Reply(t, Lost(answer))
  PROVE  \E a : Answered(t, a) /\ a.done = answer.done /\ a.trace = answer.trace
<1>1. Reply(t, answer) \/ Reply(t, Lost(answer))
  BY DEF Respond
<1> QED  BY <1>1, ReplyAnswers, LostIsOK

LEMMA AnswersAreTyped ==
  /\ \A value \in Int \cup {None} : Answer(value) \in AnswerType /\ Answer(value).done = FALSE
  /\ Refusal \in AnswerType /\ Refusal.ok = FALSE /\ Refusal.done = FALSE
<1>1. \A value \in Int \cup {None} : Answer(value) \in AnswerType /\ Answer(value).done = FALSE
  BY DEF Answer, AnswerType
<1>2. Refusal \in AnswerType /\ Refusal.ok = FALSE /\ Refusal.done = FALSE
  <2>1. PICK x \in AnswerType : x = Answer(None) /\ x.done = FALSE
    BY <1>1
  <2>2. Refusal = [x EXCEPT !.ok = FALSE]
    BY <2>1 DEF Refusal
  <2> QED  BY <2>1, <2>2 DEF AnswerType
<1> QED  BY <1>1, <1>2

LEMMA RefusalIsOK ==
  ASSUME NEW req, NEW iss, NEW held, NEW acc
  PROVE  AnswerOK(req, Refusal, iss, held, acc) /\ Refusal.done = FALSE
<1>1. Refusal \in AnswerType /\ ~Refusal.ok /\ ~Refusal.done /\ Refusal.done = FALSE
  BY AnswersAreTyped
<1> QED  BY <1>1 DEF AnswerOK

LEMMA RefusalAnswers ==
  ASSUME TypesInv, ServerGrows, NEW t \in tasks, t.ans = None, Respond(t, Refusal)
  PROVE  \E a : Answered(t, a) /\ a.done = FALSE
<1>1. AnswerOK(t.req, Refusal, issued', DOMAIN tokens', accepted') /\ Refusal.done = FALSE
  BY RefusalIsOK
<1>2. \E a : Answered(t, a) /\ a.done = Refusal.done /\ a.trace = Refusal.trace
  BY <1>1, RespondAnswers
<1> QED  BY <1>1, <1>2

(* Of a request that is none of the three that the session follows, any     *)
(* answer will do.                                                          *)
LEMMA PlainAnswerIsOK ==
  ASSUME NEW req, req.path \notin {"unlock", "lock", "connection"}, NEW a \in AnswerType,
         NEW iss, NEW held, NEW acc
  PROVE  AnswerOK(req, a, iss, held, acc)
BY DEF AnswerOK

AnswersStay == \A t \in tasks : t.ans # None => \E u \in tasks' : u.req = t.req /\ u.ans = t.ans
LiveKnown   ==
  \A k \in DOMAIN tokens' : tokens'[k] = "live" =>
    \/ k \in DOMAIN tokens /\ tokens[k] = "live"
    \/ \E u \in tasks' : u.req.path = "unlock" /\ u.ans # None /\ u.ans.done /\ u.ans.trace = k

(* What is changed, and by which of the tasks.                              *)
Changes ==
  \/ daily' # daily /\ stream' = stream
  \/ stream' > stream
  \/ job' /\ ~job
ChangesAllowed ==
  Changes => \E t \in tasks, u \in tasks' :
               t.id = u.id /\ t.ans = None /\ u.ans # None /\ CameThrough(t)

(* What a step of the server leaves behind.                                 *)
ServerStep ==
  /\ ServerOK' /\ DatabaseOK' /\ TasksOK' /\ ServerGrows
  /\ AnswersStay /\ LiveKnown /\ ChangesAllowed

LEMMA NothingChanges ==
  ASSUME DatabaseOK, daily' = daily, stream' = stream, ~job' \/ job
  PROVE  ChangesAllowed
BY DEF ChangesAllowed, Changes, DatabaseOK

LEMMA AnsweredStep ==
  ASSUME TypesInv, NEW t \in tasks, t.ans = None, NEW a, Answered(t, a),
         ~Changes \/ CameThrough(t)
  PROVE  TasksOK' /\ AnswersStay /\ ChangesAllowed
<1>1. AnswersStay
  BY DEF Answered, AnswersStay
<1>2. PICK u \in tasks' : u.id = t.id /\ u.ans = a
  BY DEF Answered
<1>3. a # None
  BY ServerAssumption DEF Answered
<1>4. ChangesAllowed
  BY <1>2, <1>3 DEF ChangesAllowed
<1> QED  BY <1>1, <1>4 DEF Answered

(* A token the server honours is one in force.                              *)
LEMMA ValidIsInForce ==
  ASSUME ServerOK, NEW token, Valid(token)
  PROVE  InForce(token)
BY DEF ServerOK, Valid, InForce

(* A step that issues no token.                                             *)
LEMMA NoTokenStep ==
  ASSUME ServerOK, issued' = issued, accepted' \in {accepted} \cup {accepted \cup {u} : u \in AllowedUrls},
         tokens' = tokens \/ \E token : tokens' = Without(token)
  PROVE  /\ ServerGrows /\ LiveKnown
         /\ tokens' = [k \in DOMAIN tokens' |-> tokens'[k]]
         /\ DOMAIN tokens' \subseteq DOMAIN tokens
         /\ \A k \in DOMAIN tokens' : tokens'[k] = tokens[k]
<1>1. \A token : /\ DOMAIN Without(token) = DOMAIN tokens \ {token}
                 /\ \A k \in DOMAIN tokens \ {token} : Without(token)[k] = tokens[k]
                 /\ Without(token) = [k \in DOMAIN Without(token) |-> Without(token)[k]]
  BY DEF Without, Restrict
<1>2. /\ tokens' = [k \in DOMAIN tokens' |-> tokens'[k]]
      /\ DOMAIN tokens' \subseteq DOMAIN tokens
      /\ \A k \in DOMAIN tokens' : tokens'[k] = tokens[k]
  <2>1. CASE tokens' = tokens
    BY <2>1 DEF ServerOK
  <2>2. ASSUME NEW token, tokens' = Without(token)
        PROVE  /\ tokens' = [k \in DOMAIN tokens' |-> tokens'[k]]
               /\ DOMAIN tokens' \subseteq DOMAIN tokens
               /\ \A k \in DOMAIN tokens' : tokens'[k] = tokens[k]
    BY <1>1, <2>2
  <2> QED  BY <2>1, <2>2
<1>3. ServerGrows
  BY <1>2 DEF ServerGrows, ServerOK
<1>4. LiveKnown
  BY <1>2 DEF LiveKnown
<1> QED  BY <1>2, <1>3, <1>4

(* The database.                                                            *)
LEMMA InsertDayType ==
  ASSUME DatabaseOK, NEW day \in Nat, NEW amount \in Nat, InsertDay(day, amount)
  PROVE  /\ daily' \in [DOMAIN daily' -> Nat] /\ DOMAIN daily' \subseteq Nat
         /\ IsFiniteSet(DOMAIN daily')
<1>1. DOMAIN daily' = DOMAIN daily \cup {day}
  BY DEF InsertDay
<1>2. IsFiniteSet(DOMAIN daily \cup {day})
  BY FS_AddElement DEF DatabaseOK
<1>3. \A d \in DOMAIN daily : daily[d] \in Nat
  BY DEF DatabaseOK
<1>4. daily' \in [DOMAIN daily \cup {day} -> Nat]
  BY <1>3 DEF InsertDay
<1> QED  BY <1>1, <1>2, <1>4 DEF DatabaseOK

LEMMA PerformType ==
  ASSUME DatabaseOK, NEW op \in OpType, Perform(op)
  PROVE  /\ daily' \in [DOMAIN daily' -> Nat] /\ DOMAIN daily' \subseteq Nat
         /\ IsFiniteSet(DOMAIN daily')
<1>1. CASE InsertDay(op.day, op.amount)
  <2>1. op.day \in Nat /\ op.amount \in Nat
    BY DEF OpType
  <2> QED  BY <1>1, <2>1, InsertDayType
<1>2. CASE daily' = <<>>
  <2>1. DOMAIN daily' = {} /\ daily' \in [{} -> Nat]
    BY <1>2
  <2> QED  BY <2>1, FS_EmptySet
<1>3. CASE UNCHANGED daily
  BY <1>3 DEF DatabaseOK
<1> QED  BY <1>1, <1>2, <1>3 DEF Perform

LEMMA WarmSumType ==
  ASSUME DatabaseOK, NEW window \in Nat
  PROVE  WarmSum(window) \in Int \cup {None}
<1> DEFINE days == {d \in DOMAIN daily : d < window}
<1>1. IsFiniteSet(days)
  BY FS_Subset DEF DatabaseOK
<1>2. \A d \in days : daily[d] \in Nat
  BY DEF DatabaseOK
<1>3. SumFunctionOnSet(daily, days) \in Nat
  <2> HIDE DEF days
  <2> QED  BY <1>1, <1>2, SumInNat
<1> QED  BY <1>3 DEF WarmSum

(* callVolt answers, and changes rows for a statement that says so.         *)
LEMMA CallVoltStep ==
  ASSUME TypesInv, ServerGrows, NEW t \in tasks, t.ans = None,
         t.req.path \notin {"unlock", "lock", "connection"}, CallVolt(t)
  PROVE  /\ DatabaseOK' /\ UNCHANGED stream
         /\ daily' = daily \/ t.req.op.do \in Changing
         /\ \E a : Answered(t, a)
<1> DEFINE op     == t.req.op
           answer == IF op.do = "read" THEN [Answer(WarmSum(op.day)) EXCEPT !.trace = recorded]
                     ELSE [Answer(None) EXCEPT !.ok = Succeeds(op)]
<1>1. op \in OpType /\ op.day \in Nat
  BY DEF TypesInv, TasksOK, TaskOK, RequestOK, OpType
<1>2. recorded \in Int /\ WarmSum(op.day) \in Int \cup {None}
  BY <1>1, WarmSumType DEF TypesInv, DatabaseOK
<1>3. Succeeds(op) \in BOOLEAN
  BY DEF Succeeds
<1>4. answer \in AnswerType
  <2>1. CASE op.do = "read"
    <3>1. answer = [Answer(WarmSum(op.day)) EXCEPT !.trace = recorded]
      BY <2>1
    <3>2. Answer(WarmSum(op.day)) \in AnswerType
      BY <1>2, AnswersAreTyped
    <3> HIDE DEF answer
    <3> QED  BY <1>2, <3>1, <3>2 DEF AnswerType
  <2>2. CASE op.do # "read"
    <3>1. answer = [Answer(None) EXCEPT !.ok = Succeeds(op)]
      BY <2>2
    <3>2. Answer(None) \in AnswerType
      BY AnswersAreTyped
    <3> HIDE DEF answer
    <3> QED  BY <1>3, <3>1, <3>2 DEF AnswerType
  <2> QED  BY <2>1, <2>2
<1>5. AnswerOK(t.req, answer, issued', DOMAIN tokens', accepted')
  <2> HIDE DEF answer
  <2> QED  BY <1>4, PlainAnswerIsOK
<1>6. Respond(t, answer) \/ Reply(t, Lost(answer))
  BY DEF CallVolt
<1>7. \E a : Answered(t, a)
  <2> HIDE DEF answer
  <2> QED  BY <1>5, <1>6, RespondAnswers
<1>8. (Perform(op) \/ UNCHANGED daily) /\ UNCHANGED <<stream, recorded>>
  BY DEF CallVolt
<1>9. daily' = daily \/ t.req.op.do \in Changing
  BY <1>8 DEF Perform, Changing
<1>10. DatabaseOK'
  <2>1. DatabaseOK
    BY DEF TypesInv
  <2> HIDE DEF op
  <2>2. CASE Perform(op)
    BY <1>1, <1>8, <2>1, <2>2, PerformType DEF DatabaseOK
  <2>3. CASE UNCHANGED daily
    BY <1>8, <2>1, <2>3 DEF DatabaseOK
  <2> QED  BY <1>8, <2>2, <2>3
<1> QED  BY <1>7, <1>8, <1>9, <1>10

(* What the policy denies to a locked session it allows only to an unlocked *)
(* one; so it is with the statements of the story.                          *)
LEMMA PolicyWants ==
  ASSUME NEW word \in Changing, NEW unlocked \in BOOLEAN
  PROVE  EvaluateCall(CallOf(<<word>>), unlocked).allowed => unlocked
<1>1. ~EvaluateCall(CallOf(<<word>>), FALSE).allowed
  BY StoryTextsAssumption DEF Changing
<1> QED  BY <1>1

LEMMA CheckedTokens ==
  ASSUME NEW token, Checked(token)
  PROVE  tokens' = tokens \/ \E k : tokens' = Without(k)
BY DEF Checked

LEMMA ValidIsBoolean ==
  ASSUME NEW token
  PROVE  Valid(token) \in BOOLEAN
BY DEF Valid

(* The server stays as it should be when it issues no token and nothing is  *)
(* dead that still lives.                                                   *)
LEMMA ServerKept ==
  ASSUME ServerOK, UNCHANGED issued, UNCHANGED dead,
         tokens' = tokens \/ \E token : tokens' = Without(token),
         accepted' \in {accepted} \cup {accepted \cup {u} : u \in AllowedUrls},
         upstream' \in accepted' \cup {EnvUrl}, job' \in BOOLEAN
  PROVE  ServerOK' /\ ServerGrows /\ LiveKnown
<1>1. /\ ServerGrows /\ LiveKnown
      /\ tokens' = [k \in DOMAIN tokens' |-> tokens'[k]]
      /\ DOMAIN tokens' \subseteq DOMAIN tokens
      /\ \A k \in DOMAIN tokens' : tokens'[k] = tokens[k]
  BY NoTokenStep
<1> QED  BY <1>1 DEF ServerOK

(* A request is let through before the await: with the unlock, when it needs *)
(* one.                                                                     *)
LEMMA LetThroughStep ==
  ASSUME TypesInv, ServerGrows, NEW t \in tasks, t.ans = None, LetThrough(t),
         NeedsUnlock(t.req) => InForce(t.req.token)
  PROVE  TasksOK' /\ AnswersStay
<1> DEFINE pass == IF InForce(t.req.token) THEN "unlocked" ELSE "locked"
           u    == [t EXCEPT !.pass = pass]
<1>0. issued \in Nat
  BY DEF TypesInv, ServerOK
<1>1. \A v \in tasks : TaskOK(v, issued', DOMAIN tokens', accepted')
  BY <1>0, TaskStays DEF TypesInv, TasksOK
<1>2. pass \in {"locked", "unlocked"} /\ (NeedsUnlock(t.req) => pass = "unlocked")
  OBVIOUS
<1>3. tasks' = (tasks \ {t}) \cup {u}
  BY DEF LetThrough
<1> HIDE DEF pass
<1>4. /\ IsTask(u) /\ u.id = t.id /\ u.fn = t.fn /\ u.env = t.env
      /\ u.req = t.req /\ u.kept = t.kept /\ u.ans = t.ans /\ u.pass = pass
  BY <1>1 DEF TaskOK, IsTask
<1> HIDE DEF u
<1>5. TaskOK(u, issued', DOMAIN tokens', accepted')
  BY <1>1, <1>2, <1>4 DEF TaskOK, PassOK
<1>6. IsFiniteSet(tasks') /\ Cardinality(tasks') <= MaxTasks /\ UniqueIds(tasks')
  BY <1>3, <1>4, ReplacedTasks DEF TypesInv
<1>7. TasksOK'
  BY <1>1, <1>3, <1>5, <1>6 DEF TasksOK
<1>8. AnswersStay
  BY <1>3 DEF AnswersStay
<1> QED  BY <1>7, <1>8

LEMMA AdmitStep ==
  ASSUME TypesInv, NEW t \in tasks, t.ans = None, NEW allowed, Admit(t, allowed),
         allowed /\ NeedsUnlock(t.req) => Valid(t.req.token)
  PROVE  ServerStep
<1>1. ServerOK /\ DatabaseOK
  BY DEF TypesInv
<1>2. Checked(t.req.token) /\ UNCHANGED <<issued, upstream, accepted, dead, job, database>>
  BY DEF Admit
<1>3. ServerOK' /\ ServerGrows /\ LiveKnown
  BY <1>1, <1>2, CheckedTokens, ServerKept DEF ServerOK
<1>4. DatabaseOK' /\ ChangesAllowed /\ ~Changes
  BY <1>1, <1>2, NothingChanges DEF database, DatabaseOK, Changes
<1>5. CASE allowed
  <2>1. LetThrough(t)
    BY <1>5 DEF Admit
  <2>2. NeedsUnlock(t.req) => InForce(t.req.token)
    BY <1>1, <1>5, ValidIsInForce
  <2> QED  BY <1>3, <1>4, <2>1, <2>2, LetThroughStep DEF ServerStep
<1>6. CASE ~allowed
  <2>1. Respond(t, Refusal)
    BY <1>6 DEF Admit
  <2>2. \E a : Answered(t, a)
    BY <1>3, <2>1, RefusalAnswers
  <2> QED  BY <1>3, <1>4, <2>2, AnsweredStep DEF ServerStep
<1> QED  BY <1>5, <1>6

(* What is refused or not looked at changes nothing.                        *)
LEMMA RefusedStep ==
  ASSUME TypesInv, NEW t \in tasks, t.ans = None, UNCHANGED serverVars,
         NEW a, AnswerOK(t.req, a, issued, DOMAIN tokens, accepted),
         Respond(t, a) \/ Reply(t, a)
  PROVE  ServerStep
<1>1. ServerOK /\ DatabaseOK
  BY DEF TypesInv
<1>2. ServerOK' /\ ServerGrows /\ LiveKnown
  BY <1>1, ServerKept DEF serverVars, ServerOK
<1>3. DatabaseOK' /\ ~Changes
  BY <1>1 DEF serverVars, database, DatabaseOK, Changes
<1>4. AnswerOK(t.req, a, issued', DOMAIN tokens', accepted')
  BY DEF serverVars
<1>5. \E b : Answered(t, b)
  BY <1>2, <1>4, RespondAnswers
<1> QED  BY <1>2, <1>3, <1>5, AnsweredStep DEF ServerStep

LEMMA CallRoutes ==
  ASSUME TypesInv, NEW t \in tasks, t.ans = None, ServeCall(t) \/ ServeSql(t)
  PROVE  ServerStep
<1>1. ChangeOK(t.req) /\ t.req.path \in {"call", "sql"}
  BY DEF TypesInv, TasksOK, TaskOK, RequestOK, ServeCall, ServeSql
<1>2. CASE ServeCall(t)
  <2>1. t.req.path = "call" /\ Evaluated(t, CallOf(t.req.text))
    BY <1>2 DEF ServeCall
  <2>2. ~NeedsUnlock(t.req)
    BY <1>1, <2>1 DEF NeedsUnlock, ChangeOK
  <2> QED  BY <2>1, <2>2, AdmitStep DEF Evaluated
<1>3. CASE ServeSql(t)
  <2> DEFINE parts == SplitStatements(t.req.text)
             one   == EvaluateCall(CallOf(parts[1]), Valid(t.req.token)).allowed
  <2>1. \/ Admit(t, one)
        \/ Respond(t, Refusal) /\ UNCHANGED serverVars
    BY <1>3 DEF ServeSql, Evaluated
  <2>2. ASSUME one, NeedsUnlock(t.req)  PROVE Valid(t.req.token)
    <3>1. t.req.op.do \in Changing /\ t.req.text = <<t.req.op.do>>
      BY <1>1, <2>2 DEF NeedsUnlock, ChangeOK
    <3>2. parts[1] = <<t.req.op.do>>
      BY <3>1, StoryTextsAssumption DEF Changing
    <3>3. EvaluateCall(CallOf(<<t.req.op.do>>), Valid(t.req.token)).allowed
      BY <2>2, <3>2
    <3> QED  BY <3>1, <3>3, PolicyWants, ValidIsBoolean
  <2> HIDE DEF one
  <2>3. CASE Admit(t, one)
    BY <2>2, <2>3, AdmitStep
  <2>4. CASE Respond(t, Refusal) /\ UNCHANGED serverVars
    BY <2>4, RefusedStep, RefusalIsOK
  <2> QED  BY <2>1, <2>3, <2>4
<1> QED  BY <1>2, <1>3

(* Of the routes of the demo control only the one that starts the reset     *)
(* changes something at once.                                               *)
LEMMA ControlRoute ==
  ASSUME TypesInv, NEW t \in tasks, t.ans = None, t.pass = "no", ServeControl(t)
  PROVE  ServerStep
<1>1. ServerOK /\ DatabaseOK /\ t.req.path = "control"
  BY DEF TypesInv, ServeControl
<1>2. CASE Admit(t, Valid(t.req.token))
  BY <1>2, AdmitStep
<1>3. CASE StartReset(t)
  <2>1. /\ Checked(t.req.token)
        /\ UNCHANGED <<issued, upstream, accepted, dead, database>>
        /\ job' \in {job, TRUE} /\ (job' # job => Valid(t.req.token))
        /\ Respond(t, Refusal) \/ Respond(t, Answer(None))
    BY <1>3 DEF StartReset
  <2>2. ServerOK' /\ ServerGrows /\ LiveKnown
    BY <1>1, <2>1, CheckedTokens, ServerKept DEF ServerOK
  <2>3. DatabaseOK'
    BY <1>1, <2>1 DEF database, DatabaseOK
  <2>4. ~Changes \/ CameThrough(t)
    <3>1. CASE job' = job
      BY <1>1, <2>1, <3>1 DEF Changes, database, DatabaseOK
    <3>2. CASE job' # job
      BY <1>1, <2>1, <3>2, ValidIsInForce DEF CameThrough
    <3> QED  BY <3>1, <3>2
  <2>5. AnswerOK(t.req, Answer(None), issued', DOMAIN tokens', accepted')
    BY <1>1, AnswersAreTyped, PlainAnswerIsOK
  <2>6. \E a : Answered(t, a)
    BY <2>1, <2>2, <2>5, RefusalIsOK, RespondAnswers
  <2> QED  BY <2>2, <2>3, <2>4, <2>6, AnsweredStep DEF ServerStep
<1> QED  BY <1>2, <1>3 DEF ServeControl

(* After the await: what is changed now was let through with the unlock.    *)
LEMMA CarryOutStep ==
  ASSUME TypesInv, NEW t \in tasks, t.ans = None, t.pass # "no", CarryOut(t)
  PROVE  ServerStep
<1>1. ServerOK /\ DatabaseOK
  BY DEF TypesInv
<1>2. UNCHANGED <<tokens, issued, upstream, accepted, dead, job>>
  BY DEF CarryOut
<1>3. ServerOK' /\ ServerGrows /\ LiveKnown
  BY <1>1, <1>2, ServerKept DEF ServerOK
<1>4. NeedsUnlock(t.req) => CameThrough(t)
  BY DEF TypesInv, TasksOK, TaskOK, PassOK, CameThrough
<1>5. CASE t.req.path \in {"call", "sql"} /\ CallVolt(t)
  <2>1. /\ DatabaseOK' /\ UNCHANGED stream
        /\ daily' = daily \/ t.req.op.do \in Changing
        /\ \E a : Answered(t, a)
    BY <1>3, <1>5, CallVoltStep
  <2>2. ~Changes \/ CameThrough(t)
    BY <1>1, <1>2, <1>4, <2>1 DEF Changes, NeedsUnlock, DatabaseOK
  <2> QED  BY <1>3, <2>1, <2>2, AnsweredStep DEF ServerStep
<1>6. CASE t.req.path = "produce" /\ ProduceEvents(t) /\ UNCHANGED <<daily, recorded>>
  <2>1. Respond(t, Answer(None)) \/ Reply(t, Lost(Answer(None)))
    BY <1>6 DEF ProduceEvents
  <2>2. AnswerOK(t.req, Answer(None), issued', DOMAIN tokens', accepted')
    BY <1>6, AnswersAreTyped, PlainAnswerIsOK
  <2>3. \E a : Answered(t, a)
    BY <1>3, <2>1, <2>2, RespondAnswers
  <2>4. DatabaseOK'
    BY <1>1, <1>6, ServerAssumption DEF ProduceEvents, DatabaseOK
  <2>5. CameThrough(t)
    BY <1>4, <1>6 DEF NeedsUnlock
  <2> QED  BY <1>3, <2>3, <2>4, <2>5, AnsweredStep DEF ServerStep
<1>7. CASE t.req.path = "control" /\ ServeClient(t) /\ UNCHANGED database
  <2>1. AnswerOK(t.req, Answer(None), issued', DOMAIN tokens', accepted')
    BY <1>7, AnswersAreTyped, PlainAnswerIsOK
  <2>2. \E a : Answered(t, a)
    BY <1>3, <1>7, <2>1, RefusalIsOK, RespondAnswers DEF ServeClient
  <2>3. DatabaseOK' /\ ~Changes
    BY <1>1, <1>2, <1>7 DEF database, DatabaseOK, Changes
  <2> QED  BY <1>3, <2>2, <2>3, AnsweredStep DEF ServerStep
<1> QED  BY <1>5, <1>6, <1>7 DEF CarryOut

LEMMA ConnectionRoute ==
  ASSUME TypesInv, NEW t \in tasks, t.ans = None, ServeConnection(t)
  PROVE  ServerStep
<1> DEFINE url == Head(t.req.text)
<1>1. ServerOK /\ DatabaseOK
  BY DEF TypesInv
<1>2. t.req.path = "connection" /\ UNCHANGED <<tokens, issued, dead, job, database>>
  BY DEF ServeConnection
<1>3. DatabaseOK' /\ ~Changes
  BY <1>1, <1>2 DEF database, DatabaseOK, Changes
<1>4. CASE url # NoUrl /\ url \in AllowedUrls
  <2>1. /\ upstream' = url /\ accepted' = accepted \cup {url}
        /\ Respond(t, Answer(None))
    BY <1>4 DEF ServeConnection, ValidateVoltUrl
  <2>2. ServerOK' /\ ServerGrows /\ LiveKnown
    BY <1>1, <1>2, <1>4, <2>1, ServerKept DEF ServerOK
  <2>3. AnswerOK(t.req, Answer(None), issued', DOMAIN tokens', accepted')
    BY <1>2, <2>1, AnswersAreTyped DEF AnswerOK
  <2>4. \E a : Answered(t, a)
    BY <2>1, <2>2, <2>3, RespondAnswers
  <2> QED  BY <1>2, <1>3, <2>2, <2>4, AnsweredStep DEF ServerStep
<1>5. CASE url = NoUrl
  <2>1. Respond(t, Answer(None)) /\ UNCHANGED serverVars
    BY <1>2, <1>5 DEF ServeConnection, serverVars
  <2>2. AnswerOK(t.req, Answer(None), issued, DOMAIN tokens, accepted)
    BY <1>2, <1>5, AnswersAreTyped DEF AnswerOK
  <2> QED  BY <2>1, <2>2, RefusedStep
<1>6. CASE url # NoUrl /\ url \notin AllowedUrls
  <2>1. Respond(t, Refusal) /\ UNCHANGED serverVars
    BY <1>2, <1>6 DEF ServeConnection, ValidateVoltUrl, serverVars
  <2> QED  BY <2>1, RefusedStep, RefusalIsOK
<1> QED  BY <1>4, <1>5, <1>6

LEMMA LockRoutes ==
  ASSUME TypesInv, NEW t \in tasks, t.ans = None, ServeLock(t)
  PROVE  ServerStep
<1> DEFINE answer == [Answer(None) EXCEPT !.done = TRUE]
<1>1. ServerOK /\ DatabaseOK
  BY DEF TypesInv
<1>2. /\ t.req.path = "lock" /\ tokens' = Without(t.req.token)
      /\ dead' = dead \cup ({t.req.token} \cap 1 .. issued)
      /\ Respond(t, answer)
      /\ UNCHANGED <<issued, upstream, accepted, job, database>>
  BY DEF ServeLock, Revoke
<1>3. /\ ServerGrows /\ LiveKnown
      /\ tokens' = [k \in DOMAIN tokens' |-> tokens'[k]]
      /\ DOMAIN tokens' \subseteq DOMAIN tokens
      /\ \A k \in DOMAIN tokens' : tokens'[k] = tokens[k]
  BY <1>1, <1>2, NoTokenStep
<1>4. t.req.token \notin DOMAIN tokens'
  BY <1>2 DEF Without, Restrict
<1>5. ServerOK'
  BY <1>1, <1>2, <1>3, <1>4 DEF ServerOK
<1>6. DatabaseOK' /\ ~Changes
  BY <1>1, <1>2 DEF database, DatabaseOK, Changes
<1>7. AnswerOK(t.req, answer, issued', DOMAIN tokens', accepted')
  <2>1. PICK x \in AnswerType : x = Answer(None)
    BY AnswersAreTyped
  <2>2. answer = [x EXCEPT !.done = TRUE]
    BY <2>1
  <2> HIDE DEF answer
  <2>3. answer \in AnswerType
    BY <2>1, <2>2 DEF AnswerType
  <2> QED  BY <1>2, <1>4, <2>3 DEF AnswerOK
<1> HIDE DEF answer
<1>8. \E a : Answered(t, a)
  BY <1>2, <1>3, <1>7, RespondAnswers
<1> QED  BY <1>2, <1>3, <1>5, <1>6, <1>8, AnsweredStep DEF ServerStep

LEMMA OpenRoutes ==
  ASSUME TypesInv, NEW t \in tasks, t.ans = None, ServeTest(t) \/ ServeStatus(t)
  PROVE  ServerStep
<1>1. \A value \in Int \cup {None} :
        t.req.path \notin {"unlock", "lock", "connection"}
        => AnswerOK(t.req, Answer(value), issued, DOMAIN tokens, accepted)
  BY AnswersAreTyped, PlainAnswerIsOK
<1>2. CASE ServeTest(t)
  <2>1. t.req.path = "test" /\ UNCHANGED serverVars /\ Reply(t, Answer(None))
    BY <1>2 DEF ServeTest
  <2> QED  BY <1>1, <2>1, RefusedStep
<1>3. CASE ServeStatus(t)
  <2>1. t.req.path = "status" /\ UNCHANGED serverVars
    BY <1>3 DEF ServeStatus
  <2>2. PICK value \in Int \cup {None} : Respond(t, Answer(value))
    BY <1>3 DEF ServeStatus
  <2> QED  BY <1>1, <2>1, <2>2, RefusedStep
<1> QED  BY <1>2, <1>3

LEMMA UnlockAnswer ==
  ASSUME NEW k \in Int, NEW a, a = [Answer(k) EXCEPT !.done = TRUE, !.trace = k]
  PROVE  a \in AnswerType /\ a.done = TRUE /\ a.trace = k /\ a.value = k
<1>0. Answer(k).value = k
  BY DEF Answer
<1>1. PICK x \in AnswerType : x = Answer(k) /\ x.value = k
  BY <1>0, AnswersAreTyped
<1>2. a = [x EXCEPT !.done = TRUE, !.trace = k]
  BY <1>1
<1> QED  BY <1>1, <1>2 DEF AnswerType

(* A token is issued to the task that asked for it.                         *)
LEMMA UnlockRoute ==
  ASSUME TypesInv, NEW t \in tasks, t.ans = None, ServeUnlock(t)
  PROVE  ServerStep
<1> DEFINE k      == issued + 1
           answer == [Answer(k) EXCEPT !.done = TRUE, !.trace = k]
<1>1. ServerOK /\ DatabaseOK
  BY DEF TypesInv
<1>2. /\ t.req.path = "unlock" /\ issued < MaxTokens /\ issued' = k
      /\ tokens' = [j \in DOMAIN tokens \cup {k} |-> IF j = k THEN "live" ELSE tokens[j]]
      /\ Respond(t, answer)
      /\ UNCHANGED <<upstream, accepted, dead, job, database>>
  BY DEF ServeUnlock
<1>a. k \in Int
  BY <1>1 DEF ServerOK
<1>b. answer = [Answer(k) EXCEPT !.done = TRUE, !.trace = k]
  OBVIOUS
<1> HIDE DEF answer, k
<1>3. answer \in AnswerType /\ answer.done = TRUE /\ answer.trace = k /\ answer.value = k
  BY <1>a, <1>b, UnlockAnswer
<1> USE DEF k
<1>4. ServerOK'
  <2>1. k \in 0 .. MaxTokens /\ k \notin dead
    BY <1>1, <1>2, ServerAssumption DEF ServerOK
  <2> QED  BY <1>1, <1>2, <2>1 DEF ServerOK
<1>5. DatabaseOK' /\ ~Changes
  BY <1>1, <1>2 DEF database, DatabaseOK, Changes
<1>6. ServerGrows
  BY <1>1, <1>2 DEF ServerGrows, ServerOK
<1>7. AnswerOK(t.req, answer, issued', DOMAIN tokens', accepted')
  BY <1>1, <1>2, <1>3 DEF AnswerOK, ServerOK
<1>8. PICK a : Answered(t, a) /\ a.done = answer.done /\ a.trace = answer.trace
  BY <1>2, <1>6, <1>7, RespondAnswers
<1>9. LiveKnown
  <2>1. PICK u \in tasks' : u.req = t.req /\ u.ans = a
    BY <1>8 DEF Answered
  <2>2. a.done /\ a.trace = k
    BY <1>3, <1>8
  <2>3. a # None
    BY <1>8, ServerAssumption DEF Answered
  <2> QED  BY <1>2, <2>1, <2>2, <2>3 DEF LiveKnown
<1> QED  BY <1>2, <1>4, <1>5, <1>6, <1>8, <1>9, AnsweredStep DEF ServerStep

LEMMA ServeStep ==
  ASSUME TypesInv, NEW t \in tasks, Serve(t)
  PROVE  ServerStep
<1>1. t.ans = None
  BY DEF Serve
<1>2. CASE t.pass = "no" /\ Unreachable(t)
  BY <1>1, <1>2, RefusedStep, RefusalIsOK DEF Unreachable
<1>3. CASE t.pass = "no" /\ (ServeCall(t) \/ ServeSql(t))
  BY <1>1, <1>3, CallRoutes
<1>4. CASE t.pass = "no" /\ (ServeTest(t) \/ ServeStatus(t))
  BY <1>1, <1>4, OpenRoutes
<1>5. CASE t.pass = "no" /\ ServeProduce(t)
  BY <1>1, <1>5, AdmitStep DEF ServeProduce
<1>6. CASE t.pass = "no" /\ ServeConnection(t)
  BY <1>1, <1>6, ConnectionRoute
<1>7. CASE t.pass = "no" /\ ServeControl(t)
  BY <1>1, <1>7, ControlRoute
<1>8. CASE t.pass = "no" /\ ServeUnlock(t)
  BY <1>1, <1>8, UnlockRoute
<1>9. CASE t.pass = "no" /\ ServeLock(t)
  BY <1>1, <1>9, LockRoutes
<1>10. CASE t.pass # "no" /\ CarryOut(t)
  BY <1>1, <1>10, CarryOutStep
<1> QED  BY <1>2, <1>3, <1>4, <1>5, <1>6, <1>7, <1>8, <1>9, <1>10 DEF Serve

(* The steps of the server that answer no one.                              *)
LEMMA UnansweredStep ==
  ASSUME TypesInv, ServerOK', DatabaseOK', ServerGrows, LiveKnown, ~Changes, UNCHANGED tasks
  PROVE  ServerStep
<1>1. issued \in Nat
  BY DEF TypesInv, ServerOK
<1>2. TasksOK'
  BY <1>1, TaskStays DEF TypesInv, TasksOK
<1>3. AnswersStay
  BY DEF AnswersStay
<1> QED  BY <1>2, <1>3 DEF ServerStep, ChangesAllowed

LEMMA ServerNextStep ==
  ASSUME TypesInv, ServerNext
  PROVE  ServerStep
<1>1. ServerOK /\ DatabaseOK
  BY DEF TypesInv
<1>2. ASSUME NEW t \in tasks, Serve(t)
      PROVE  ServerStep
  BY <1>2, ServeStep
<1>3. ASSUME NEW token \in DOMAIN tokens, Expire(token)
      PROVE  ServerStep
  <2>1. /\ tokens' = [tokens EXCEPT ![token] = "expired"] /\ dead' = dead \cup {token}
        /\ UNCHANGED <<issued, upstream, accepted, job, database, tasks>>
    BY <1>3 DEF Expire
  <2>2. /\ DOMAIN tokens' = DOMAIN tokens /\ tokens'[token] = "expired"
        /\ \A k \in DOMAIN tokens \ {token} : tokens'[k] = tokens[k]
        /\ tokens' = [k \in DOMAIN tokens' |-> tokens'[k]]
    BY <1>1, <2>1 DEF ServerOK
  <2>3. LiveKnown
    BY <2>2 DEF LiveKnown
  <2>4. ServerOK' /\ ServerGrows
    BY <1>1, <2>1, <2>2 DEF ServerOK, ServerGrows
  <2>5. DatabaseOK' /\ ~Changes
    BY <1>1, <2>1 DEF database, DatabaseOK, Changes
  <2> QED  BY <2>1, <2>3, <2>4, <2>5, UnansweredStep
<1>4. CASE RestartServer
  <2>1. /\ tokens' = <<>> /\ dead' = dead \cup DOMAIN tokens
        /\ upstream' = EnvUrl /\ job' = FALSE
        /\ UNCHANGED <<issued, accepted, database, tasks>>
    BY <1>4 DEF RestartServer
  <2>2. DOMAIN tokens' = {} /\ tokens' = [k \in DOMAIN tokens' |-> tokens'[k]]
    BY <2>1
  <2>a. ServerGrows /\ LiveKnown
    BY <1>1, <2>1, <2>2 DEF ServerOK, ServerGrows, LiveKnown
  <2>b. /\ dead' \subseteq 1 .. issued' /\ issued' \in 0 .. MaxTokens
        /\ accepted' \subseteq AllowedUrls /\ upstream' \in accepted' \cup {EnvUrl}
        /\ job' \in BOOLEAN
    BY <1>1, <2>1 DEF ServerOK
  <2>3. ServerOK' /\ ServerGrows /\ LiveKnown
    BY <2>2, <2>a, <2>b DEF ServerOK
  <2>4. DatabaseOK' /\ ~Changes
    BY <1>1, <2>1 DEF database, DatabaseOK, Changes
  <2> QED  BY <2>1, <2>3, <2>4, UnansweredStep
<1>5. CASE EndReset
  <2>1. job' = FALSE /\ UNCHANGED <<tokens, issued, upstream, accepted, dead, database, tasks>>
    BY <1>5 DEF EndReset
  <2>2. ServerOK' /\ ServerGrows /\ LiveKnown
    BY <1>1, <2>1, ServerKept DEF ServerOK
  <2>3. DatabaseOK' /\ ~Changes
    BY <1>1, <2>1 DEF database, DatabaseOK, Changes
  <2> QED  BY <2>1, <2>2, <2>3, UnansweredStep
<1>6. CASE RecordEvent
  <2>1. UNCHANGED <<tokens, issued, upstream, accepted, dead, job, tasks>>
    BY <1>6 DEF RecordEvent
  <2>2. ServerOK' /\ ServerGrows /\ LiveKnown
    BY <1>1, <2>1, ServerKept DEF ServerOK
  <2>3. PICK amount \in Nat : InsertDay(0, amount)
    BY <1>1, <1>6 DEF RecordEvent, DatabaseOK, EventAmount
  <2>4. stream' \in Nat /\ recorded' \in Nat /\ stream' + recorded' = stream + recorded
    BY <1>1, <1>6 DEF RecordEvent, DatabaseOK
  <2>a. ~Changes
    BY <1>1, <1>6, <2>1 DEF RecordEvent, Changes, DatabaseOK
  <2>5. DatabaseOK' /\ ~Changes
    BY <1>1, <2>3, <2>4, <2>a, InsertDayType DEF DatabaseOK
  <2> QED  BY <2>1, <2>2, <2>5, UnansweredStep
<1> QED  BY <1>2, <1>3, <1>4, <1>5, <1>6 DEF ServerNext

----------------------------------------------------------------------------
(* What every step of the browser has in common *)

Arrived == Tokens({t \in tasks : t.ans # None})

(* Where the tokens of the browser go: none is lost without a trace, unless *)
(* the server does not know it any more.                                    *)
TokensStay ==
  /\ orphans \subseteq orphans'
  /\ unlockToken \in DOMAIN tokens => unlockToken \in {unlockToken'} \cup orphans'
  /\ Arrived \subseteq {unlockToken'} \cup orphans' \cup Arrived'

BrowserStep ==
  /\ UNCHANGED serverVars
  /\ SessionOK' /\ TasksOK' /\ PageOK'
  /\ TokensStay /\ SettingsMove

LEMMA ArrivedTokens ==
  ASSUME TasksOK
  PROVE  /\ Arrived \subseteq 1 .. issued
         /\ \A token \in Arrived : \E t \in tasks :
              /\ t.req.path = "unlock" /\ t.ans # None /\ t.ans.done /\ t.ans.trace = token
              /\ t.fn \in {"unlock", "gone"}
         /\ \A t \in tasks : t.req.path = "unlock" /\ t.ans # None /\ t.ans.done
                               => t.ans.trace \in Arrived /\ t.ans.trace \in Tokens({t})
         /\ \A t \in tasks : t.ans # None => Tokens({t}) \subseteq 1 .. issued
<1>1. \A t \in tasks : TaskOK(t, issued, DOMAIN tokens, accepted)
  BY DEF TasksOK
<1>2. \A t \in tasks : t.ans # None /\ t.req.path = "unlock" /\ t.ans.done
                         => t.ans.trace \in 1 .. issued /\ t.fn \in {"unlock", "gone"}
  BY <1>1 DEF TaskOK, AnswerOK, RequestOK
<1> QED  BY <1>2 DEF Arrived, Tokens

(* An answer that has arrived stays, unless its task ends.                  *)
LEMMA TurnArrived ==
  ASSUME TasksOK, NEW ended, Turn(ended), NEW token \in Arrived
  PROVE  \/ token \in Arrived'
         \/ \E t \in ended : /\ t \in tasks /\ t.fn \in {"unlock", "gone"} /\ t.ans # None
                             /\ t.ans.trace = token /\ token \in Tokens({t})
                             /\ t.req.path = "unlock" /\ t.ans.done
<1>1. PICK t \in tasks : /\ t.req.path = "unlock" /\ t.ans # None /\ t.ans.done /\ t.ans.trace = token
                         /\ t.fn \in {"unlock", "gone"} /\ token \in Tokens({t})
  BY ArrivedTokens
<1>2. CASE t \notin ended
  <2>1. PICK u \in tasks' : Alike(t, u)
    BY <1>2 DEF Turn
  <2>2. u.req.path = "unlock" /\ u.ans # None /\ u.ans.done /\ u.ans.trace = token
    BY <1>1, <2>1 DEF Alike
  <2> QED  BY <2>2 DEF Arrived, Tokens
<1> QED  BY <1>1, <1>2

LEMMA EndArrived ==
  ASSUME TasksOK, NEW t \in tasks, Turn({t}), NEW token \in Arrived
  PROVE  \/ token \in Arrived'
         \/ t.fn \in {"unlock", "gone"} /\ token = t.ans.trace /\ token \in Tokens({t})
<1> DEFINE ended == {t}
<1>1. Turn(ended)
  OBVIOUS
<1> HIDE DEF ended
<1>2. \/ token \in Arrived'
      \/ \E v \in ended : /\ v \in tasks /\ v.fn \in {"unlock", "gone"} /\ v.ans # None
                          /\ v.ans.trace = token /\ token \in Tokens({v})
                          /\ v.req.path = "unlock" /\ v.ans.done
  BY <1>1, TurnArrived
<1>3. \A v \in ended : v = t
  BY DEF ended
<1> QED  BY <1>2, <1>3

LEMMA PageStepPages ==
  ASSUME TypesInv, PageStep
  PROVE  PageOK'
BY DEF TypesInv, PageOK, PageStep, PageStays

LEMMA QuietBrowser ==
  ASSUME TypesInv, QuietStep, SettingsMove
  PROVE  BrowserStep
<1>1. PICK ended \in SUBSET tasks : Turn(ended) /\ \A t \in ended : t.fn \notin {"unlock", "gone"}
  BY DEF QuietStep
<1>2. Arrived \subseteq Arrived'
  BY <1>1, TurnArrived DEF TypesInv
<1>3. UNCHANGED <<serverVars, readOnly, unlockToken, orphans>>
  BY DEF QuietStep, PageStep, lock
<1>4. SessionOK' /\ TokensStay
  BY <1>2, <1>3 DEF TypesInv, SessionOK, SettingsMove, TokensStay, serverVars
<1> QED  BY <1>1, <1>3, <1>4, PageStepPages DEF BrowserStep, QuietStep, Turn

LEMMA LockBrowser ==
  ASSUME TypesInv, LockStep
  PROVE  BrowserStep
<1>1. /\ UNCHANGED <<serverVars, settings, tasks>>
      /\ readOnly' \in BOOLEAN /\ unlockToken' = None
      /\ orphans' = orphans \cup ({unlockToken} \ {None})
  BY DEF LockStep, PageStep, UnlockWrites, LockWrites
<1>2. Turn({})
  BY <1>1, StayTurn DEF TypesInv
<1>3. Arrived' = Arrived
  BY <1>1 DEF Arrived, Tokens
<1>4. None \notin DOMAIN tokens
  BY ServerAssumption DEF TypesInv, ServerOK
<1>5. SessionOK' /\ TokensStay
  BY <1>1, <1>3, <1>4 DEF TypesInv, SessionOK, TokensStay, serverVars
<1> QED  BY <1>1, <1>2, <1>5, PageStepPages, SettingsStay DEF BrowserStep, LockStep, Turn

(* The end of a lock: what was revoked the server does not know any more.   *)
LEMMA EndLockBrowser ==
  ASSUME TypesInv, NEW t \in tasks, EndLock(t)
  PROVE  BrowserStep
<1>1. /\ t.fn = "lock" /\ t.ans # None /\ Ends(t)
      /\ UNCHANGED <<serverVars, settings, mount, view>>
  BY DEF EndLock, Resumes
<1>2. PICK r : LockWrites(r) /\ (r = None \/ (t.ans.done /\ r = t.req.token))
  BY DEF EndLock
<1>3. TaskOK(t, issued, DOMAIN tokens, accepted)
  BY DEF TypesInv, TasksOK
<1>4. r \notin DOMAIN tokens
  <2>1. None \notin DOMAIN tokens
    BY ServerAssumption DEF TypesInv, ServerOK
  <2>2. t.ans.done => t.req.token \notin DOMAIN tokens
    BY <1>1, <1>3 DEF TaskOK, RequestOK, AnswerOK
  <2> QED  BY <1>2, <2>1, <2>2
<1>5. /\ readOnly' = TRUE /\ unlockToken' = None
      /\ orphans' = orphans \cup ({unlockToken} \ {None, r})
  BY <1>2 DEF LockWrites
<1>6. Turn({t})
  BY <1>1, EndTurn DEF TypesInv
<1>7. Arrived \subseteq Arrived'
  <2> SUFFICES ASSUME NEW token \in Arrived  PROVE token \in Arrived'
    OBVIOUS
  <2>1. TasksOK
    BY DEF TypesInv
  <2>2. token \in Arrived' \/ t.fn \in {"unlock", "gone"}
    BY <1>6, <2>1, EndArrived
  <2> QED  BY <1>1, <2>2
<1>8. None \notin DOMAIN tokens
  BY ServerAssumption DEF TypesInv, ServerOK
<1>9. SessionOK' /\ TokensStay
  BY <1>1, <1>4, <1>5, <1>7, <1>8 DEF TypesInv, SessionOK, TokensStay, serverVars
<1>10. PageOK'
  BY <1>1 DEF TypesInv, PageOK
<1> QED  BY <1>1, <1>6, <1>9, <1>10, SettingsStay DEF BrowserStep, Turn

(* The end of an unlock, and an unlock nobody waits for any more.           *)
LEMMA EndUnlockBrowser ==
  ASSUME TypesInv, NEW t \in tasks, Unlocked(t)
  PROVE  BrowserStep
<1> DEFINE closed == IF view.page \in {"settings", "control"} /\ view.dialog = "unlock"
                     THEN [view EXCEPT !.dialog = "closed"] ELSE view
<1>0. "page" \in DOMAIN closed /\ closed.page = view.page /\ "page" \in DOMAIN view
  BY DEF TypesInv, PageOK
<1>a. EndUnlock(t, closed)
  BY DEF Unlocked
<1> HIDE DEF closed
<1>1. /\ t.fn = "unlock" /\ t.ans # None /\ Ends(t)
      /\ UNCHANGED <<serverVars, settings, mount>>
  BY <1>a DEF EndUnlock, Resumes
<1>2. PageOK'
  BY <1>0, <1>a DEF EndUnlock, SetView, TypesInv, PageOK
<1>3. TaskOK(t, issued, DOMAIN tokens, accepted)
  BY DEF TypesInv, TasksOK
<1>4. t.ans.ok => t.ans.value = t.ans.trace /\ t.ans.trace \in 1 .. issued
  BY <1>1, <1>3 DEF TaskOK, RequestOK, AnswerOK
<1>5. Turn({t})
  BY <1>1, EndTurn DEF TypesInv
<1>6. \A token \in Arrived : token \in Arrived' \/ (token = t.ans.trace /\ token \in Tokens({t}))
  <2> SUFFICES ASSUME NEW token \in Arrived
               PROVE  token \in Arrived' \/ (token = t.ans.trace /\ token \in Tokens({t}))
    OBVIOUS
  <2>1. TasksOK
    BY DEF TypesInv
  <2>2. token \in Arrived' \/ (token = t.ans.trace /\ token \in Tokens({t}))
    BY <1>5, <2>1, EndArrived
  <2> QED  BY <2>2
<1>7. SessionOK' /\ TokensStay
  <2>1. CASE t.ans.ok
    <3>1. /\ readOnly' = FALSE /\ unlockToken' = t.ans.trace
          /\ orphans' = orphans \cup ({unlockToken} \ {None, t.ans.trace})
      BY <1>a, <1>4, <2>1 DEF EndUnlock, UnlockWrites
    <3>2. None \notin DOMAIN tokens
      BY ServerAssumption DEF TypesInv, ServerOK
    <3> QED  BY <1>1, <1>4, <1>6, <2>1, <3>1, <3>2 DEF TypesInv, SessionOK, TokensStay, serverVars
  <2>2. CASE ~t.ans.ok
    <3>1. UNCHANGED <<readOnly, unlockToken>> /\ orphans' = orphans \cup Tokens({t})
      BY <1>a, <2>2 DEF EndUnlock
    <3>2. Tokens({t}) \subseteq 1 .. issued
      BY <1>1, ArrivedTokens DEF TypesInv
    <3> QED  BY <1>1, <1>6, <3>1, <3>2 DEF TypesInv, SessionOK, TokensStay, serverVars
  <2> QED  BY <2>1, <2>2
<1> QED  BY <1>1, <1>2, <1>5, <1>7, SettingsStay DEF BrowserStep, Turn

LEMMA ForgetBrowser ==
  ASSUME TypesInv, NEW t \in tasks, Forget(t)
  PROVE  BrowserStep
<1>1. /\ t.fn = "gone" /\ t.ans # None /\ Ends(t)
      /\ orphans' = orphans \cup Tokens({t})
      /\ UNCHANGED <<serverVars, settings, readOnly, unlockToken, mount, view>>
  BY DEF Forget, Resumes
<1>2. Turn({t})
  BY <1>1, EndTurn DEF TypesInv
<1>3. \A token \in Arrived : token \in Arrived' \/ token \in Tokens({t})
  BY <1>2, TurnArrived DEF TypesInv
<1>4. Tokens({t}) \subseteq 1 .. issued
  BY <1>1, ArrivedTokens DEF TypesInv
<1>5. SessionOK' /\ TokensStay /\ PageOK'
  BY <1>1, <1>3, <1>4 DEF TypesInv, SessionOK, TokensStay, serverVars, PageOK
<1> QED  BY <1>1, <1>2, <1>5, SettingsStay DEF BrowserStep, Turn

(* The fixtures answer, and do nothing.                                     *)
LEMMA FixturesBrowser ==
  ASSUME TypesInv, NEW t \in tasks, AnswerFromFixtures(t)
  PROVE  BrowserStep
<1>1. /\ t.req.path = "browser" /\ t.ans = None
      /\ UNCHANGED <<serverVars, session, mount, view>>
      /\ Reply(t, [Answer(FixtureSum) EXCEPT !.ok = MockAllows(t)])
  BY DEF AnswerFromFixtures
<1>2. PICK ok \in BOOLEAN : ok = MockAllows(t)
  BY DEF MockAllows
<1>3. PICK a \in AnswerType : Reply(t, a) /\ a.done = FALSE
  <2>1. PICK x \in AnswerType : x = Answer(FixtureSum) /\ x.done = FALSE
    BY AnswersAreTyped DEF FixtureSum
  <2>2. Reply(t, [x EXCEPT !.ok = ok])
    BY <1>1, <1>2, <2>1
  <2> QED  BY <2>1, <2>2 DEF AnswerType
<1>4. AnswerOK(t.req, a, issued', DOMAIN tokens', accepted')
  BY <1>1, PlainAnswerIsOK
<1>5. ServerGrows
  BY <1>1 DEF TypesInv, ServerOK, ServerGrows, serverVars
<1>6. Answered(t, a)
  BY <1>1, <1>3, <1>4, <1>5, ReplyAnswers
<1>7. Arrived \subseteq Arrived'
  BY <1>1, <1>6 DEF Answered, Arrived, Tokens
<1>8. SessionOK' /\ TokensStay /\ PageOK' /\ UNCHANGED settings
  BY <1>1, <1>7 DEF TypesInv, SessionOK, TokensStay, serverVars, session, lock, PageOK
<1> QED  BY <1>1, <1>6, <1>8, SettingsStay DEF BrowserStep, Answered

LEMMA ViewsArePages ==
  ASSUME NEW page, NEW texts, NEW v \in Views(page, texts)
  PROVE  "page" \in DOMAIN v /\ v.page \in Pages
BY DEF Views, Pages, SettingsView, SqlView, StoryView, ControlView, ExplorerView, RunbookView,
       ProceduresView

LEMMA NavigateBrowser ==
  ASSUME TypesInv, Navigate
  PROVE  BrowserStep
<1>1. /\ UNCHANGED <<serverVars, tasks, settings, lock>>
      /\ view' \in Views(Head(tour), LateTexts)
  BY DEF Navigate, session
<1>2. PageOK'
  BY <1>1, ViewsArePages DEF PageOK
<1>3. Turn({})
  BY <1>1, StayTurn DEF TypesInv
<1>4. Arrived' = Arrived
  BY <1>1 DEF Arrived, Tokens
<1>5. SessionOK' /\ TokensStay
  BY <1>1, <1>4 DEF TypesInv, SessionOK, TokensStay, serverVars, lock
<1> QED  BY <1>1, <1>2, <1>3, <1>5, SettingsStay DEF BrowserStep, Turn

(* After a reload no function waits any more; what was asked and may change *)
(* something is still under way.                                            *)
LEMMA ReloadBrowser ==
  ASSUME TypesInv, Reload
  PROVE  BrowserStep
<1> DEFINE S == {t \in tasks : Served(t)}
           f == [t \in S |-> [t EXCEPT !.fn = "gone", !.at = "sent", !.env = NoOptions,
                                       !.kept = NothingKept]]
<1>1. /\ UNCHANGED <<serverVars, settings>>
      /\ readOnly' = TRUE /\ unlockToken' = None
      /\ orphans' = orphans \cup Arrived \cup ({unlockToken} \ {None})
      /\ view' \in Views(view.page, LateTexts)
      /\ tasks' = {f[t] : t \in S}
  BY DEF Reload, Arrived
<1>2. \A t \in S : /\ TaskOK(t, issued, DOMAIN tokens, accepted) /\ t \in tasks
                   /\ t.ans = None
  BY DEF TypesInv, TasksOK, Served
<1>3. \A t \in S : /\ IsTask(f[t]) /\ f[t].id = t.id /\ f[t].fn = "gone" /\ f[t].env = NoOptions
                   /\ f[t].req = t.req /\ f[t].kept = NothingKept /\ f[t].ans = None
                   /\ f[t].pass = t.pass
  BY <1>2 DEF TaskOK, IsTask
<1>4. /\ IsFiniteSet(S) /\ Cardinality(S) <= Cardinality(tasks)
      /\ \A t, u \in S : t.id = u.id => t = u
      /\ Cardinality(tasks) <= MaxTasks /\ IsFiniteSet(tasks)
  BY FS_Subset DEF TypesInv, TasksOK, UniqueIds
<1> HIDE DEF S
<1>5. DOMAIN f = S
  OBVIOUS
<1> HIDE DEF f
<1>6. IsFiniteSet(tasks') /\ Cardinality(tasks') <= Cardinality(S)
  <2> DEFINE O == {f[t] : t \in S}
  <2>1. \A t \in S : f[t] \in O
    OBVIOUS
  <2>2. \A u \in O : \E t \in S : f[t] = u
    OBVIOUS
  <2> DEFINE g == [t \in S |-> f[t]]
  <2>3. g \in [S -> O] /\ \A u \in O : \E t \in S : g[t] = u
    BY <2>1, <2>2
  <2>4. tasks' = O
    BY <1>1
  <2> HIDE DEF O, g
  <2>5. g \in Surjection(S, O)
    BY <2>3 DEF Surjection
  <2> QED  BY <1>4, <2>4, <2>5, FS_Surjection
<1>7. Cardinality(tasks') <= MaxTasks
  <2>1. /\ Cardinality(tasks') \in Nat /\ Cardinality(S) \in Nat /\ Cardinality(tasks) \in Nat
        /\ MaxTasks \in Nat
    BY <1>4, <1>6, FS_CardinalityType, SessionAssumption
  <2> QED  BY <1>4, <1>6, <2>1
<1>8. UniqueIds(tasks')
  BY <1>1, <1>3, <1>4 DEF UniqueIds
<1>9. \A t \in S : TaskOK(f[t], issued, DOMAIN tokens, accepted)
  <2> SUFFICES ASSUME NEW t \in S  PROVE TaskOK(f[t], issued, DOMAIN tokens, accepted)
    OBVIOUS
  <2>1. RequestOK("gone", t.req, NothingKept, issued)
    BY <1>2 DEF TaskOK, RequestOK
  <2>2. KeptOK("gone", NothingKept)
    BY NothingIsKept DEF KeptOK
  <2>3. t.id \in Nat /\ PassOK(f[t])
    BY <1>2, <1>3 DEF TaskOK, PassOK
  <2> QED  BY <1>3, <2>1, <2>2, <2>3, CapturedIsEnv DEF TaskOK
<1>10. TasksOK'
  BY <1>1, <1>6, <1>7, <1>8, <1>9 DEF TasksOK, serverVars
<1>12. None \notin DOMAIN tokens
  BY ServerAssumption DEF TypesInv, ServerOK
<1>13. SessionOK' /\ TokensStay
  BY <1>1, <1>12, ArrivedTokens DEF TypesInv, SessionOK, TokensStay, serverVars
<1>14. PageOK'
  BY <1>1, ViewsArePages DEF PageOK
<1> QED  BY <1>1, <1>10, <1>13, <1>14, SettingsStay DEF BrowserStep

LEMMA MinOfTwo ==
  ASSUME NEW a \in Nat, NEW b \in Nat
  PROVE  Min({a, b}) \in Nat /\ Min({a, b}) <= a /\ Min({a, b}) <= b
<1>1. \E x \in {a, b} : \A y \in {a, b} : x <= y
  OBVIOUS
<1>2. Min({a, b}) \in {a, b} /\ \A y \in {a, b} : Min({a, b}) <= y
  BY <1>1 DEF Min
<1> QED  BY <1>2

Item == [ok : BOOLEAN, locked : BOOLEAN]

LEMMA KeptIsShort ==
  ASSUME NEW entries \in Seq(Item)
  PROVE  Kept(entries) \in Seq(Item) /\ Len(Kept(entries)) <= MaxHistory
<1> DEFINE n == Min({MaxHistory, Len(entries)})
<1>1. n \in Nat /\ n <= MaxHistory /\ n <= Len(entries)
  BY MinOfTwo, SqlAssumption
<1>2. Kept(entries) = SubSeq(entries, 1, n)
  BY DEF Kept
<1> HIDE DEF n
<1>3. \A i \in 1 .. n : entries[i] \in Item
  BY <1>1
<1>4. /\ SubSeq(entries, 1, n) \in Seq(Item)
      /\ Len(SubSeq(entries, 1, n)) = IF 1 <= n THEN n - 1 + 1 ELSE 0
  BY <1>1, <1>3, SubSeqProperties
<1> QED  BY <1>1, <1>2, <1>4, SqlAssumption

(* What the SQL console enters in its history.                              *)
LEMMA HistoryStep ==
  ASSUME TypesInv, SqlNext
  PROVE  HistoryOK'
<1>0. history \in Seq(Item) /\ Len(history) <= MaxHistory
  BY DEF TypesInv, HistoryOK, Item
<1>1. ASSUME NEW t \in tasks, EndStatement(t), history' # history
      PROVE  HistoryOK'
  <2> DEFINE out  == Append(t.kept.points, IF t.ans.ok THEN 1 ELSE 0)
             item == [ok |-> \A i \in DOMAIN out : out[i] = 1, locked |-> t.env.readOnly]
  <2>1. history' = Kept(<<item>> \o history)
    BY <1>1 DEF EndStatement
  <2>2. t.env.readOnly \in BOOLEAN
    BY DEF TypesInv, TasksOK, TaskOK, EnvType
  <2>3. item \in Item
    BY <2>2 DEF Item
  <2> HIDE DEF item
  <2>4. <<item>> \in Seq(Item)
    BY <2>3
  <2>5. <<item>> \o history \in Seq(Item)
    BY <1>0, <2>4, ConcatProperties
  <2> QED  BY <2>1, <2>5, KeptIsShort DEF HistoryOK, Item
<1>2. CASE history' = history
  BY <1>0, <1>2 DEF HistoryOK, Item
<1>3. history' = history \/ \E t \in tasks : EndStatement(t)
  BY DEF SqlNext, Run, Explain, Edit, EndExplain
<1> QED  BY <1>1, <1>2, <1>3

LEMMA IdleBrowser ==
  ASSUME TypesInv, UNCHANGED <<serverVars, tasks, session, view>>
  PROVE  BrowserStep
<1>1. Turn({})
  BY StayTurn DEF TypesInv
<1>2. Arrived' = Arrived
  BY DEF Arrived, Tokens
<1>3. SessionOK' /\ TokensStay /\ PageOK' /\ UNCHANGED settings
  BY <1>2 DEF TypesInv, SessionOK, TokensStay, serverVars, session, lock, PageOK
<1> QED  BY <1>1, <1>3, SettingsStay DEF BrowserStep, Turn

(* A step is one of the server, which the browser does not notice, or one   *)
(* of the browser.                                                          *)
LEMMA StepsAreOfOne ==
  ASSUME TypesInv, [Next]_vars
  PROVE  /\ HistoryOK'
         /\ \/ ServerStep /\ UNCHANGED <<session, mount, view>>
            \/ BrowserStep
<1>0. HistoryOK
  BY DEF TypesInv
<1>1. CASE ServerNext /\ UNCHANGED <<client, tailVars>>
  BY <1>0, <1>1, ServerNextStep DEF client, HistoryOK
<1>2. CASE UNCHANGED history /\ \/ ChangeSettings \/ SettingsNext \/ StoryNext \/ ControlNext \/ CallsNext
                                \/ \E t \in tasks : AnswerFromFixtures(t) \/ Unlocked(t) \/ Forget(t)
  <2>1. HistoryOK'
    BY <1>0, <1>2 DEF HistoryOK
  <2>2. CASE ChangeSettings
    BY <2>1, <2>2, ChangeSteps, QuietBrowser
  <2>3. CASE SettingsNext
    <3>1. CASE \E t \in tasks : EndLock(t)
      BY <2>1, <3>1, EndLockBrowser
    <3>2. CASE ~ \E t \in tasks : EndLock(t)
      BY <2>1, <2>3, <3>2, SettingsSteps, QuietBrowser, LockBrowser
    <3> QED  BY <3>1, <3>2
  <2>4. CASE StoryNext
    BY <2>1, <2>4, StorySteps, QuietBrowser, LockBrowser, SettingsStay
  <2>5. CASE ControlNext
    BY <2>1, <2>5, ControlSteps, QuietBrowser, SettingsStay
  <2>6. CASE CallsNext
    BY <2>1, <2>6, CallsSteps, QuietBrowser, SettingsStay
  <2>7. CASE \E t \in tasks : AnswerFromFixtures(t) \/ Unlocked(t) \/ Forget(t)
    BY <2>1, <2>7, FixturesBrowser, EndUnlockBrowser, ForgetBrowser
  <2> QED  BY <1>2, <2>1, <2>2, <2>3, <2>4, <2>5, <2>6, <2>7
<1>3. CASE SqlNext
  BY <1>3, SqlSteps, QuietBrowser, SettingsStay, HistoryStep
<1>4. CASE Navigate
  BY <1>0, <1>4, NavigateBrowser DEF Navigate, HistoryOK
<1>5. CASE Reload
  BY <1>0, <1>5, ReloadBrowser DEF Reload, Restored, HistoryOK
<1>6. CASE UNCHANGED <<serverVars, tasks, client>>
  BY <1>0, <1>6, IdleBrowser DEF client, HistoryOK
<1> QED  BY <1>1, <1>2, <1>3, <1>4, <1>5, <1>6 DEF Next, vars

LEMMA TypesStep ==
  ASSUME TypesInv, [Next]_vars
  PROVE  TypesInv'
<1>1. CASE ServerStep /\ UNCHANGED <<session, mount, view>>
  <2>1. SessionOK'
    <3>1. issued \in Nat /\ issued' \in Nat /\ issued <= issued'
      BY <1>1 DEF ServerStep, ServerGrows, TypesInv, ServerOK
    <3> QED  BY <1>1, <3>1 DEF TypesInv, SessionOK, session, lock
  <2>2. PageOK'
    BY <1>1 DEF TypesInv, PageOK
  <2> QED  BY <1>1, <2>1, <2>2, StepsAreOfOne DEF TypesInv, ServerStep
<1>2. CASE BrowserStep
  <2>1. ServerOK' /\ DatabaseOK'
    BY <1>2 DEF BrowserStep, TypesInv, ServerOK, DatabaseOK, serverVars, database
  <2> QED  BY <1>2, <2>1, StepsAreOfOne DEF TypesInv, BrowserStep
<1> QED  BY <1>1, <1>2, StepsAreOfOne

LEMMA TypesInit ==
  ASSUME Init
  PROVE  TypesInv
<1>1. Min({1, MaxTokens}) \in Nat /\ Min({1, MaxTokens}) <= MaxTokens
  BY MinOfTwo, ServerAssumption
<1>2. issued \in 0 .. MaxTokens /\ issued \in 0 .. Min({1, MaxTokens})
  BY <1>1, ServerAssumption DEF Init, ServerInit
<1>3. ServerOK
  BY <1>2, ServerAssumption DEF Init, ServerInit, ServerOK
<1>4. DatabaseOK
  <2> DEFINE S == ToSet(SeedDays)
             n == Len(SeedDays)
  <2>1. n \in Nat /\ DOMAIN SeedDays = 1 .. n /\ \A i \in 1 .. n : SeedDays[i] \in Nat
    BY StoryAssumption
  <2>2. S = {SeedDays[i] : i \in 1 .. n}
    BY <2>1 DEF ToSet
  <2> HIDE DEF S, n
  <2> DEFINE g == [i \in 1 .. n |-> SeedDays[i]]
  <2>3. g \in [1 .. n -> S] /\ \A d \in S : \E i \in 1 .. n : g[i] = d
    BY <2>2
  <2> HIDE DEF g
  <2>4. g \in Surjection(1 .. n, S)
    BY <2>3 DEF Surjection
  <2>5. IsFiniteSet(S)
    BY <2>1, <2>4, FS_Surjection, FS_Interval
  <2>6. S \subseteq Nat
    BY <2>1, <2>2
  <2>7. daily = [d \in S |-> SeedAmount]
    BY DEF Init, S
  <2>8. daily \in [DOMAIN daily -> Nat] /\ DOMAIN daily = S
    BY <2>7 DEF SeedAmount
  <2>9. stream = 0 /\ recorded = 0 /\ MaxEvents \in Nat
    BY ServerAssumption DEF Init, ServerInit
  <2> QED  BY <2>5, <2>6, <2>8, <2>9 DEF DatabaseOK
<1>5. SessionOK
  BY <1>2, ServerAssumption DEF Init, SessionOK, Drafts
<1>6. TasksOK
  <2>1. tasks = {}
    BY DEF Init, ServerInit
  <2>2. IsFiniteSet({}) /\ Cardinality({}) = 0
    BY FS_EmptySet
  <2> QED  BY <2>1, <2>2, SessionAssumption DEF TasksOK, UniqueIds
<1>7. PageOK
  BY ViewsArePages DEF Init, PageOK
<1>8. HistoryOK
  BY SqlAssumption DEF Init, HistoryOK
<1> QED  BY <1>3, <1>4, <1>5, <1>6, <1>7, <1>8 DEF TypesInv

LEMMA TypesAlways == Spec => []TypesInv
BY TypesInit, TypesStep, PTL DEF Spec

----------------------------------------------------------------------------
(* The tokens, the settings, the mounted page, the requests in the air and  *)
(* the story's rows stay well typed on every walk through the pages, and a  *)
(* request is told by its id: index.ts and policy.ts as the pages call      *)
(* them.                                                                    *)
THEOREM ConsoleTypes == Spec => []TypeOK
<1>1. ASSUME TypesInv  PROVE TypeOK
  <2>1. stream + recorded \in 0 .. MaxEvents
    BY <1>1, ServerAssumption DEF TypesInv, DatabaseOK
  <2>2. settings \in [dataMode : DataModes, voltApiUrl : Urls]
    BY <1>1 DEF TypesInv, SessionOK, Drafts
  <2> QED  BY <1>1, <2>1, <2>2 DEF TypesInv, ServerOK, SessionOK, TasksOK, UniqueIds, PageOK,
              TaskOK, PassOK, HistoryOK, TypeOK
<1> QED  BY <1>1, TypesAlways, PTL

(* Every token the server still honours is the browser's own, in an answer  *)
(* on its way, or one the browser lost without asking for its revocation,   *)
(* however unlocking, locking, reloading and restarts interleave: what      *)
(* unlockWrites, lockWrites and doLock of every page leave behind.          *)
THEOREM TokensAreAccountedFor == Spec => []LiveTokensAccountedFor
<1>1. LiveTokensAccountedFor <=>
        \A token \in DOMAIN tokens :
          tokens[token] = "live" => token \in {unlockToken} \cup orphans \cup Arrived
  BY DEF LiveTokensAccountedFor, Arrived
<1>2. ASSUME Init  PROVE LiveTokensAccountedFor
  <2>1. Min({1, MaxTokens}) \in Nat /\ Min({1, MaxTokens}) <= 1
    BY MinOfTwo, ServerAssumption
  <2>2. issued \in 0 .. 1 /\ DOMAIN tokens = 1 .. issued
    BY <1>2, <2>1 DEF Init, ServerInit
  <2>3. unlockToken = IF issued = 1 THEN 1 ELSE None
    BY <1>2 DEF Init
  <2> QED  BY <2>2, <2>3 DEF LiveTokensAccountedFor
<1>3. ASSUME TypesInv, LiveTokensAccountedFor, [Next]_vars
      PROVE  LiveTokensAccountedFor'
  <2>1. CASE BrowserStep
    <3>1. UNCHANGED tokens
      BY <2>1 DEF BrowserStep, serverVars
    <3> SUFFICES ASSUME NEW token \in DOMAIN tokens, tokens[token] = "live"
                 PROVE  token \in {unlockToken'} \cup orphans' \cup Arrived'
      BY <3>1 DEF LiveTokensAccountedFor, Arrived
    <3>2. token \in {unlockToken} \cup orphans \cup Arrived
      BY <1>1, <1>3
    <3> QED  BY <2>1, <3>2 DEF BrowserStep, TokensStay
  <2>2. CASE ServerStep /\ UNCHANGED <<session, mount, view>>
    <3>1. UNCHANGED <<unlockToken, orphans>>
      BY <2>2 DEF session, lock
    <3> SUFFICES ASSUME NEW token \in DOMAIN tokens', tokens'[token] = "live"
                 PROVE  token \in {unlockToken'} \cup orphans' \cup Arrived'
      BY DEF LiveTokensAccountedFor, Arrived
    <3>2. \/ token \in DOMAIN tokens /\ tokens[token] = "live"
          \/ \E u \in tasks' : u.req.path = "unlock" /\ u.ans # None /\ u.ans.done /\ u.ans.trace = token
      BY <2>2 DEF ServerStep, LiveKnown
    <3>3. CASE \E u \in tasks' : u.req.path = "unlock" /\ u.ans # None /\ u.ans.done
                                 /\ u.ans.trace = token
      BY <3>3 DEF Arrived, Tokens
    <3>4. CASE token \in DOMAIN tokens /\ tokens[token] = "live"
      <4>1. token \in {unlockToken} \cup orphans \cup Arrived
        BY <1>1, <1>3, <3>4
      <4>2. Arrived \subseteq Arrived'
        BY <2>2 DEF ServerStep, AnswersStay, Arrived, Tokens
      <4> QED  BY <3>1, <4>1, <4>2
    <3> QED  BY <3>2, <3>3, <3>4
  <2> QED  BY <1>3, <2>1, <2>2, StepsAreOfOne
<1> QED  BY <1>2, <1>3, TypesAlways, PTL DEF Spec

(* Rows of the story are changed, an event is put on the topic and the      *)
(* reset is started only for a request that the server let through while    *)
(* the token it carries was in force, whatever the page that sent it still  *)
(* believed: UnlockStore.valid and evaluateCall before the await of every   *)
(* route that changes something.                                            *)
THEOREM ChangesFollowAnUnlock == Spec => ChangesWereLetThrough
<1>1. ASSUME TypesInv, [Next]_vars  PROVE ChangesAllowed
  <2>1. CASE BrowserStep
    BY <1>1, <2>1, NothingChanges DEF BrowserStep, serverVars, database, TypesInv, ServerOK
  <2>2. CASE ServerStep
    BY <2>2 DEF ServerStep
  <2> QED  BY <1>1, <2>1, <2>2, StepsAreOfOne
<1>2. ChangesAllowed <=>
        (\/ daily' # daily /\ stream' = stream
         \/ stream' > stream
         \/ job' /\ ~job
         => \E t \in tasks, u \in tasks' :
              /\ t.id = u.id /\ t.ans = None /\ u.ans # None
              /\ CameThrough(t))
  BY DEF ChangesAllowed, Changes
<1> QED  BY <1>1, <1>2, TypesAlways, PTL DEF Spec, ChangesWereLetThrough

(* In live mode the console goes to another address only when the server    *)
(* has accepted that address, or it is the default one or the empty one:    *)
(* Save, whose answer may come after the settings were changed otherwise;   *)
(* the reset to the defaults; a server that restarts meanwhile.             *)
THEOREM LiveAddressesAreAccepted == Spec => LiveUrlChangesAreAccepted
<1>1. ASSUME TypesInv, [Next]_vars,
             settings'.voltApiUrl # settings.voltApiUrl, settings'.dataMode = "live"
      PROVE  settings'.voltApiUrl \in accepted' \cup {DefaultUrl, NoUrl}
  <2>1. CASE BrowserStep
    BY <1>1, <2>1 DEF BrowserStep, SettingsMove, serverVars
  <2>2. CASE UNCHANGED <<session, mount, view>>
    BY <1>1, <2>2 DEF session
  <2> QED  BY <1>1, <2>1, <2>2, StepsAreOfOne
<1> QED  BY <1>1, TypesAlways, PTL DEF Spec, LiveUrlChangesAreAccepted

----------------------------------------------------------------------------
(* Two functions of the pages are told to stop by the number they keep: the *)
(* tick of the Demo Control page and the call of useCall.  The arguments    *)
(* below follow those that were not, in the page that is mounted.           *)
IsWatched(t, fns) == t.fn \in fns /\ Mounted(t) /\ t.kept.number = 1

Kin(t, u) == u.id = t.id /\ u.fn = t.fn /\ u.mount = t.mount /\ u.kept = t.kept

WatchedStay(T, fns) ==
  /\ \A u \in T : Mounted(u) \/ \E t \in tasks : u.mount = t.mount
  /\ \A t \in tasks : IsWatched(t, fns) => \E u \in T : Kin(t, u)
  /\ \A u \in T : IsWatched(u, fns) => \E t \in tasks : Kin(t, u)

Watched == {"tick", "useCall"}

(* What a page shows of its readings and of its timers.                     *)
ShownFields == {"deps", "data", "loading", "pending", "strays"}
Keeps(v) ==
  /\ DOMAIN v = DOMAIN view /\ v.page = view.page
  /\ \A field \in ShownFields \cap DOMAIN view : v[field] = view[field]

Aside == UNCHANGED mount /\ Keeps(view') /\ WatchedStay(tasks', Watched)

LEMMA SameStay == \A fns : WatchedStay(tasks, fns)
BY DEF WatchedStay, Kin

LEMMA FewerStay ==
  ASSUME NEW T, NEW fns, WatchedStay(T, fns), NEW some \in SUBSET fns
  PROVE  WatchedStay(T, some)
BY DEF WatchedStay, IsWatched

LEMMA BeginsStay ==
  ASSUME NEW O, NEW fns, WatchedStay(O, fns), NEW fn, fn \notin fns,
         NEW at, NEW env, NEW req, NEW kept, BeginAmong(O, fn, at, env, req, kept)
  PROVE  WatchedStay(tasks', fns)
<1> PICK new : /\ new = [id |-> FreeId, fn |-> fn, at |-> at, mount |-> mount, env |-> env,
                         req |-> req, pass |-> "no", ans |-> None, kept |-> kept]
               /\ tasks' = O \cup {new}
  BY DEF BeginAmong
<1>1. Mounted(new) /\ ~IsWatched(new, fns)
  BY DEF Mounted, IsWatched
<1> QED  BY <1>1 DEF WatchedStay

LEMMA EndsStay ==
  ASSUME NEW fns, NEW t \in tasks, ~IsWatched(t, fns), Ends(t)
  PROVE  WatchedStay(tasks', fns)
BY DEF WatchedStay, Kin, Ends

LEMMA SendsStay ==
  ASSUME TypesInv, NEW fns, NEW t \in tasks, t.fn \notin fns,
         NEW at, NEW req, NEW kept, Sends(t, at, req, kept)
  PROVE  WatchedStay(tasks', fns)
<1> PICK u : /\ u = [t EXCEPT !.at = at, !.req = req, !.pass = "no", !.ans = None, !.kept = kept]
             /\ tasks' = (tasks \ {t}) \cup {u}
  BY DEF Sends
<1>1. u.fn = t.fn /\ u.mount = t.mount
  BY DEF TypesInv, TasksOK, TaskOK, IsTask
<1> QED  BY <1>1 DEF WatchedStay, IsWatched, Kin

LEMMA ReplyStays ==
  ASSUME TypesInv, NEW fns, NEW t \in tasks, NEW a, Reply(t, a)
  PROVE  WatchedStay(tasks', fns)
<1> PICK u : u = [t EXCEPT !.ans = a] /\ tasks' = (tasks \ {t}) \cup {u}
  BY DEF Reply
<1>1. Kin(t, u)
  BY DEF TypesInv, TasksOK, TaskOK, IsTask, Kin
<1> QED  BY <1>1 DEF WatchedStay, Kin

LEMMA LettingStays ==
  ASSUME TypesInv, NEW fns, NEW t \in tasks, LetThrough(t)
  PROVE  WatchedStay(tasks', fns)
<1> PICK u : /\ \E pass : u = [t EXCEPT !.pass = pass]
             /\ tasks' = (tasks \ {t}) \cup {u}
  BY DEF LetThrough
<1>1. Kin(t, u)
  BY DEF TypesInv, TasksOK, TaskOK, IsTask, Kin
<1> QED  BY <1>1 DEF WatchedStay, Kin

(* The functions a cleanup tells to stop are those it names.                *)
LEMMA StoppingStays ==
  ASSUME TypesInv, NEW fn, NEW O, NEW fns, fn \notin fns,
         O = {IF t.fn = fn /\ Mounted(t) THEN [t EXCEPT !.kept.number = 0] ELSE t : t \in tasks}
  PROVE  WatchedStay(O, fns) /\ \A u \in O : ~IsWatched(u, {fn})
<1>1. \A t \in tasks : IsTask(t) /\ IsKept(t.kept)
  BY DEF TypesInv, TasksOK, TaskOK, KeptOK
<1>2. \A t \in tasks : LET u == [t EXCEPT !.kept.number = 0]
                       IN  u.fn = t.fn /\ u.mount = t.mount /\ u.kept.number = 0
  BY <1>1 DEF IsTask, IsKept
<1>3. ASSUME NEW u \in O
      PROVE  \E t \in tasks : /\ u.fn = t.fn /\ u.mount = t.mount
                              /\ IF t.fn = fn /\ Mounted(t) THEN u.kept.number = 0 ELSE u = t
  BY <1>2
<1>4. \A t \in tasks : t.fn # fn => t \in O
  OBVIOUS
<1> QED  BY <1>3, <1>4 DEF WatchedStay, IsWatched, Kin, Mounted

----------------------------------------------------------------------------
(* The steps that touch neither *)

LEMMA SetKeeps ==
  ASSUME NEW t, NEW new, SetView(t, new), Keeps(new)
  PROVE  Keeps(view')
BY DEF SetView, Keeps

LEMMA SqlAside ==
  ASSUME TypesInv, SqlNext
  PROVE  Aside
<1>0. "page" \in DOMAIN view
  BY DEF TypesInv, PageOK
<1>1. CASE Run
  BY <1>0, <1>1, SameStay, BeginsStay DEF Run, BeginCall, Aside, Keeps, ShownFields, Watched
<1>2. CASE Explain
  BY <1>0, <1>2, SameStay, BeginsStay DEF Explain, BeginCall, Aside, Keeps, ShownFields, Watched
<1>3. ASSUME NEW text, Edit(text)
      PROVE  Aside
  BY <1>0, <1>3, SameStay DEF Edit, Aside, Keeps, ShownFields
<1>4. ASSUME NEW t \in tasks, EndStatement(t)
      PROVE  Aside
  <2>1. UNCHANGED mount /\ ~IsWatched(t, Watched) /\ t.fn \notin Watched
    BY <1>4 DEF EndStatement, Resumes, IsWatched, Watched
  <2>2. Keeps(view')
    BY <1>0, <1>4 DEF EndStatement, SetView, Keeps, ShownFields
  <2>3. Ends(t) \/ \E at, req, kept : Sends(t, at, req, kept)
    BY <1>4 DEF EndStatement
  <2> QED  BY <2>1, <2>2, <2>3, EndsStay, SendsStay DEF Aside
<1>5. ASSUME NEW t \in tasks, EndExplain(t)
      PROVE  Aside
  <2>1. UNCHANGED mount /\ ~IsWatched(t, Watched) /\ Ends(t)
    BY <1>5 DEF EndExplain, Resumes, IsWatched, Watched
  <2>2. Keeps(view')
    BY <1>0, <1>5 DEF EndExplain, SetView, Keeps, ShownFields
  <2> QED  BY <2>1, <2>2, EndsStay DEF Aside
<1> QED  BY <1>1, <1>2, <1>3, <1>4, <1>5 DEF SqlNext

(* The story: a script begins, proceeds or finishes.                        *)
LEMMA FinishesAside ==
  ASSUME TypesInv, UNCHANGED mount, NEW t \in tasks, t.fn = "story",
         NEW new, Keeps(new), Finish(t, new)
  PROVE  Aside
<1>1. Keeps([new EXCEPT !.busy = FALSE])
  BY DEF Keeps, ShownFields, TypesInv, PageOK
<1>2. ~IsWatched(t, Watched)
  BY DEF IsWatched, Watched
<1> QED  BY <1>1, <1>2, SetKeeps, EndsStay DEF Finish, Aside

LEMMA KeepsAside ==
  ASSUME TypesInv
  PROVE  Keeps(view)
BY DEF Keeps, TypesInv, PageOK

LEMMA ProceedsAside ==
  ASSUME TypesInv, UNCHANGED mount, NEW t \in tasks, t.fn = "story",
         NEW new, Keeps(new), Proceed(t, new)
  PROVE  Aside
<1>1. CASE Finish(t, new)
  BY <1>1, FinishesAside
<1>2. CASE UNCHANGED view /\ \E at, req, kept : Sends(t, at, req, kept)
  <2>1. t.fn \notin Watched
    BY DEF Watched
  <2> QED  BY <1>2, <2>1, KeepsAside, SendsStay DEF Aside
<1> QED  BY <1>1, <1>2 DEF Proceed

LEMMA StoryAside ==
  ASSUME TypesInv, StoryNext
  PROVE  Aside
<1>0. "page" \in DOMAIN view /\ Keeps(view)
  BY KeepsAside DEF TypesInv, PageOK
<1>1. CASE StoryUnlock
  BY <1>0, <1>1, SameStay, BeginsStay
  DEF StoryUnlock, BeginUnlock, Begin, MockUnlock, Aside, Keeps, Watched
<1>2. ASSUME NEW step, Execute(step)
      PROVE  Aside
  <2>1. UNCHANGED mount /\ Keeps(view')
    BY <1>0, <1>2 DEF Execute, Unchanged, Keeps, ShownFields
  <2>2. \E env, req, kept : BeginAmong(tasks, "story", "sent", env, req, kept)
    BY <1>2 DEF Execute, BeginCall
  <2>3. "story" \notin Watched
    BY DEF Watched
  <2> QED  BY <2>1, <2>2, <2>3, SameStay, BeginsStay DEF Aside
<1>3. ASSUME NEW t \in tasks, EndStatements(t)
      PROVE  Aside
  <2>1. t.fn = "story" /\ UNCHANGED mount
    BY <1>3 DEF EndStatements, InStory, Resumes, Unchanged
  <2>2. PICK new : Keeps(new) /\ (Proceed(t, new) \/ Finish(t, new))
    <3>1. Keeps([view EXCEPT !.jump = None])
      BY <1>0 DEF Keeps, ShownFields
    <3> QED  BY <1>0, <1>3, <3>1 DEF EndStatements
  <2> QED  BY <2>1, <2>2, ProceedsAside, FinishesAside
<1>4. ASSUME NEW t \in tasks, EndReading(t)
      PROVE  Aside
  <2>1. t.fn = "story" /\ UNCHANGED mount
    BY <1>4 DEF EndReading, InStory, Resumes, Unchanged
  <2> QED  BY <1>0, <1>4, <2>1, ProceedsAside, FinishesAside DEF EndReading
<1>5. ASSUME NEW t \in tasks, EndBefore(t)
      PROVE  Aside
  <2>1. t.fn \notin Watched /\ UNCHANGED mount
    BY <1>5 DEF EndBefore, InStory, Resumes, Unchanged, Watched
  <2>2. Keeps(view')
    BY <1>0, <1>5 DEF EndBefore, SetView, Keeps, ShownFields
  <2>3. \E at, req, kept : Sends(t, at, req, kept)
    BY <1>5 DEF EndBefore
  <2> QED  BY <2>1, <2>2, <2>3, SendsStay DEF Aside
<1>6. ASSUME NEW t \in tasks, EndProduce(t)
      PROVE  Aside
  <2>1. t.fn = "story" /\ UNCHANGED mount /\ t.fn \notin Watched
    BY <1>6 DEF EndProduce, InStory, Resumes, Unchanged, Watched
  <2>2. CASE Finish(t, view)
    BY <1>0, <2>1, <2>2, FinishesAside
  <2>3. CASE UNCHANGED view /\ \E at, req, kept : Sends(t, at, req, kept)
    BY <1>0, <2>1, <2>3, SendsStay DEF Aside
  <2> QED  BY <1>6, <2>2, <2>3 DEF EndProduce
<1>7. ASSUME NEW t \in tasks, EndAfter(t)
      PROVE  Aside
  <2>1. t.fn = "story" /\ UNCHANGED mount
    BY <1>7 DEF EndAfter, InStory, Resumes, Unchanged
  <2>2. PICK jump : Finish(t, [view EXCEPT !.jump = jump])
    BY <1>7 DEF EndAfter
  <2>3. Keeps([view EXCEPT !.jump = jump])
    BY <1>0 DEF Keeps, ShownFields
  <2> QED  BY <2>1, <2>2, <2>3, FinishesAside
<1> QED  BY <1>1, <1>2, <1>3, <1>4, <1>5, <1>6, <1>7 DEF StoryNext

(* The Settings page and the banner.                                        *)
LEMMA ChangeAside ==
  ASSUME TypesInv, ChangeSettings
  PROVE  Aside
<1>0. "page" \in DOMAIN view /\ Keeps(view)
  BY KeepsAside DEF TypesInv, PageOK
<1>1. CASE ResetSettings \/ SwitchToLive
  BY <1>0, <1>1, SameStay DEF ResetSettings, SwitchToLive, Aside, Keeps
<1>2. CASE TestConnection
  <2>1. UNCHANGED mount /\ Keeps(view') /\ "test" \notin Watched
    BY <1>0, <1>2 DEF TestConnection, Keeps, ShownFields, Watched
  <2> QED  BY <1>2, <2>1, SameStay, BeginsStay DEF TestConnection, Begin, Aside
<1>3. ASSUME NEW draft, Save(draft)
      PROVE  Aside
  <2>1. UNCHANGED mount /\ Keeps(view') /\ "save" \notin Watched
    BY <1>0, <1>3 DEF Save, Keeps, ShownFields, Watched
  <2>2. UNCHANGED tasks \/ \E env, req, kept : BeginAmong(tasks, "save", "sent", env, req, kept)
    BY <1>3 DEF Save, Begin
  <2> QED  BY <2>1, <2>2, SameStay, BeginsStay DEF Aside
<1> QED  BY <1>1, <1>2, <1>3 DEF ChangeSettings

LEMMA UnlockAside ==
  ASSUME TypesInv, BeginUnlock
  PROVE  Aside
<1>1. UNCHANGED mount /\ Keeps(view') /\ "unlock" \notin Watched
  BY KeepsAside DEF BeginUnlock, Keeps, Watched
<1> QED  BY <1>1, SameStay, BeginsStay DEF BeginUnlock, Begin, Aside

LEMMA ShowAside ==
  ASSUME TypesInv, NEW dialog, ShowDialog(dialog)
  PROVE  Aside
BY SameStay DEF ShowDialog, Quiet, Aside, Keeps, ShownFields, TypesInv, PageOK

LEMMA SettingsAside ==
  ASSUME TypesInv, SettingsNext
  PROVE  Aside
<1>0. "page" \in DOMAIN view /\ Keeps(view)
  BY KeepsAside DEF TypesInv, PageOK
<1>1. CASE AskUnlock \/ CancelUnlock
  BY <1>1, ShowAside DEF AskUnlock, CancelUnlock
<1>2. CASE ConfirmUnlock
  <2>1. CASE MockUnlock([view EXCEPT !.dialog = "closed"])
    BY <1>0, <2>1, SameStay DEF MockUnlock, Aside, Keeps, ShownFields
  <2> QED  BY <1>2, <2>1, UnlockAside DEF ConfirmUnlock
<1>3. CASE Lock
  <2>1. UNCHANGED mount /\ Keeps(view') /\ "lock" \notin Watched
    BY <1>0, <1>3 DEF Lock, Keeps, Watched
  <2> QED  BY <1>3, <2>1, SameStay, BeginsStay DEF Lock, Begin, Aside
<1>4. CASE MockLock
  BY <1>0, <1>4, SameStay DEF MockLock, Aside, Keeps
<1>5. ASSUME NEW t \in tasks, EndSave(t) \/ EndTest(t) \/ EndLock(t)
      PROVE  Aside
  <2>1. UNCHANGED mount /\ Ends(t) /\ ~IsWatched(t, Watched)
    BY <1>5 DEF EndSave, EndTest, EndLock, Resumes, IsWatched, Watched
  <2>2. Keeps(view')
    BY <1>0, <1>5 DEF EndSave, EndTest, EndLock, SetView, Keeps, ShownFields
  <2> QED  BY <2>1, <2>2, EndsStay DEF Aside
<1> QED  BY <1>1, <1>2, <1>3, <1>4, <1>5 DEF SettingsNext

(* The buttons of the Demo Control page, and what follows an action.        *)
LEMMA PressedAside ==
  ASSUME TypesInv, ControlPressed
  PROVE  Aside
<1>0. "page" \in DOMAIN view
  BY DEF TypesInv, PageOK
<1>1. ASSUME NEW label, NEW dialog, Act(label, dialog)
      PROVE  Aside
  <2>1. UNCHANGED mount /\ Keeps(view') /\ "act" \notin Watched
    BY <1>0, <1>1 DEF Act, Keeps, ShownFields, Watched
  <2> QED  BY <1>1, <2>1, SameStay, BeginsStay DEF Act, Begin, Aside
<1> QED  BY <1>1, ShowAside, UnlockAside DEF ControlPressed

LEMMA ActedAside ==
  ASSUME TypesInv, NEW t \in tasks, EndAct(t) \/ EndRefresh(t)
  PROVE  Aside
<1>0. "page" \in DOMAIN view
  BY DEF TypesInv, PageOK
<1>1. UNCHANGED mount /\ t.fn \notin Watched /\ ~IsWatched(t, Watched)
  BY DEF EndAct, EndRefresh, Resumes, IsWatched, Watched
<1>2. Keeps(view')
  BY <1>0 DEF EndAct, EndRefresh, Refreshed, SetView, Keeps, ShownFields
<1>3. Ends(t) \/ \E at, req, kept : Sends(t, at, req, kept)
  BY DEF EndAct, EndRefresh
<1> QED  BY <1>1, <1>2, <1>3, EndsStay, SendsStay DEF Aside

(* Captures, other subjects, and what the buttons run.                      *)
LEMMA CapturesAside ==
  ASSUME TypesInv, Captures
  PROVE  Aside
<1>0. "page" \in DOMAIN view
  BY DEF TypesInv, PageOK
<1>1. ASSUME NEW kind, NEW busy, Capture(kind, busy)
      PROVE  Aside
  <2>1. UNCHANGED mount /\ Keeps(view') /\ "capture" \notin Watched
    BY <1>0, <1>1 DEF Capture, Keeps, ShownFields, Watched
  <2>2. \E env, req, kept : BeginAmong(tasks, "capture", "sent", env, req, kept)
    BY <1>1 DEF Capture, BeginCall
  <2> QED  BY <2>1, <2>2, SameStay, BeginsStay DEF Aside
<1>2. CASE view' = [view EXCEPT !.baseline = None, !.follow = None] /\ Quiet
  BY <1>0, <1>2, SameStay DEF Quiet, Aside, Keeps, ShownFields
<1> QED  BY <1>1, <1>2 DEF Captures

LEMMA LeavesStay ==
  ASSUME TypesInv, NEW new, Leaves(new) \/ UNCHANGED tasks
  PROVE  WatchedStay(tasks', Watched)
<1>1. WatchedStay(Detached(tasks), Watched)
  <2> PICK O : O = Detached(tasks)
    OBVIOUS
  <2>1. O = {IF t.fn = "capture" /\ Mounted(t) THEN [t EXCEPT !.kept.number = 0] ELSE t : t \in tasks}
    BY DEF Detached
  <2>2. "capture" \notin Watched
    BY DEF Watched
  <2> QED  BY <2>1, <2>2, StoppingStays
<1> QED  BY <1>1, SameStay DEF Leaves

LEMMA ChoosesAside ==
  ASSUME TypesInv, NEW new,
         ChooseSubject(new) \/ ChooseStep(new) \/ ChooseProcedure(new)
  PROVE  Aside
<1>0. "page" \in DOMAIN view
  BY DEF TypesInv, PageOK
<1>1. UNCHANGED mount /\ (Leaves(new) \/ UNCHANGED tasks)
  BY DEF ChooseSubject, ChooseStep, ChooseProcedure, Choose
<1>2. Keeps(view')
  BY <1>0 DEF ChooseSubject, ChooseStep, ChooseProcedure, Choose, Keeps, ShownFields
<1> QED  BY <1>1, <1>2, LeavesStay DEF Aside

LEMMA StartsAside ==
  ASSUME TypesInv, ExecuteProcedure \/ RunStep \/ ExplainProcedure
  PROVE  Aside
<1>0. "page" \in DOMAIN view
  BY DEF TypesInv, PageOK
<1>1. PICK fn \in {"execute", "plan"} : \E req, kept : Starts(fn, req, kept)
  BY DEF ExecuteProcedure, RunStep, ExplainProcedure
<1>2. UNCHANGED mount /\ Keeps(view') /\ fn \notin Watched
  BY <1>0, <1>1 DEF Starts, Keeps, ShownFields, Watched
<1>3. \E env, req, kept : BeginAmong(tasks, fn, "sent", env, req, kept)
  BY <1>1 DEF Starts, BeginCall
<1> QED  BY <1>2, <1>3, SameStay, BeginsStay DEF Aside

LEMMA RanAside ==
  ASSUME TypesInv, NEW t \in tasks, EndCapture(t) \/ EndRun(t) \/ EndPlan(t)
  PROVE  Aside
<1>0. "page" \in DOMAIN view
  BY DEF TypesInv, PageOK
<1>1. UNCHANGED mount /\ Ends(t) /\ ~IsWatched(t, Watched)
  BY DEF EndCapture, EndRun, EndPlan, Resumes, IsWatched, Watched
<1>2. Keeps(view')
  <2>1. ASSUME NEW new \in {[[view EXCEPT !.capturing = @ /\ t.kept.number = 0]
                                   EXCEPT !.baseline = t.kept.texts[2], !.follow = None],
                            [[view EXCEPT !.capturing = @ /\ t.kept.number = 0]
                                   EXCEPT !.follow = t.kept.texts[2]],
                            [view EXCEPT !.response = [of |-> t.kept.texts[1], ok |-> t.ans.ok],
                                         !.busy = FALSE],
                            [view EXCEPT !.plan = t.ans.ok, !.busy = FALSE]}
        PROVE  Keeps(new)
    BY <1>0 DEF Keeps, ShownFields
  <2> QED  BY <2>1, SetKeeps DEF EndCapture, EndRun, EndPlan
<1> QED  BY <1>1, <1>2, EndsStay DEF Aside

(* What belongs to no page: the fixtures, the unlock, the tasks of a page   *)
(* that was reloaded, and the server.                                       *)
LEMMA AnyPageAside ==
  ASSUME TypesInv, NEW t \in tasks, AnswerFromFixtures(t) \/ Unlocked(t) \/ Forget(t)
  PROVE  Aside
<1>0. "page" \in DOMAIN view /\ Keeps(view)
  BY KeepsAside DEF TypesInv, PageOK
<1>1. CASE AnswerFromFixtures(t)
  BY <1>0, <1>1, ReplyStays DEF AnswerFromFixtures, Aside, Keeps
<1>2. CASE Unlocked(t)
  <2> DEFINE closed == IF view.page \in {"settings", "control"} /\ view.dialog = "unlock"
                       THEN [view EXCEPT !.dialog = "closed"] ELSE view
  <2>1. Keeps(closed)
    BY <1>0 DEF Keeps, ShownFields
  <2>2. EndUnlock(t, closed)
    BY <1>2 DEF Unlocked
  <2> HIDE DEF closed
  <2>3. Keeps(view')
    BY <1>0, <2>1, <2>2 DEF EndUnlock, SetView, Keeps
  <2>4. UNCHANGED mount /\ Ends(t) /\ ~IsWatched(t, Watched)
    BY <2>2 DEF EndUnlock, Resumes, IsWatched, Watched
  <2> QED  BY <2>3, <2>4, EndsStay DEF Aside
<1>3. CASE Forget(t)
  <2>1. UNCHANGED <<mount, view>> /\ Ends(t) /\ ~IsWatched(t, Watched)
    BY <1>3 DEF Forget, Resumes, IsWatched, Watched
  <2> QED  BY <1>0, <2>1, EndsStay DEF Aside, Keeps
<1> QED  BY <1>1, <1>2, <1>3

LEMMA ServeReplies ==
  ASSUME NEW t, Serve(t)
  PROVE  (\E a : Reply(t, a)) \/ (LetThrough(t) /\ UNCHANGED <<daily, recorded>>)
<1>1. ASSUME NEW allowed, Admit(t, allowed)
      PROVE  (\E a : Reply(t, a)) \/ (LetThrough(t) /\ UNCHANGED <<daily, recorded>>)
  BY <1>1 DEF Admit, Respond, database
<1>2. CASE ServeCall(t) \/ ServeSql(t)
  BY <1>1, <1>2 DEF ServeCall, ServeSql, Evaluated, Respond
<1>3. CASE ServeProduce(t)
  BY <1>1, <1>3 DEF ServeProduce
<1>4. CASE ServeConnection(t) \/ ServeTest(t) \/ ServeStatus(t)
  BY <1>4 DEF ServeConnection, ServeTest, ServeStatus, Respond
<1>5. CASE ServeControl(t)
  BY <1>1, <1>5 DEF ServeControl, StartReset, Respond
<1>6. CASE ServeUnlock(t) \/ ServeLock(t) \/ Unreachable(t)
  BY <1>6 DEF ServeUnlock, ServeLock, Unreachable, Respond
<1>7. CASE CarryOut(t)
  BY <1>7 DEF CarryOut, CallVolt, ProduceEvents, ServeClient, Respond
<1> QED  BY <1>2, <1>3, <1>4, <1>5, <1>6, <1>7 DEF Serve

LEMMA ServerAside ==
  ASSUME TypesInv, ServerNext, UNCHANGED <<mount, view>>
  PROVE  Aside
<1>1. ASSUME NEW t \in tasks, Serve(t)
      PROVE  WatchedStay(tasks', Watched)
  BY <1>1, ServeReplies, ReplyStays, LettingStays
<1>2. ASSUME UNCHANGED tasks  PROVE WatchedStay(tasks', Watched)
  BY <1>2 DEF WatchedStay, Kin
<1>3. UNCHANGED tasks \/ \E t \in tasks : Serve(t)
  BY DEF ServerNext, Expire, RestartServer, EndReset, RecordEvent
<1> QED  BY <1>1, <1>2, <1>3, KeepsAside DEF Aside, Keeps

(* The steps that one of the two pages takes itself.                        *)
OwnStep ==
  RunCall \/ RunEffect \/ TimerFires \/ \E t \in tasks : EndCall(t) \/ EndTick(t)

LEMMA MostStepsAreAside ==
  ASSUME TypesInv, [Next]_vars, ~OwnStep, ~Navigate, ~Reload
  PROVE  Aside
<1>1. CASE ServerNext /\ UNCHANGED <<client, tailVars>>
  BY <1>1, ServerAside DEF client
<1>2. CASE ChangeSettings \/ SettingsNext \/ StoryNext \/ SqlNext
  BY <1>2, ChangeAside, SettingsAside, StoryAside, SqlAside
<1>3. CASE ControlNext
  BY <1>3, PressedAside, ActedAside DEF ControlNext, OwnStep
<1>4. CASE CallsNext
  BY <1>4, CapturesAside, ChoosesAside, StartsAside, RanAside DEF CallsNext, OwnStep
<1>5. CASE \E t \in tasks : AnswerFromFixtures(t) \/ Unlocked(t) \/ Forget(t)
  BY <1>5, AnyPageAside
<1>6. CASE UNCHANGED <<tasks, mount, view>>
  BY <1>6, KeepsAside DEF Aside, Keeps, WatchedStay, Kin
<1> QED  BY <1>1, <1>2, <1>3, <1>4, <1>5, <1>6 DEF Next, vars, client

----------------------------------------------------------------------------
(* The invariants of the two pages *)

MountsOK == mount \in Nat /\ \A t \in tasks : t.mount \in Nat /\ t.mount <= mount

(* A call that was not cleaned up is about what its effect was run for.     *)
CallsInv ==
  /\ OnExplorer => {"deps", "data", "loading"} \subseteq DOMAIN view
  /\ NoStaleAnswer
  /\ \A t \in tasks : IsWatched(t, {"useCall"}) =>
       OnExplorer /\ t.kept.texts = <<view.deps.subject, view.deps.mode>>

(* Before its first effect the page has no chain, after it one: a timer     *)
(* that is pending or a tick that will set one.                             *)
NoTick  == \A t \in tasks : ~IsWatched(t, {"tick"})
OneTick == \E t \in tasks : /\ IsWatched(t, {"tick"})
                            /\ \A u \in tasks : IsWatched(u, {"tick"}) => u = t
ChainInv ==
  /\ ~OnControl => NoTick
  /\ OnControl =>
       /\ {"deps", "job", "pending", "strays"} \subseteq DOMAIN view
       /\ view.strays = 0
       /\ \/ view.deps = None /\ view.pending = FALSE /\ NoTick
          \/ /\ view.deps.live \in BOOLEAN
             /\ (view.pending = TRUE /\ NoTick) \/ (view.pending = FALSE /\ OneTick)

WatchInv == MountsOK /\ CallsInv /\ ChainInv

LEMMA MountsStep ==
  ASSUME MountsOK, NEW fns, UNCHANGED mount, WatchedStay(tasks', fns)
  PROVE  MountsOK'
BY DEF MountsOK, WatchedStay, Mounted

LEMMA CallsStay ==
  ASSUME CallsInv, UNCHANGED mount, view'.page = view.page, OnExplorer => Keeps(view'),
         WatchedStay(tasks', {"useCall"})
  PROVE  CallsInv'
<1>1. ASSUME OnExplorer
      PROVE  /\ {"deps", "data", "loading"} \subseteq DOMAIN view' /\ OnExplorer'
             /\ view'.deps = view.deps /\ view'.data = view.data /\ view'.loading = view.loading
  BY <1>1 DEF CallsInv, Keeps, ShownFields, OnExplorer
<1>2. OnExplorer' => OnExplorer
  BY DEF OnExplorer
<1>3. ASSUME NEW u \in tasks', IsWatched(u, {"useCall"})'
      PROVE  OnExplorer' /\ u.kept.texts = <<view'.deps.subject, view'.deps.mode>>
  <2>1. IsWatched(u, {"useCall"})
    BY <1>3 DEF IsWatched, Mounted
  <2>2. PICK t \in tasks : Kin(t, u)
    BY <2>1 DEF WatchedStay
  <2>3. IsWatched(t, {"useCall"}) /\ t.kept = u.kept
    BY <2>1, <2>2 DEF IsWatched, Kin, Mounted
  <2> QED  BY <1>1, <2>3 DEF CallsInv
<1>4. NoStaleAnswer'
  BY <1>1, <1>2 DEF CallsInv, NoStaleAnswer
<1> QED  BY <1>1, <1>2, <1>3, <1>4 DEF CallsInv

LEMMA ChainStays ==
  ASSUME TypesInv, TypesInv', ChainInv, UNCHANGED mount, view'.page = view.page,
         OnControl => Keeps(view'), WatchedStay(tasks', {"tick"})
  PROVE  ChainInv'
<1>1. OnControl' <=> OnControl
  BY DEF OnControl
<1>2. OnControl => /\ DOMAIN view' = DOMAIN view
                   /\ view'.deps = view.deps /\ view'.pending = view.pending
                   /\ view'.strays = view.strays
  BY DEF Keeps, ShownFields, ChainInv
<1>3. \A u \in tasks' : IsWatched(u, {"tick"})' => IsWatched(u, {"tick"})
  BY DEF IsWatched, Mounted
<1>4. NoTick => NoTick'
  BY <1>3 DEF NoTick, WatchedStay, IsWatched, Kin, Mounted
<1>5. ASSUME OneTick  PROVE OneTick'
  <2>1. PICK t \in tasks : /\ IsWatched(t, {"tick"})
                           /\ \A u \in tasks : IsWatched(u, {"tick"}) => u = t
    BY <1>5 DEF OneTick
  <2>2. PICK v \in tasks' : Kin(t, v)
    BY <2>1 DEF WatchedStay
  <2>3. IsWatched(v, {"tick"})'
    BY <2>1, <2>2 DEF IsWatched, Kin, Mounted
  <2>4. ASSUME NEW u \in tasks', IsWatched(u, {"tick"})'  PROVE u = v
    <3>1. PICK s \in tasks : Kin(s, u)
      BY <1>3, <2>4 DEF WatchedStay
    <3>2. IsWatched(s, {"tick"})
      BY <1>3, <2>4, <3>1 DEF IsWatched, Kin, Mounted
    <3>3. u.id = v.id
      BY <2>1, <2>2, <3>1, <3>2 DEF Kin
    <3> QED  BY <3>3 DEF TypesInv, TasksOK, UniqueIds
  <2> QED  BY <2>3, <2>4 DEF OneTick
<1> QED  BY <1>1, <1>2, <1>4, <1>5 DEF ChainInv

(* RunCall: the calls of the effect before are told to stop, one of the new *)
(* effect's begins.                                                         *)
LEMMA RunCallStep ==
  ASSUME TypesInv, WatchInv, RunCall
  PROVE  /\ UNCHANGED mount /\ WatchedStay(tasks', {"tick"}) /\ CallsInv'
         /\ view'.page = view.page /\ ~OnControl
<1>0. OnExplorer /\ "page" \in DOMAIN view
      /\ {"deps", "data", "loading"} \subseteq DOMAIN view
  BY DEF RunCall, TypesInv, PageOK, WatchInv, CallsInv
<1>1. UNCHANGED mount
  BY DEF RunCall
<1>2. PICK O : O = Cancelled(tasks)
  OBVIOUS
<1>3. O = {IF t.fn = "useCall" /\ Mounted(t) THEN [t EXCEPT !.kept.number = 0] ELSE t : t \in tasks}
  BY <1>2 DEF Cancelled
<1>4. WatchedStay(O, {"tick"}) /\ \A u \in O : ~IsWatched(u, {"useCall"})
  <2>1. "useCall" \notin {"tick"}
    OBVIOUS
  <2> QED  BY <1>3, <2>1, StoppingStays
<1>a. PICK kept : kept = [NothingKept EXCEPT !.texts = <<view.subject, settings.dataMode>>,
                                             !.number = 1]
  OBVIOUS
<1>5. /\ \E env, req : BeginAmong(O, "useCall", "sent", env, req, kept)
      /\ kept.texts = <<view.subject, settings.dataMode>>
  BY <1>2, <1>a DEF RunCall, NothingKept
<1>6. WatchedStay(tasks', {"tick"})
  <2>1. "useCall" \notin {"tick"}
    OBVIOUS
  <2> QED  BY <1>4, <1>5, <2>1, BeginsStay
<1>7. PICK new : new.kept = kept /\ tasks' = O \cup {new}
  BY <1>5 DEF BeginAmong
<1>8. /\ DOMAIN view' = DOMAIN view /\ view'.page = view.page
      /\ view'.deps = [subject |-> view.subject, mode |-> settings.dataMode]
      /\ view'.loading = TRUE
  BY <1>0 DEF RunCall, CallDeps
<1>9. OnExplorer' /\ ~OnControl /\ NoStaleAnswer'
  BY <1>0, <1>8 DEF OnExplorer, OnControl, NoStaleAnswer
<1>10. ASSUME NEW u \in tasks', IsWatched(u, {"useCall"})'
       PROVE  u.kept.texts = <<view'.deps.subject, view'.deps.mode>>
  <2>1. IsWatched(u, {"useCall"})
    BY <1>1, <1>10 DEF IsWatched, Mounted
  <2>2. u = new
    BY <1>4, <1>7, <2>1
  <2> QED  BY <1>5, <1>7, <1>8, <2>2
<1>11. CallsInv'
  BY <1>0, <1>8, <1>9, <1>10 DEF CallsInv
<1> QED  BY <1>1, <1>6, <1>8, <1>9, <1>11

(* EndCall: only an answer to the effect in use is shown.                   *)
LEMMA EndCallStep ==
  ASSUME TypesInv, WatchInv, NEW t \in tasks, EndCall(t)
  PROVE  /\ UNCHANGED mount /\ WatchedStay(tasks', {"tick"}) /\ CallsInv'
         /\ view'.page = view.page /\ (OnControl => Keeps(view'))
<1>0. "page" \in DOMAIN view /\ Keeps(view)
  BY KeepsAside DEF TypesInv, PageOK
<1>1. /\ UNCHANGED mount /\ Ends(t) /\ t.fn = "useCall"
      /\ SetView(t, IF Current(t)
                    THEN [view EXCEPT !.loading = FALSE,
                                      !.data = [subject |-> t.kept.texts[1],
                                                mode |-> t.kept.texts[2], ok |-> t.ans.ok]]
                    ELSE view)
  BY DEF EndCall, Resumes
<1>2. ~IsWatched(t, {"tick"})
  BY <1>1 DEF IsWatched
<1>3. WatchedStay(tasks', {"tick"})
  BY <1>1, <1>2, EndsStay
<1>4. CASE ~IsWatched(t, {"useCall"})
  <2>1. view' = view
    BY <1>1, <1>4 DEF IsWatched, SetView, Current
  <2>2. WatchedStay(tasks', {"useCall"})
    BY <1>1, <1>4, EndsStay
  <2> QED  BY <1>0, <1>1, <1>3, <2>1, <2>2, CallsStay DEF Keeps, WatchInv
<1>5. CASE IsWatched(t, {"useCall"})
  <2>1. /\ OnExplorer /\ {"deps", "data", "loading"} \subseteq DOMAIN view
        /\ t.kept.texts = <<view.deps.subject, view.deps.mode>>
    BY <1>5 DEF WatchInv, CallsInv
  <2>2. view' = [view EXCEPT !.loading = FALSE,
                             !.data = [subject |-> t.kept.texts[1],
                                       mode |-> t.kept.texts[2], ok |-> t.ans.ok]]
    BY <1>1, <1>5 DEF IsWatched, SetView, Current
  <2>3. /\ DOMAIN view' = DOMAIN view /\ view'.page = view.page /\ view'.deps = view.deps
        /\ view'.data.subject = view.deps.subject /\ view'.data.mode = view.deps.mode
    BY <1>0, <2>1, <2>2
  <2>4. OnExplorer' /\ ~OnControl /\ NoStaleAnswer'
    BY <2>1, <2>3 DEF OnExplorer, OnControl, NoStaleAnswer
  <2>5. ASSUME NEW u \in tasks', IsWatched(u, {"useCall"})'
        PROVE  u.kept.texts = <<view'.deps.subject, view'.deps.mode>>
    BY <1>1, <2>3, <2>5 DEF Ends, IsWatched, Mounted, WatchInv, CallsInv
  <2>6. CallsInv'
    BY <2>1, <2>3, <2>4, <2>5 DEF CallsInv
  <2> QED  BY <1>1, <1>3, <2>3, <2>4, <2>6
<1> QED  BY <1>4, <1>5

(* tick: it goes on with a question to the server, or with the next timer.  *)
LEMMA TickGoesOn ==
  ASSUME TypesInv, UNCHANGED mount, NEW O, WatchedStay(O, {"useCall"}),
         \A u \in O : ~IsWatched(u, {"tick"}), NEW live \in BOOLEAN,
         NEW v, "page" \in DOMAIN v, v.page = "control",
         {"deps", "job", "pending", "strays"} \subseteq DOMAIN v,
         v.strays = 0, v.pending = FALSE, v.deps.live \in BOOLEAN,
         Tick(O, live, v)
  PROVE  WatchedStay(tasks', {"useCall"}) /\ ChainInv'
<1>1. CASE live
  <2>1. PICK kept : kept = [NothingKept EXCEPT !.number = 1]
    OBVIOUS
  <2>2. kept.number = 1
    BY <2>1 DEF NothingKept
  <2>3. BeginAmong(O, "tick", "sent", NoOptions, StatusRequest, kept) /\ view' = v
    BY <1>1, <2>1 DEF Tick
  <2>4. WatchedStay(tasks', {"useCall"})
    <3>1. "tick" \notin {"useCall"}
      OBVIOUS
    <3> QED  BY <2>3, <3>1, BeginsStay
  <2>5. PICK new : /\ new.kept = kept /\ new.fn = "tick" /\ new.mount = mount
                   /\ tasks' = O \cup {new}
    BY <2>3 DEF BeginAmong
  <2>6. OneTick'
    <3>1. new \in tasks' /\ IsWatched(new, {"tick"})'
      BY <2>2, <2>5 DEF IsWatched, Mounted
    <3>2. ASSUME NEW u \in tasks', IsWatched(u, {"tick"})'  PROVE u = new
      <4>1. IsWatched(u, {"tick"})
        BY <3>2 DEF IsWatched, Mounted
      <4> QED  BY <2>5, <4>1
    <3> QED  BY <3>1, <3>2 DEF OneTick
  <2>7. OnControl'
    BY <2>3 DEF OnControl
  <2> QED  BY <2>3, <2>4, <2>6, <2>7 DEF ChainInv
<1>2. CASE ~live
  <2>1. tasks' = O /\ view' = WithTimer(v)
    BY <1>2 DEF Tick
  <2>2. NoTick'
    BY <2>1 DEF NoTick, IsWatched, Mounted
  <2>3. /\ DOMAIN view' = DOMAIN v /\ view'.deps = v.deps /\ view'.strays = 0
        /\ view'.pending = TRUE
    BY <2>1 DEF WithTimer
  <2> QED  BY <2>1, <2>2, <2>3 DEF ChainInv
<1> QED  BY <1>1, <1>2

LEMMA TickPage ==
  ASSUME NEW O, NEW live, NEW v, "page" \in DOMAIN v, Tick(O, live, v)
  PROVE  view'.page = v.page
<1>1. WithTimer(v).page = v.page
  BY DEF WithTimer
<1> QED  BY <1>1 DEF Tick

(* RunEffect: the tick of the effect before is told to stop, and its timer  *)
(* cleared.                                                                 *)
LEMMA RunEffectStep ==
  ASSUME TypesInv, WatchInv, RunEffect
  PROVE  /\ UNCHANGED mount /\ WatchedStay(tasks', {"useCall"}) /\ ChainInv'
         /\ view'.page = view.page /\ ~OnExplorer
<1>0. /\ OnControl /\ "page" \in DOMAIN view /\ view.strays = 0 /\ UNCHANGED mount
      /\ {"deps", "job", "pending", "strays"} \subseteq DOMAIN view
  BY DEF RunEffect, TypesInv, PageOK, WatchInv, ChainInv
<1>1. PICK O, v : O = Stopped(tasks) /\ v = [Cleared(view) EXCEPT !.deps = Deps]
  OBVIOUS
<1>2. O = {IF t.fn = "tick" /\ Mounted(t) THEN [t EXCEPT !.kept.number = 0] ELSE t : t \in tasks}
  BY <1>1 DEF Stopped
<1>3. WatchedStay(O, {"useCall"}) /\ \A u \in O : ~IsWatched(u, {"tick"})
  <2>1. "tick" \notin {"useCall"}
    OBVIOUS
  <2> QED  BY <1>2, <2>1, StoppingStays
<1>4. /\ DOMAIN v = DOMAIN view /\ v.page = "control" /\ v.strays = 0 /\ v.pending = FALSE
      /\ v.deps.live = Live
  BY <1>0, <1>1 DEF Cleared, Deps, OnControl
<1>5. Tick(O, Live, v)
  BY <1>1 DEF RunEffect
<1>6. Live \in BOOLEAN
  BY DEF Live
<1>7. WatchedStay(tasks', {"useCall"}) /\ ChainInv'
  BY <1>0, <1>3, <1>4, <1>5, <1>6, TickGoesOn
<1>8. view'.page = "control"
  BY <1>0, <1>4, <1>5, TickPage
<1> QED  BY <1>0, <1>7, <1>8 DEF OnControl, OnExplorer

LEMMA TimerStep ==
  ASSUME TypesInv, WatchInv, TimerFires
  PROVE  /\ UNCHANGED mount /\ WatchedStay(tasks', {"useCall"}) /\ ChainInv'
         /\ view'.page = view.page /\ ~OnExplorer
<1>0. /\ OnControl /\ "page" \in DOMAIN view /\ view.strays = 0 /\ UNCHANGED mount
      /\ {"deps", "job", "pending", "strays"} \subseteq DOMAIN view
  BY DEF TimerFires, TypesInv, PageOK, WatchInv, ChainInv
<1>1. PICK v : v = [view EXCEPT !.pending = FALSE]
  OBVIOUS
<1>2. view.pending /\ Tick(tasks, view.deps.live, v)
  BY <1>0, <1>1 DEF TimerFires
<1>3. view.deps.live \in BOOLEAN /\ NoTick
  BY <1>0, <1>2 DEF WatchInv, ChainInv
<1>4. DOMAIN v = DOMAIN view /\ v.page = "control" /\ v.strays = 0 /\ v.pending = FALSE
      /\ v.deps = view.deps
  BY <1>0, <1>1 DEF OnControl
<1>5. WatchedStay(tasks', {"useCall"}) /\ ChainInv'
  BY <1>0, <1>2, <1>3, <1>4, SameStay, TickGoesOn DEF NoTick
<1>6. view'.page = "control"
  BY <1>0, <1>2, <1>4, TickPage
<1> QED  BY <1>0, <1>5, <1>6 DEF OnControl, OnExplorer

(* EndTick: the next timer is set by the one tick that was not told to      *)
(* stop.                                                                    *)
LEMMA EndTickStep ==
  ASSUME TypesInv, TypesInv', WatchInv, NEW t \in tasks, EndTick(t)
  PROVE  /\ UNCHANGED mount /\ WatchedStay(tasks', {"useCall"}) /\ ChainInv'
         /\ view'.page = view.page /\ (OnExplorer => Keeps(view'))
<1>0. "page" \in DOMAIN view /\ Keeps(view)
  BY KeepsAside DEF TypesInv, PageOK
<1>1. /\ UNCHANGED mount /\ Ends(t) /\ t.fn = "tick"
      /\ SetView(t, IF Continues(t) THEN WithTimer(Refreshed(t)) ELSE Refreshed(t))
  BY DEF EndTick, Resumes
<1>2. ~IsWatched(t, {"useCall"})
  BY <1>1 DEF IsWatched
<1>3. WatchedStay(tasks', {"useCall"})
  BY <1>1, <1>2, EndsStay
<1>4. Keeps(Refreshed(t))
  BY <1>0 DEF Refreshed, Keeps, ShownFields
<1>5. CASE ~IsWatched(t, {"tick"})
  <2>1. Keeps(view')
    BY <1>0, <1>1, <1>4, <1>5 DEF IsWatched, SetView, Continues, Keeps
  <2>2. WatchedStay(tasks', {"tick"})
    BY <1>1, <1>5, EndsStay
  <2>3. view'.page = view.page
    BY <2>1 DEF Keeps
  <2> QED  BY <1>1, <1>3, <2>1, <2>2, <2>3, ChainStays DEF WatchInv
<1>6. CASE IsWatched(t, {"tick"})
  <2>1. view' = WithTimer(Refreshed(t))
    BY <1>1, <1>6 DEF IsWatched, SetView, Continues
  <2>2. view'.page = view.page /\ DOMAIN view' = DOMAIN view
    BY <1>0, <1>4, <2>1 DEF WithTimer, Keeps
  <2>3. OnControl /\ ~OnExplorer
    BY <1>6 DEF WatchInv, ChainInv, NoTick, OnControl, OnExplorer
  <2>4. ChainInv'
    <3>1. OnControl'
      BY <2>2, <2>3 DEF OnControl
    <3>2. /\ {"deps", "job", "pending", "strays"} \subseteq DOMAIN view /\ view.strays = 0
          /\ view.deps.live \in BOOLEAN /\ view.pending = FALSE /\ OneTick
      BY <1>6, <2>3 DEF WatchInv, ChainInv, NoTick
    <3>3. view'.pending = TRUE /\ view'.strays = 0 /\ view'.deps = view.deps
      BY <1>4, <2>1, <3>2 DEF WithTimer, Keeps, ShownFields
    <3>4. NoTick'
      <4> SUFFICES ASSUME NEW u \in tasks', IsWatched(u, {"tick"})'  PROVE FALSE
        BY DEF NoTick
      <4>1. IsWatched(u, {"tick"}) /\ u \in tasks /\ u # t
        BY <1>1 DEF IsWatched, Mounted, Ends
      <4> QED  BY <1>6, <3>2, <4>1 DEF OneTick
    <3> QED  BY <2>2, <3>1, <3>2, <3>3, <3>4 DEF ChainInv
  <2> QED  BY <1>1, <1>3, <2>2, <2>3, <2>4
<1> QED  BY <1>5, <1>6

(* A page as it is mounted shows nothing yet, and no function is its own.   *)
Fresh(v) ==
  /\ v.page = "explorer" => {"deps", "data", "loading"} \subseteq DOMAIN v /\ v.loading = TRUE
  /\ v.page = "control" => /\ {"deps", "job", "pending", "strays"} \subseteq DOMAIN v
                           /\ v.deps = None /\ v.pending = FALSE /\ v.strays = 0

LEMMA ViewsAreFresh ==
  ASSUME NEW page, NEW texts, NEW v \in Views(page, texts)
  PROVE  Fresh(v)
<1>1. \/ \E s : v \in {SettingsView, StoryView, ControlView, [page |-> "hygiene"],
                       SqlView(s), ExplorerView(s), RunbookView(s), ProceduresView(s)}
  BY DEF Views
<1> QED  BY <1>1 DEF Fresh, SettingsView, SqlView, StoryView, ControlView, ExplorerView,
                     RunbookView, ProceduresView

LEMMA ReloadMounts ==
  ASSUME TypesInv, Reload
  PROVE  /\ mount' = mount + 1 /\ view' \in Views(view.page, LateTexts)
         /\ \A u \in tasks' : \E t \in tasks : u.mount = t.mount
<1>1. tasks' = {[t EXCEPT !.fn = "gone", !.at = "sent", !.env = NoOptions,
                          !.kept = NothingKept] : t \in {u \in tasks : Served(u)}}
  BY Zenon DEF Reload
<1>2. \A t \in tasks : IsTask(t)
  BY DEF TypesInv, TasksOK, TaskOK
<1> DEFINE S == {u \in tasks : Served(u)}
           f(t) == [t EXCEPT !.fn = "gone", !.at = "sent", !.env = NoOptions,
                             !.kept = NothingKept]
<1>3. \A t \in tasks : f(t).mount = t.mount
  BY ONLY <1>2 DEF IsTask
<1>4. S \subseteq tasks
  OBVIOUS
<1>5. tasks' = {f(t) : t \in S}
  BY <1>1, Zenon
<1> HIDE DEF S, f
<1>6. mount' = mount + 1 /\ view' \in Views(view.page, LateTexts)
  BY Zenon DEF Reload
<1> QED  BY <1>3, <1>4, <1>5, <1>6

LEMMA MountedAnew ==
  ASSUME TypesInv, WatchInv, Navigate \/ Reload
  PROVE  WatchInv'
<1>1. mount' = mount + 1
  <2>1. CASE Navigate
    BY ONLY <2>1 DEF Navigate
  <2>2. CASE Reload
    BY <2>2, ReloadMounts
  <2> QED  BY <2>1, <2>2
<1>2. Fresh(view')
  <2>1. CASE Navigate
    <3>1. view' \in Views(Head(tour), LateTexts)
      BY ONLY <2>1 DEF Navigate
    <3> QED  BY <3>1, ViewsAreFresh
  <2>2. CASE Reload
    <3>1. view' \in Views(view.page, LateTexts)
      BY <2>2, ReloadMounts
    <3> QED  BY <3>1, ViewsAreFresh
  <2> QED  BY <2>1, <2>2
<1>3. \A u \in tasks' : \E t \in tasks : u.mount = t.mount
  <2>1. CASE Navigate
    BY <2>1 DEF Navigate
  <2>2. CASE Reload
    BY <2>2, ReloadMounts
  <2> QED  BY <2>1, <2>2
<1>4. MountsOK' /\ \A u \in tasks' : u.mount # mount'
  BY <1>1, <1>3 DEF WatchInv, MountsOK
<1>5. \A u \in tasks', fns \in {{"tick"}, {"useCall"}} : ~IsWatched(u, fns)'
  BY <1>4 DEF Mounted, IsWatched
<1>6. NoTick'
  BY <1>5 DEF NoTick
<1>7. NoStaleAnswer'
  BY <1>2 DEF Fresh, NoStaleAnswer, OnExplorer
<1>8. CallsInv' /\ ChainInv'
  BY <1>2, <1>5, <1>6, <1>7 DEF Fresh, CallsInv, ChainInv, OnExplorer, OnControl
<1> QED  BY <1>4, <1>8 DEF WatchInv

LEMMA WatchStep ==
  ASSUME TypesInv, TypesInv', WatchInv, [Next]_vars
  PROVE  WatchInv'
<1>0. MountsOK /\ CallsInv /\ ChainInv
  BY DEF WatchInv
<1>1. CASE Navigate \/ Reload
  BY <1>1, MountedAnew
<1>2. CASE ~OwnStep /\ ~Navigate /\ ~Reload
  <2>1. UNCHANGED mount /\ Keeps(view') /\ WatchedStay(tasks', Watched)
    BY <1>2, MostStepsAreAside DEF Aside
  <2>2. WatchedStay(tasks', {"useCall"}) /\ WatchedStay(tasks', {"tick"})
    BY <2>1, FewerStay DEF Watched
  <2>3. view'.page = view.page
    BY <2>1 DEF Keeps
  <2> QED  BY <1>0, <2>1, <2>2, <2>3, MountsStep, CallsStay, ChainStays DEF WatchInv
<1>3. CASE RunCall
  BY <1>0, <1>3, RunCallStep, MountsStep, ChainStays DEF WatchInv
<1>4. ASSUME NEW t \in tasks, EndCall(t)
      PROVE  WatchInv'
  <2>1. /\ UNCHANGED mount /\ WatchedStay(tasks', {"tick"}) /\ CallsInv'
        /\ view'.page = view.page /\ (OnControl => Keeps(view'))
    BY <1>4, EndCallStep
  <2>2. MountsOK'
    BY <1>0, <2>1, MountsStep
  <2>3. ChainInv'
    BY <1>0, <2>1, ChainStays
  <2> QED  BY <2>1, <2>2, <2>3 DEF WatchInv
<1>5. CASE RunEffect \/ TimerFires
  BY <1>0, <1>5, RunEffectStep, TimerStep, MountsStep, CallsStay DEF WatchInv
<1>6. ASSUME NEW t \in tasks, EndTick(t)
      PROVE  WatchInv'
  <2>1. /\ UNCHANGED mount /\ WatchedStay(tasks', {"useCall"}) /\ ChainInv'
        /\ view'.page = view.page /\ (OnExplorer => Keeps(view'))
    BY <1>6, EndTickStep
  <2>2. MountsOK'
    BY <1>0, <2>1, MountsStep
  <2>3. CallsInv'
    BY <1>0, <2>1, CallsStay
  <2> QED  BY <2>1, <2>2, <2>3 DEF WatchInv
<1> QED  BY <1>1, <1>2, <1>3, <1>4, <1>5, <1>6 DEF OwnStep

LEMMA WatchAlways == Spec => []WatchInv
<1>1. ASSUME Init  PROVE WatchInv
  <2>1. tasks = {} /\ mount = 1 /\ \E page, texts : view \in Views(page, texts)
    BY <1>1 DEF Init, ServerInit
  <2>2. Fresh(view)
    BY <2>1, ViewsAreFresh
  <2>3. NoStaleAnswer /\ NoTick /\ MountsOK
    BY <2>1, <2>2 DEF Fresh, NoStaleAnswer, OnExplorer, NoTick, MountsOK
  <2>4. CallsInv /\ ChainInv
    BY <2>1, <2>2, <2>3 DEF Fresh, CallsInv, ChainInv, OnExplorer, OnControl
  <2> QED  BY <2>3, <2>4 DEF WatchInv
<1> QED  BY <1>1, WatchStep, TypesAlways, PTL DEF Spec

(* What the Explorer shows is about the customer and the provider its       *)
(* effect was run for, however often either changes while answers are on    *)
(* their way, and in whatever order they come: the cleanup of useAsync      *)
(* (data/hooks.ts) tells the calls before to stop.                          *)
THEOREM AnswersAreNotStale == Spec => []NoStaleAnswer
<1>1. WatchInv => NoStaleAnswer
  BY DEF WatchInv, CallsInv
<1> QED  BY <1>1, WatchAlways, PTL

(* From its first effect on the Demo Control page polls along exactly one   *)
(* chain: of a timer that is pending and a tick that will set one there is  *)
(* always one and never two, although a tick may still await its answer     *)
(* when the mode or the job changes (the effect of pages/Control.tsx).      *)
THEOREM PollingIsOneChain == Spec => []OneChain
<1>1. ASSUME WatchInv  PROVE OneChain
  <2> SUFFICES ASSUME OnControl, view.deps # None  PROVE Chains = 1
    BY DEF OneChain
  <2> PICK ticks : ticks = {t \in tasks : t.fn = "tick" /\ Mounted(t) /\ Continues(t)}
    OBVIOUS
  <2>1. Chains = (IF view.pending THEN 1 ELSE 0) + view.strays + Cardinality(ticks)
    BY DEF Chains
  <2>2. \A t \in tasks : IsWatched(t, {"tick"}) <=> t \in ticks
    BY DEF IsWatched, Continues
  <2>3. /\ view.strays = 0
        /\ (view.pending = TRUE /\ NoTick) \/ (view.pending = FALSE /\ OneTick)
    BY <1>1 DEF WatchInv, ChainInv
  <2>4. CASE view.pending = TRUE /\ NoTick
    <3>1. ticks = {}
      BY <2>2, <2>4 DEF NoTick
    <3> QED  BY <2>1, <2>3, <2>4, <3>1, FS_EmptySet
  <2>5. CASE view.pending = FALSE /\ OneTick
    <3>1. PICK t : ticks = {t}
      BY <2>2, <2>5 DEF OneTick
    <3>2. Cardinality(ticks) = 1
      BY <3>1, FS_Singleton
    <3> QED  BY <2>1, <2>3, <2>5, <3>2
  <2> QED  BY <2>3, <2>4, <2>5
<1> QED  BY <1>1, WatchAlways, PTL

----------------------------------------------------------------------------
(* The jump of the story.  A script that began alone stays alone as long as *)
(* its page is mounted: the page is busy, and of the functions that write   *)
(* the story's rows there is none but scripts and what a reload has left of *)
(* them.  So between two readings of such a script only the pipeline        *)
(* changes the rows, by one amount for each event.                          *)
WritesRows(t) == t.fn \in {"story", "gone"} \/ t.req.op.do # "none"
IsSolo(t)     == t.fn = "story" /\ Mounted(t) /\ t.kept.number = 1

(* Functions of other pages that end a page's busy.                         *)
BusyFns == {"run", "explain", "execute", "plan", "act"}

PlacesOK ==
  /\ \A t \in tasks : t.req.op.do # "none" => t.fn \in {"story", "gone"}
  /\ \A t \in tasks : t.fn \in BusyFns /\ Mounted(t) => ~OnStory

SoloInv ==
  \A t \in tasks : IsSolo(t) => /\ OnStory /\ view.busy = TRUE
                                /\ \A u \in tasks : WritesRows(u) => u = t

(* Since a reading of v, with r events recorded, the window has grown by    *)
(* what was recorded; the fixtures always read the same.                    *)
GrownSince(env, v, r) ==
  /\ v \in Int /\ r \in Int
  /\ IF env.mode = "live" THEN WarmSum(WatchWindow) = v + EventAmount * (recorded - r)
     ELSE v = FixtureSum /\ r = 0

(* What the fifth step asks, what it was answered and what it keeps.        *)
JumpTaskOK(t) ==
  /\ \/ t.at \in {"sent", "after"} /\ t.req = AfterRequest(t)
     \/ t.at = "produce" /\ t.req = ProduceRequest(t.env) /\ t.env.mode = "live"
  /\ t.at = "sent" /\ t.ans # None /\ WarmSumOf(t.ans) # None
       => GrownSince(t.env, WarmSumOf(t.ans), t.ans.trace)
  /\ t.at # "sent" /\ t.kept.points[1] # None
       => GrownSince(t.env, t.kept.points[1], t.kept.points[2])
  /\ t.at = "after" /\ t.ans # None /\ t.kept.points[1] # None /\ WarmSumOf(t.ans) # None
       => WarmSumOf(t.ans) - t.kept.points[1] = EventAmount * (t.ans.trace - t.kept.points[2])

JumpTasksOK == \A t \in tasks : IsSolo(t) /\ StepOf(t) = "reactivate" => JumpTaskOK(t)

JumpOK(jump) ==
  jump.alone /\ jump.before # None /\ jump.after # None =>
    /\ {jump.before, jump.after, jump.grew} \subseteq Int
    /\ jump.after - jump.before = EventAmount * jump.grew
JumpShownOK ==
  OnStory => /\ {"busy", "jump"} \subseteq DOMAIN view
             /\ view.jump # None => JumpOK(view.jump)

StoryInv == PlacesOK /\ SoloInv /\ JumpTasksOK /\ JumpShownOK

(* What a step leaves of this that is none of the story's.                  *)
Aloof(T) ==
  \A u \in T : /\ WritesRows(u) => u \in tasks
               /\ u.fn \in BusyFns /\ Mounted(u) => ~OnStory

KeepsStory(v) ==
  /\ v.page = view.page
  /\ OnStory => DOMAIN v = DOMAIN view /\ v.busy = view.busy /\ v.jump = view.jump

Elsewhere ==
  UNCHANGED <<daily, recorded, mount>> /\ KeepsStory(view') /\ Aloof(tasks')

(* What a page may rely on.                                                 *)
StoryFields ==
  "page" \in DOMAIN view /\ (OnStory => {"busy", "jump"} \subseteq DOMAIN view)

LEMMA StoryHasFields ==
  ASSUME TypesInv, StoryInv
  PROVE  StoryFields /\ KeepsStory(view) /\ PlacesOK
BY DEF StoryFields, KeepsStory, StoryInv, JumpShownOK, TypesInv, PageOK

LEMMA SameAloof ==
  ASSUME PlacesOK
  PROVE  Aloof(tasks)
BY DEF PlacesOK, Aloof

LEMMA BeginsAloof ==
  ASSUME NEW O, Aloof(O), NEW fn, fn \notin {"story", "gone"}, fn \in BusyFns => ~OnStory,
         NEW at, NEW env, NEW req, req.op.do = "none", NEW kept,
         BeginAmong(O, fn, at, env, req, kept)
  PROVE  Aloof(tasks')
<1> PICK new : /\ new = [id |-> FreeId, fn |-> fn, at |-> at, mount |-> mount, env |-> env,
                         req |-> req, pass |-> "no", ans |-> None, kept |-> kept]
               /\ tasks' = O \cup {new}
  BY DEF BeginAmong
<1>1. new.fn = fn /\ new.req = req
  OBVIOUS
<1>2. ~WritesRows(new) /\ (new.fn \in BusyFns => ~OnStory)
  BY <1>1 DEF WritesRows
<1> QED  BY ONLY <1>2, Aloof(O), tasks' = O \cup {new} DEF Aloof

LEMMA EndsAloof ==
  ASSUME PlacesOK, NEW t \in tasks, Ends(t)
  PROVE  Aloof(tasks')
BY DEF PlacesOK, Aloof, Ends

LEMMA SendsAloof ==
  ASSUME TypesInv, PlacesOK, NEW t \in tasks, t.fn \notin {"story", "gone"},
         NEW at, NEW req, req.op.do = "none", NEW kept, Sends(t, at, req, kept)
  PROVE  Aloof(tasks')
<1> PICK u : /\ u = [t EXCEPT !.at = at, !.req = req, !.pass = "no", !.ans = None, !.kept = kept]
             /\ tasks' = (tasks \ {t}) \cup {u}
  BY DEF Sends
<1>1. u.fn = t.fn /\ u.mount = t.mount /\ u.req = req
  BY DEF TypesInv, TasksOK, TaskOK, IsTask
<1>2. ~WritesRows(u)
  BY <1>1 DEF WritesRows
<1> QED  BY <1>1, <1>2 DEF Aloof, PlacesOK, Mounted

LEMMA StoppingAloof ==
  ASSUME TypesInv, PlacesOK, NEW fn, NEW O, fn \notin {"story", "gone"} \cup BusyFns,
         O = {IF t.fn = fn /\ Mounted(t) THEN [t EXCEPT !.kept.number = 0] ELSE t : t \in tasks}
  PROVE  Aloof(O)
<1>1. \A t \in tasks : IsTask(t)
  BY DEF TypesInv, TasksOK, TaskOK
<1>2. \A t \in tasks : LET u == [t EXCEPT !.kept.number = 0]
                       IN  u.fn = t.fn /\ u.req = t.req
  BY <1>1 DEF IsTask
<1>3. ASSUME NEW u \in O
      PROVE  u \in tasks \/ \E t \in tasks : t.fn = fn /\ u.fn = fn /\ u.req = t.req
  BY <1>2
<1>4. ASSUME NEW u \in O, NEW t \in tasks, t.fn = fn, u.fn = fn, u.req = t.req
      PROVE  ~WritesRows(u) /\ u.fn \notin BusyFns
  BY <1>4 DEF PlacesOK, WritesRows
<1> QED  BY <1>3, <1>4 DEF Aloof, PlacesOK

LEMMA SetElsewhere ==
  ASSUME NEW t, NEW new, SetView(t, new), KeepsStory(view), KeepsStory(new)
  PROVE  KeepsStory(view')
BY DEF SetView

(* Off its page, and of a page that was left, nothing shows in the story.   *)
LEMMA OffStory ==
  ASSUME ~OnStory, NEW v, v.page = view.page
  PROVE  KeepsStory(v)
BY DEF KeepsStory

LEMMA OtherPages ==
  OnSettings \/ OnSql \/ OnControl \/ OnExplorer \/ OnProcedures \/ OnRunbook => ~OnStory
BY DEF OnStory, OnSettings, OnSql, OnControl, OnExplorer, OnProcedures, OnRunbook

LEMMA OpsOfPages ==
  ASSUME NEW env, NEW name, NEW text, NEW url, NEW label, NEW left
  PROVE  /\ ProcedureCall(env, name, NoOp).op.do = "none"
         /\ StatementRun(env, text, NoOp).op.do = "none" /\ RunNext(env, left).op.do = "none"
         /\ UnlockRequest.op.do = "none" /\ LockRequest.op.do = "none"
         /\ TestRequest.op.do = "none" /\ ConnectionRequest(url).op.do = "none"
         /\ StatusRequest.op.do = "none" /\ ControlRequest(label).op.do = "none"
         /\ ProduceRequest(env).op.do = "none"
BY DEF ProcedureCall, StatementRun, RunNext, UnlockRequest, LockRequest, TestRequest,
       ConnectionRequest, StatusRequest, ControlRequest, ProduceRequest, Request, NoOp

LEMMA SqlElsewhere ==
  ASSUME TypesInv, StoryInv, SqlNext
  PROVE  Elsewhere
<1>0. StoryFields /\ KeepsStory(view) /\ PlacesOK /\ Aloof(tasks)
  BY StoryHasFields, SameAloof
<1>1. UNCHANGED <<daily, recorded, mount>>
  BY SqlSteps DEF QuietStep, PageStep, serverVars, database
<1>2. CASE Run \/ Explain \/ \E text \in LateTexts : Edit(text)
  <2>1. ~OnStory
    BY <1>2, OtherPages DEF Run, Explain, Edit
  <2>2. view'.page = view.page
    BY <1>0, <1>2 DEF Run, Explain, Edit, StoryFields
  <2>3. Aloof(tasks')
    <3>1. CASE Run
      <4>1. \E env, left, kept : BeginAmong(tasks, "run", "sent", env, RunNext(env, left), kept)
        BY <3>1 DEF Run, BeginCall
      <4> QED  BY <1>0, <2>1, <4>1, OpsOfPages, BeginsAloof
    <3>2. CASE Explain
      <4>1. \E env, kept : BeginAmong(tasks, "explain", "sent", env,
                                      ProcedureCall(env, "@Explain", NoOp), kept)
        BY <3>2 DEF Explain, BeginCall
      <4> QED  BY <1>0, <2>1, <4>1, OpsOfPages, BeginsAloof
    <3>3. CASE UNCHANGED tasks
      BY <1>0, <3>3
    <3> QED  BY <1>2, <3>1, <3>2, <3>3 DEF Edit
  <2> QED  BY <1>1, <2>1, <2>2, <2>3, OffStory DEF Elsewhere
<1>3. ASSUME NEW t \in tasks, EndStatement(t) \/ EndExplain(t)
      PROVE  Elsewhere
  <2>1. t.fn \in {"run", "explain"}
    BY <1>3 DEF EndStatement, EndExplain, Resumes
  <2>2. KeepsStory(view')
    <3>1. CASE Mounted(t)
      <4>1. ~OnStory
        BY <1>0, <2>1, <3>1 DEF PlacesOK, BusyFns
      <4>2. view'.page = view.page
        BY <1>0, <1>3 DEF EndStatement, EndExplain, SetView, StoryFields
      <4> QED  BY <4>1, <4>2, OffStory
    <3>2. CASE ~Mounted(t)
      <4>1. UNCHANGED view
        BY <1>3, <3>2 DEF EndStatement, EndExplain, SetView
      <4> QED  BY <1>0, <4>1
    <3> QED  BY <3>1, <3>2
  <2>3. Ends(t) \/ \E at, left, kept : Sends(t, at, RunNext(t.env, left), kept)
    BY <1>3 DEF EndStatement, EndExplain
  <2>4. Aloof(tasks')
    BY <1>0, <2>1, <2>3, EndsAloof, SendsAloof, OpsOfPages
  <2> QED  BY <1>1, <2>2, <2>4 DEF Elsewhere
<1> QED  BY <1>2, <1>3 DEF SqlNext

LEMMA UnlockElsewhere ==
  ASSUME TypesInv, StoryInv, BeginUnlock
  PROVE  Elsewhere
<1>0. KeepsStory(view) /\ PlacesOK /\ Aloof(tasks)
  BY StoryHasFields, SameAloof
<1>1. UNCHANGED <<daily, recorded, mount, view>>
  BY DEF BeginUnlock, serverVars, database
<1>2. BeginAmong(tasks, "unlock", "sent", NoOptions, UnlockRequest, NothingKept)
  BY DEF BeginUnlock, Begin
<1>3. "unlock" \notin {"story", "gone"} /\ "unlock" \notin BusyFns
  BY DEF BusyFns
<1>4. Aloof(tasks')
  BY <1>0, <1>2, <1>3, OpsOfPages, BeginsAloof
<1> QED  BY <1>0, <1>1, <1>4 DEF Elsewhere, KeepsStory

LEMMA ShowElsewhere ==
  ASSUME TypesInv, StoryInv, ~OnStory, NEW dialog, ShowDialog(dialog)
  PROVE  Elsewhere
<1>0. StoryFields /\ PlacesOK /\ Aloof(tasks)
  BY StoryHasFields, SameAloof
<1>1. UNCHANGED <<daily, recorded, mount, tasks>> /\ view'.page = view.page
  BY <1>0 DEF ShowDialog, Quiet, serverVars, database, StoryFields
<1> QED  BY <1>0, <1>1, OffStory DEF Elsewhere

(* The Settings page, the banner above the others, and the fixtures' lock.  *)
LEMMA ChangeElsewhere ==
  ASSUME TypesInv, StoryInv, ChangeSettings
  PROVE  Elsewhere
<1>0. StoryFields /\ KeepsStory(view) /\ PlacesOK /\ Aloof(tasks)
  BY StoryHasFields, SameAloof
<1>1. UNCHANGED <<daily, recorded, mount>>
  BY DEF ChangeSettings, ResetSettings, SwitchToLive, TestConnection, Save, serverVars, database
<1>2. CASE ResetSettings \/ SwitchToLive
  BY <1>0, <1>1, <1>2 DEF ResetSettings, SwitchToLive, Elsewhere, KeepsStory
<1>3. CASE TestConnection
  <2>1. ~OnStory /\ view'.page = view.page /\ "test" \notin {"story", "gone"}
    BY <1>0, <1>3, OtherPages DEF TestConnection, StoryFields
  <2>2. BeginAmong(tasks, "test", "sent", NoOptions, TestRequest, NothingKept)
    BY <1>3 DEF TestConnection, Begin
  <2>3. Aloof(tasks')
    BY <1>0, <2>1, <2>2, OpsOfPages, BeginsAloof
  <2> QED  BY <1>1, <2>1, <2>3, OffStory DEF Elsewhere
<1>4. ASSUME NEW draft, Save(draft)
      PROVE  Elsewhere
  <2>1. ~OnStory /\ view'.page = view.page /\ "save" \notin {"story", "gone"}
    BY <1>0, <1>4, OtherPages DEF Save, StoryFields
  <2>2. \/ UNCHANGED tasks
        \/ \E url, kept : BeginAmong(tasks, "save", "sent", NoOptions, ConnectionRequest(url), kept)
    BY <1>4 DEF Save, Begin
  <2>3. Aloof(tasks')
    BY <1>0, <2>1, <2>2, OpsOfPages, BeginsAloof
  <2> QED  BY <1>1, <2>1, <2>3, OffStory DEF Elsewhere
<1> QED  BY <1>2, <1>3, <1>4 DEF ChangeSettings

LEMMA SettingsElsewhere ==
  ASSUME TypesInv, StoryInv, SettingsNext
  PROVE  Elsewhere
<1>0. StoryFields /\ KeepsStory(view) /\ PlacesOK /\ Aloof(tasks)
  BY StoryHasFields, SameAloof
<1>1. CASE AskUnlock \/ CancelUnlock
  BY <1>1, OtherPages, ShowElsewhere DEF AskUnlock, CancelUnlock
<1>2. CASE ConfirmUnlock
  <2>1. ~OnStory
    BY <1>2, OtherPages DEF ConfirmUnlock
  <2>2. CASE MockUnlock([view EXCEPT !.dialog = "closed"])
    <3>1. UNCHANGED <<daily, recorded, mount, tasks>> /\ view'.page = view.page
      BY <1>0, <2>2 DEF MockUnlock, serverVars, database, StoryFields
    <3> QED  BY <1>0, <2>1, <3>1, OffStory DEF Elsewhere
  <2> QED  BY <1>2, <2>2, UnlockElsewhere DEF ConfirmUnlock
<1>3. CASE Lock
  <2>1. UNCHANGED <<daily, recorded, mount, view>> /\ "lock" \notin {"story", "gone"} \cup BusyFns
    BY <1>3 DEF Lock, serverVars, database, BusyFns
  <2>2. BeginAmong(tasks, "lock", "sent", NoOptions, LockRequest, NothingKept)
    BY <1>3 DEF Lock, Begin
  <2>3. Aloof(tasks')
    BY <1>0, <2>1, <2>2, OpsOfPages, BeginsAloof
  <2> QED  BY <1>0, <2>1, <2>3 DEF Elsewhere, KeepsStory
<1>4. CASE MockLock
  BY <1>0, <1>4 DEF MockLock, serverVars, database, Elsewhere, KeepsStory
<1>5. ASSUME NEW t \in tasks, EndSave(t) \/ EndTest(t) \/ EndLock(t)
      PROVE  Elsewhere
  <2>1. UNCHANGED <<daily, recorded, mount>> /\ Ends(t)
    BY <1>5 DEF EndSave, EndTest, EndLock, serverVars, database
  <2>2. KeepsStory(view')
    BY <1>0, <1>5 DEF EndSave, EndTest, EndLock, SetView, KeepsStory, StoryFields
  <2> QED  BY <1>0, <2>1, <2>2, EndsAloof DEF Elsewhere
<1> QED  BY <1>1, <1>2, <1>3, <1>4, <1>5 DEF SettingsNext

(* The Demo Control page.                                                   *)
LEMMA TickElsewhere ==
  ASSUME TypesInv, StoryInv, UNCHANGED <<daily, recorded, mount>>, OnControl,
         NEW O, Aloof(O), NEW live, NEW v, "page" \in DOMAIN v, v.page = view.page,
         Tick(O, live, v)
  PROVE  Elsewhere
<1>1. ~OnStory /\ "tick" \notin {"story", "gone"}
  BY OtherPages
<1>2. view'.page = view.page
  BY DEF Tick, WithTimer
<1>3. \/ tasks' = O
      \/ \E kept : BeginAmong(O, "tick", "sent", NoOptions, StatusRequest, kept)
  BY DEF Tick
<1>4. Aloof(tasks')
  BY <1>1, <1>3, OpsOfPages, BeginsAloof
<1> QED  BY <1>1, <1>2, <1>4, OffStory DEF Elsewhere

LEMMA ControlElsewhere ==
  ASSUME TypesInv, StoryInv, ControlNext
  PROVE  Elsewhere
<1>0. StoryFields /\ KeepsStory(view) /\ PlacesOK /\ Aloof(tasks)
  BY StoryHasFields, SameAloof
<1>1. CASE RunEffect
  <2>1. UNCHANGED <<daily, recorded, mount>> /\ OnControl
    BY <1>1 DEF RunEffect, serverVars, database
  <2>2. PICK v : /\ "page" \in DOMAIN v /\ v.page = view.page
                 /\ Tick(Stopped(tasks), Live, v)
    BY <1>0, <1>1 DEF RunEffect, Cleared, StoryFields
  <2>3. Aloof(Stopped(tasks))
    <3>1. PICK O : O = Stopped(tasks)
      OBVIOUS
    <3>2. O = {IF t.fn = "tick" /\ Mounted(t) THEN [t EXCEPT !.kept.number = 0] ELSE t : t \in tasks}
      BY <3>1 DEF Stopped
    <3>3. "tick" \notin {"story", "gone"} \cup BusyFns
      BY DEF BusyFns
    <3> QED  BY <1>0, <3>1, <3>2, <3>3, StoppingAloof
  <2> QED  BY <2>1, <2>2, <2>3, TickElsewhere
<1>2. CASE TimerFires
  <2>1. UNCHANGED <<daily, recorded, mount>> /\ OnControl
    BY <1>2 DEF TimerFires, serverVars, database
  <2>2. PICK v : "page" \in DOMAIN v /\ v.page = view.page /\ Tick(tasks, view.deps.live, v)
    <3>1. \A v \in {[view EXCEPT !.pending = FALSE], [view EXCEPT !.strays = @ - 1]} :
            "page" \in DOMAIN v /\ v.page = view.page
      BY <1>0 DEF StoryFields
    <3> QED  BY <1>2, <3>1 DEF TimerFires
  <2> QED  BY <1>0, <2>1, <2>2, TickElsewhere
<1>3. CASE ControlPressed
  <2>1. ~OnStory
    BY <1>3, OtherPages DEF ControlPressed
  <2>2. ASSUME NEW label, NEW dialog, Act(label, dialog)
        PROVE  Elsewhere
    <3>1. UNCHANGED <<daily, recorded, mount>> /\ view'.page = view.page
          /\ "act" \notin {"story", "gone"}
      BY <1>0, <2>2 DEF Act, serverVars, database, StoryFields
    <3>2. BeginAmong(tasks, "act", "sent", NoOptions, ControlRequest(label), NothingKept)
      BY <2>2 DEF Act, Begin
    <3>3. Aloof(tasks')
      BY <1>0, <2>1, <3>1, <3>2, OpsOfPages, BeginsAloof
    <3> QED  BY <2>1, <3>1, <3>3, OffStory DEF Elsewhere
  <2> QED  BY <1>3, <2>1, <2>2, ShowElsewhere, UnlockElsewhere DEF ControlPressed
<1>4. ASSUME NEW t \in tasks, EndTick(t) \/ EndRefresh(t)
      PROVE  Elsewhere
  <2>1. UNCHANGED <<daily, recorded, mount>> /\ Ends(t)
    BY <1>4 DEF EndTick, EndRefresh, serverVars, database
  <2>2. KeepsStory(Refreshed(t)) /\ "page" \in DOMAIN Refreshed(t)
        /\ (OnStory => {"busy", "jump"} \subseteq DOMAIN Refreshed(t))
    BY <1>0 DEF Refreshed, KeepsStory, StoryFields
  <2>3. KeepsStory(WithTimer(Refreshed(t)))
    BY <2>2 DEF WithTimer, KeepsStory
  <2>4. KeepsStory(view')
    BY <1>0, <1>4, <2>2, <2>3, SetElsewhere DEF EndTick, EndRefresh
  <2> QED  BY <1>0, <2>1, <2>4, EndsAloof DEF Elsewhere
<1>5. ASSUME NEW t \in tasks, EndAct(t)
      PROVE  Elsewhere
  <2>1. /\ UNCHANGED <<daily, recorded, mount>> /\ t.fn = "act" /\ t.fn \notin {"story", "gone"}
        /\ Sends(t, "refresh", StatusRequest, t.kept)
    BY <1>5 DEF EndAct, Resumes, serverVars, database
  <2>2. KeepsStory(view')
    <3>1. CASE Mounted(t)
      <4>1. ~OnStory
        BY <1>0, <2>1, <3>1 DEF PlacesOK, BusyFns
      <4>2. view'.page = view.page
        BY <1>0, <1>5 DEF EndAct, SetView, StoryFields
      <4> QED  BY <4>1, <4>2, OffStory
    <3>2. CASE ~Mounted(t)
      <4>1. UNCHANGED view
        BY <1>5, <3>2 DEF EndAct, SetView
      <4> QED  BY <1>0, <4>1
    <3> QED  BY <3>1, <3>2
  <2>3. Aloof(tasks')
    BY <1>0, <2>1, OpsOfPages, SendsAloof
  <2> QED  BY <2>1, <2>2, <2>3 DEF Elsewhere
<1> QED  BY <1>1, <1>2, <1>3, <1>4, <1>5 DEF ControlNext

(* The pages that call procedures.                                          *)
LEMMA CallsElsewhere ==
  ASSUME TypesInv, StoryInv, CallsNext
  PROVE  Elsewhere
<1>0. StoryFields /\ KeepsStory(view) /\ PlacesOK /\ Aloof(tasks)
  BY StoryHasFields, SameAloof
<1>1. UNCHANGED <<daily, recorded, mount>>
  BY CallsSteps DEF QuietStep, PageStep, serverVars, database
<1>2. CASE RunCall
  <2>1. ~OnStory /\ view'.page = view.page /\ "useCall" \notin {"story", "gone"} \cup BusyFns
    BY <1>0, <1>2, OtherPages DEF RunCall, StoryFields, BusyFns
  <2>2. Aloof(Cancelled(tasks))
    <3>1. PICK O : O = Cancelled(tasks)
      OBVIOUS
    <3>2. O = {IF t.fn = "useCall" /\ Mounted(t) THEN [t EXCEPT !.kept.number = 0] ELSE t
                 : t \in tasks}
      BY <3>1 DEF Cancelled
    <3> QED  BY <1>0, <2>1, <3>1, <3>2, StoppingAloof
  <2>3. \E env, name, kept : BeginAmong(Cancelled(tasks), "useCall", "sent", env,
                                        ProcedureCall(env, name, NoOp), kept)
    BY <1>2 DEF RunCall
  <2>4. Aloof(tasks')
    BY <2>1, <2>2, <2>3, OpsOfPages, BeginsAloof
  <2> QED  BY <1>1, <2>1, <2>4, OffStory DEF Elsewhere
<1>3. CASE Captures
  <2>1. ~OnStory
    BY <1>3, OtherPages DEF Captures, ShowsProof
  <2>2. view'.page = view.page
    BY <1>0, <1>3 DEF Captures, Capture, StoryFields
  <2>3. \/ UNCHANGED tasks
        \/ \E env, name, kept : BeginAmong(tasks, "capture", "sent", env,
                                           ProcedureCall(env, name, NoOp), kept)
    BY <1>3 DEF Captures, Capture, BeginCall, Quiet
  <2>4. "capture" \notin {"story", "gone"}
    OBVIOUS
  <2>5. Aloof(tasks')
    BY <1>0, <2>1, <2>3, <2>4, OpsOfPages, BeginsAloof
  <2> QED  BY <1>1, <2>1, <2>2, <2>5, OffStory DEF Elsewhere
<1>4. ASSUME NEW new, ChooseSubject(new) \/ ChooseStep(new) \/ ChooseProcedure(new)
      PROVE  Elsewhere
  <2>1. ~OnStory
    BY <1>4, OtherPages DEF ChooseSubject, ChooseStep, ChooseProcedure
  <2>2. view'.page = view.page
    BY <1>0, <1>4 DEF ChooseSubject, ChooseStep, ChooseProcedure, Choose, StoryFields
  <2>3. tasks' = Detached(tasks) \/ tasks' = tasks
    BY <1>4 DEF ChooseSubject, ChooseStep, ChooseProcedure, Leaves
  <2>4. Aloof(Detached(tasks))
    <3>1. PICK O : O = Detached(tasks)
      OBVIOUS
    <3>2. O = {IF t.fn = "capture" /\ Mounted(t) THEN [t EXCEPT !.kept.number = 0] ELSE t
                 : t \in tasks}
      BY <3>1 DEF Detached
    <3>3. "capture" \notin {"story", "gone"} \cup BusyFns
      BY DEF BusyFns
    <3> QED  BY <1>0, <3>1, <3>2, <3>3, StoppingAloof
  <2> QED  BY <1>0, <1>1, <2>1, <2>2, <2>3, <2>4, OffStory DEF Elsewhere
<1>5. CASE ExecuteProcedure \/ ExplainProcedure \/ RunStep
  <2>1. ~OnStory
    BY <1>5, OtherPages DEF ExecuteProcedure, ExplainProcedure, RunStep
  <2>2. view'.page = view.page
    BY <1>0, <1>5 DEF ExecuteProcedure, ExplainProcedure, RunStep, Starts, StoryFields
  <2>3. PICK fn \in {"execute", "plan"} : \E env, kept, req :
          BeginAmong(tasks, fn, "sent", env, req, kept) /\ req.op.do = "none"
    BY <1>5, OpsOfPages DEF ExecuteProcedure, ExplainProcedure, RunStep, Starts, BeginCall
  <2>4. fn \notin {"story", "gone"}
    OBVIOUS
  <2>5. Aloof(tasks')
    BY <1>0, <2>1, <2>3, <2>4, BeginsAloof
  <2> QED  BY <1>1, <2>1, <2>2, <2>5, OffStory DEF Elsewhere
<1>6. ASSUME NEW t \in tasks, EndCall(t) \/ EndCapture(t)
      PROVE  Elsewhere
  <2>1. Ends(t)
    BY <1>6 DEF EndCall, EndCapture
  <2>2. KeepsStory(view')
    <3>1. ASSUME NEW new \in {[view EXCEPT !.loading = FALSE,
                                           !.data = [subject |-> t.kept.texts[1],
                                                     mode |-> t.kept.texts[2], ok |-> t.ans.ok]],
                              view,
                              [[view EXCEPT !.capturing = @ /\ t.kept.number = 0]
                                   EXCEPT !.baseline = t.kept.texts[2], !.follow = None],
                              [[view EXCEPT !.capturing = @ /\ t.kept.number = 0]
                                   EXCEPT !.follow = t.kept.texts[2]]}
          PROVE  KeepsStory(new)
      BY <1>0 DEF KeepsStory, StoryFields
    <3> QED  BY <1>0, <1>6, <3>1, SetElsewhere DEF EndCall, EndCapture
  <2> QED  BY <1>0, <1>1, <2>1, <2>2, EndsAloof DEF Elsewhere
<1>7. ASSUME NEW t \in tasks, EndRun(t) \/ EndPlan(t)
      PROVE  Elsewhere
  <2>1. t.fn \in {"execute", "plan"} /\ Ends(t)
    BY <1>7 DEF EndRun, EndPlan, Resumes
  <2>2. KeepsStory(view')
    <3>1. CASE Mounted(t)
      <4>1. ~OnStory
        BY <1>0, <2>1, <3>1 DEF PlacesOK, BusyFns
      <4>2. view'.page = view.page
        BY <1>0, <1>7 DEF EndRun, EndPlan, SetView, StoryFields
      <4> QED  BY <4>1, <4>2, OffStory
    <3>2. CASE ~Mounted(t)
      <4>1. UNCHANGED view
        BY <1>7, <3>2 DEF EndRun, EndPlan, SetView
      <4> QED  BY <1>0, <4>1
    <3> QED  BY <3>1, <3>2
  <2> QED  BY <1>0, <1>1, <2>1, <2>2, EndsAloof DEF Elsewhere
<1> QED  BY <1>2, <1>3, <1>4, <1>5, <1>6, <1>7 DEF CallsNext

(* What belongs to no page.                                                 *)
LEMMA AnyPageElsewhere ==
  ASSUME TypesInv, StoryInv, NEW t \in tasks, Unlocked(t) \/ Forget(t)
  PROVE  Elsewhere
<1>0. StoryFields /\ KeepsStory(view) /\ PlacesOK /\ Aloof(tasks)
  BY StoryHasFields, SameAloof
<1>1. CASE Unlocked(t)
  <2> DEFINE closed == IF view.page \in {"settings", "control"} /\ view.dialog = "unlock"
                       THEN [view EXCEPT !.dialog = "closed"] ELSE view
  <2>1. KeepsStory(closed)
    BY <1>0 DEF KeepsStory, StoryFields
  <2>2. EndUnlock(t, closed)
    BY <1>1 DEF Unlocked
  <2> HIDE DEF closed
  <2>3. KeepsStory(view')
    BY <1>0, <2>1, <2>2 DEF EndUnlock, SetView, KeepsStory
  <2>4. UNCHANGED <<daily, recorded, mount>> /\ Ends(t)
    BY <2>2 DEF EndUnlock, serverVars, database
  <2> QED  BY <1>0, <2>3, <2>4, EndsAloof DEF Elsewhere
<1>2. CASE Forget(t)
  <2>1. UNCHANGED <<daily, recorded, mount, view>> /\ Ends(t)
    BY <1>2 DEF Forget, serverVars, database
  <2> QED  BY <1>0, <2>1, EndsAloof DEF Elsewhere, KeepsStory
<1> QED  BY <1>1, <1>2

(* The steps that the argument is about.                                    *)
StoryStep ==
  \/ ServerNext /\ UNCHANGED <<mount, view>>
  \/ StoryNext /\ ~StoryUnlock
  \/ \E t \in tasks : AnswerFromFixtures(t)

LEMMA MostStepsAreElsewhere ==
  ASSUME TypesInv, StoryInv, [Next]_vars, ~StoryStep, ~Navigate, ~Reload
  PROVE  Elsewhere
<1>0. KeepsStory(view) /\ Aloof(tasks)
  BY StoryHasFields, SameAloof
<1>1. CASE ChangeSettings \/ SettingsNext \/ SqlNext \/ ControlNext \/ CallsNext
  BY <1>1, ChangeElsewhere, SettingsElsewhere, SqlElsewhere, ControlElsewhere, CallsElsewhere
<1>2. CASE StoryUnlock
  <2>1. CASE MockUnlock(view)
    BY <1>0, <2>1 DEF MockUnlock, serverVars, database, Elsewhere, KeepsStory
  <2> QED  BY <1>2, <2>1, UnlockElsewhere DEF StoryUnlock
<1>3. CASE \E t \in tasks : Unlocked(t) \/ Forget(t)
  BY <1>3, AnyPageElsewhere
<1>4. CASE UNCHANGED <<daily, recorded, tasks, mount, view>>
  BY <1>0, <1>4 DEF Elsewhere, KeepsStory
<1> QED  BY <1>1, <1>2, <1>3, <1>4
         DEF Next, vars, client, StoryStep, StoryNext, serverVars, database

LEMMA ElsewhereStep ==
  ASSUME TypesInv, StoryInv, Elsewhere
  PROVE  StoryInv'
<1>1. PlacesOK /\ SoloInv /\ JumpTasksOK /\ JumpShownOK
  BY DEF StoryInv
<1>2. OnStory' <=> OnStory
  BY DEF Elsewhere, KeepsStory, OnStory
<1>3. \A u \in tasks' : (IsSolo(u))' => u \in tasks /\ IsSolo(u)
  BY DEF Elsewhere, Aloof, IsSolo, Mounted, WritesRows
<1>4. PlacesOK'
  BY <1>1, <1>2 DEF PlacesOK, Elsewhere, Aloof, WritesRows, Mounted
<1>5. SoloInv'
  BY <1>1, <1>2, <1>3 DEF SoloInv, Elsewhere, Aloof, KeepsStory
<1>6. JumpTasksOK'
  BY <1>1, <1>3 DEF JumpTasksOK, JumpTaskOK, GrownSince, WarmSum, Elsewhere
<1>7. JumpShownOK'
  BY <1>1, <1>2 DEF JumpShownOK, Elsewhere, KeepsStory
<1> QED  BY <1>4, <1>5, <1>6, <1>7 DEF StoryInv

----------------------------------------------------------------------------
(* The story's own steps, and what the server does meanwhile                *)

LEMMA StoryTaskAlone ==
  ASSUME StoryInv, NEW t \in tasks, WritesRows(t)
  PROVE  \A s \in tasks : IsSolo(s) => s = t
BY DEF StoryInv, SoloInv

(* A task ends: of a script that is the last of its own.                    *)
LEMMA ScriptEnds ==
  ASSUME StoryInv, NEW t \in tasks, t.fn = "story", Ends(t), UNCHANGED mount,
         view'.page = view.page, JumpShownOK'
  PROVE  StoryInv'
<1>1. \A s \in tasks' : ~(IsSolo(s))'
  BY StoryTaskAlone DEF Ends, WritesRows, IsSolo, Mounted
<1>2. SoloInv' /\ JumpTasksOK'
  BY <1>1 DEF SoloInv, JumpTasksOK
<1>3. PlacesOK'
  BY DEF StoryInv, PlacesOK, Ends, OnStory, Mounted
<1> QED  BY <1>2, <1>3 DEF StoryInv

(* A task is replaced: it goes on, or is answered.                          *)
LEMMA TaskReplaced ==
  ASSUME StoryInv, UNCHANGED mount, NEW t \in tasks, NEW u,
         tasks' = (tasks \ {t}) \cup {u},
         u.fn = t.fn, u.mount = t.mount, u.kept.number = t.kept.number,
         u.req.op.do # "none" => WritesRows(t),
         view'.page = view.page, OnStory => view'.busy = view.busy,
         JumpTasksOK', JumpShownOK'
  PROVE  StoryInv'
<1>1. PlacesOK /\ SoloInv /\ (OnStory' <=> OnStory)
  BY DEF StoryInv, OnStory
<1>2. PlacesOK'
  BY <1>1 DEF PlacesOK, WritesRows, Mounted
<1>3. WritesRows(u) => WritesRows(t)
  BY DEF WritesRows
<1>4. IsSolo(u) <=> IsSolo(t)
  BY DEF IsSolo, Mounted
<1>5. ASSUME NEW s \in tasks', (IsSolo(s))', NEW w \in tasks', WritesRows(w)
      PROVE  w = s /\ OnStory /\ view.busy = TRUE
  <2>1. IsSolo(s)
    BY <1>5 DEF IsSolo, Mounted
  <2> QED  BY <1>1, <1>3, <1>4, <1>5, <2>1 DEF SoloInv
<1>6. ASSUME NEW s \in tasks', (IsSolo(s))'
      PROVE  WritesRows(s)
  BY <1>6 DEF WritesRows, IsSolo
<1>7. SoloInv'
  BY <1>1, <1>5, <1>6 DEF SoloInv, WritesRows
<1> QED  BY <1>2, <1>7 DEF StoryInv

(* A jump task keeps what it should as long as the window grows with what   *)
(* is recorded.                                                             *)
LEMMA JumpTaskStays ==
  ASSUME NEW t, JumpTaskOK(t),
         \A v, r : GrownSince(t.env, v, r) => (GrownSince(t.env, v, r))'
  PROVE  (JumpTaskOK(t))'
BY DEF JumpTaskOK

LEMMA SameGrowth ==
  ASSUME UNCHANGED <<daily, recorded>>, NEW env, NEW v, NEW r, GrownSince(env, v, r)
  PROVE  (GrownSince(env, v, r))'
BY DEF GrownSince, WarmSum

(* An event adds its amount to a window that is read at all.                *)
LEMMA EventGrows ==
  ASSUME TypesInv, RecordEvent, NEW env, NEW v, NEW r, GrownSince(env, v, r)
  PROVE  (GrownSince(env, v, r))'
<1> DEFINE days == {d \in DOMAIN daily : d < WatchWindow}
           today == EventAmount + (IF 0 \in DOMAIN daily THEN daily[0] ELSE 0)
<1>1. /\ daily \in [DOMAIN daily -> Nat] /\ DOMAIN daily \subseteq Nat
      /\ IsFiniteSet(DOMAIN daily) /\ recorded \in Nat /\ WatchWindow \in Nat
  BY StoryAssumption DEF TypesInv, DatabaseOK
<1>2. /\ recorded' = recorded + 1
      /\ daily' = [d \in DOMAIN daily \cup {0} |-> IF d = 0 THEN today ELSE daily[d]]
  BY DEF RecordEvent, InsertDay
<1>3. SUFFICES ASSUME env.mode = "live"
               PROVE  (WarmSum(WatchWindow))' = v + EventAmount * (recorded' - r)
  BY DEF GrownSince
<1>4. v \in Int /\ r \in Int /\ WarmSum(WatchWindow) = v + EventAmount * (recorded - r)
  BY <1>3 DEF GrownSince
<1>5. WarmSum(WatchWindow) # None /\ EventAmount = 5
  BY <1>1, <1>4, ServerAssumption DEF EventAmount
<1>6. days # {} /\ WarmSum(WatchWindow) = SumFunctionOnSet(daily, days)
  BY <1>5 DEF WarmSum
<1>7. IsFiniteSet(days) /\ \A d \in days : daily[d] \in Nat
  BY <1>1, FS_Subset
<1>8. 0 < WatchWindow
  BY <1>1, <1>6
<1> DEFINE later == {d \in DOMAIN daily' : d < WatchWindow}
           past  == days \ {0}
<1>9. DOMAIN daily' = DOMAIN daily \cup {0} /\ later = past \cup {0} /\ 0 \notin past
  BY <1>1, <1>2, <1>8
<1>10. today \in Nat /\ daily'[0] = today /\ \A d \in past : daily'[d] = daily[d] /\ daily[d] \in Nat
  BY <1>1, <1>2, <1>5
<1>11. IsFiniteSet(past)
  BY <1>7, FS_Subset
<1>12. SumFunctionOnSet(daily', later) = SumFunctionOnSet(daily, past) + today
  <2> HIDE DEF today, later, past
  <2>1. SumFunctionOnSet(daily', past \cup {0}) = SumFunctionOnSet(daily', past) + daily'[0]
    BY <1>9, <1>10, <1>11, SumAdd
  <2>2. SumFunctionOnSet(daily', past) = SumFunctionOnSet(daily, past)
    BY <1>10, <1>11, SumSame
  <2> QED  BY <1>9, <1>10, <2>1, <2>2
<1>13. SumFunctionOnSet(daily, past) \in Nat
  <2> HIDE DEF past
  <2> QED  BY <1>10, <1>11, SumInNat
<1>14. SumFunctionOnSet(daily', later) = SumFunctionOnSet(daily, days) + 5
  <2>1. CASE 0 \in DOMAIN daily
    <3>1. 0 \in days /\ daily[0] \in Nat /\ today = 5 + daily[0]
      BY <1>1, <1>5, <1>8, <2>1
    <3>2. SumFunctionOnSet(daily, days) = daily[0] + SumFunctionOnSet(daily, past)
      <4> HIDE DEF days
      <4> QED  BY <1>7, <3>1, SumRemove
    <3> HIDE DEF days, later, past, today
    <3> QED  BY <1>12, <1>13, <3>1, <3>2
  <2>2. CASE 0 \notin DOMAIN daily
    <3>1. past = days /\ today = 5
      BY <1>5, <2>2
    <3> HIDE DEF days, later, past, today
    <3> QED  BY <1>12, <1>13, <3>1
  <2> QED  BY <2>1, <2>2
<1>15. (WarmSum(WatchWindow))' = SumFunctionOnSet(daily', later)
  <2>1. later # {}
    BY <1>9
  <2> QED  BY <2>1 DEF WarmSum
<1> HIDE DEF days, later, past, today
<1> QED  BY <1>1, <1>2, <1>4, <1>5, <1>6, <1>14, <1>15

(* A request that writes none of the story's rows leaves them, and a        *)
(* reading is answered with the window as it is, or not at all.             *)
LEMMA ServedReading ==
  ASSUME NEW t, Serve(t), t.req.op.do \in {"none", "read"}
  PROVE  /\ UNCHANGED <<daily, recorded>>
         /\ \/ LetThrough(t)
            \/ \E a : /\ Reply(t, a)
                      /\ t.req.path = "call" /\ t.req.op.do = "read" /\ WarmSumOf(a) # None
                           => WarmSumOf(a) = WarmSum(t.req.op.day) /\ a.trace = recorded
<1> DEFINE Reads(a) == t.req.path = "call" /\ t.req.op.do = "read" /\ WarmSumOf(a) # None
                         => WarmSumOf(a) = WarmSum(t.req.op.day) /\ a.trace = recorded
<1>1. \A a : Reads(Lost(a)) /\ Reads(Refusal)
  <2>1. ~Refusal.ok
    BY DEF Refusal, Answer
  <2>2. ASSUME NEW a  PROVE ~Lost(a).ok \/ WarmSumOf(Lost(a)) = None
    BY DEF Lost, WarmSumOf
  <2> QED  BY <2>1, <2>2 DEF WarmSumOf
<1>2. ASSUME NEW allowed, Admit(t, allowed)
      PROVE  UNCHANGED <<daily, recorded>> /\ (LetThrough(t) \/ \E a : Reply(t, a) /\ Reads(a))
  <2>1. Respond(t, Refusal) => \E a : Reply(t, a) /\ Reads(a)
    BY <1>1 DEF Respond
  <2> HIDE DEF Reads
  <2> QED  BY <1>2, <2>1 DEF Admit, database
<1>3. ASSUME CallVolt(t)
      PROVE  UNCHANGED <<daily, recorded>> /\ \E a : Reply(t, a) /\ Reads(a)
  <2> DEFINE op     == t.req.op
             answer == IF op.do = "read" THEN [Answer(WarmSum(op.day)) EXCEPT !.trace = recorded]
                       ELSE [Answer(None) EXCEPT !.ok = Succeeds(op)]
  <2>1. Perform(op) => UNCHANGED daily
    BY DEF Perform
  <2>2. UNCHANGED <<daily, recorded>>
    BY <1>3, <2>1 DEF CallVolt
  <2>3. Reads(answer)
    BY DEF Answer, WarmSumOf
  <2>4. Respond(t, answer) \/ Reply(t, Lost(answer))
    BY <1>3 DEF CallVolt
  <2> HIDE DEF answer
  <2> QED  BY <1>1, <2>2, <2>3, <2>4 DEF Respond
<1>4. CASE ServeCall(t) \/ ServeSql(t)
  <2>1. ASSUME Respond(t, Refusal), UNCHANGED serverVars
        PROVE  UNCHANGED <<daily, recorded>> /\ \E a : Reply(t, a) /\ Reads(a)
    BY <1>1, <2>1 DEF Respond, serverVars, database
  <2> HIDE DEF Reads
  <2>2. \/ \E allowed : Admit(t, allowed)
        \/ Respond(t, Refusal) /\ UNCHANGED serverVars
    <3>1. CASE ServeCall(t)
      BY <3>1 DEF ServeCall, Evaluated
    <3>2. CASE ServeSql(t)
      <4>1. \/ Evaluated(t, CallOf(SplitStatements(t.req.text)[1]))
            \/ Respond(t, Refusal) /\ UNCHANGED serverVars
        BY <3>2 DEF ServeSql
      <4> QED  BY <4>1 DEF Evaluated
    <3> QED  BY <1>4, <3>1, <3>2
  <2>3. UNCHANGED <<daily, recorded>> /\ (LetThrough(t) \/ \E a : Reply(t, a) /\ Reads(a))
    <3>1. CASE \E allowed : Admit(t, allowed)
      <4> PICK allowed : Admit(t, allowed)
        BY <3>1
      <4> QED  BY <1>2
    <3>2. CASE Respond(t, Refusal) /\ UNCHANGED serverVars
      BY <2>1, <3>2
    <3> QED  BY <2>2, <3>1, <3>2
  <2> QED  BY <2>3 DEF Reads
<1>5. CASE Unreachable(t)
  BY <1>1, <1>5 DEF Unreachable, serverVars, database
<1>6. CASE ServeProduce(t) \/ ServeConnection(t) \/ ServeTest(t) \/ ServeStatus(t)
           \/ ServeControl(t) \/ ServeUnlock(t) \/ ServeLock(t)
  <2>1. t.req.path # "call"
    BY <1>6 DEF ServeProduce, ServeConnection, ServeTest, ServeStatus, ServeControl, ServeUnlock,
                ServeLock
  <2>2. UNCHANGED <<daily, recorded>>
    BY <1>6 DEF ServeProduce, ServeConnection, ServeTest, ServeStatus, ServeControl, ServeUnlock,
                ServeLock, Admit, StartReset, serverVars, database
  <2> QED  BY <2>1, <2>2, ServeReplies
<1>7. CASE CarryOut(t)
  <2>1. CASE CallVolt(t)
    BY <1>3, <2>1
  <2>2. CASE t.req.path # "call" /\ UNCHANGED <<daily, recorded>>
    BY <2>2, ServeReplies
  <2> HIDE DEF Reads
  <2> QED  BY <1>7, <2>1, <2>2 DEF CarryOut, database
<1> QED  BY <1>4, <1>5, <1>6, <1>7 DEF Serve

(* An answer to a reading that grows from then on with what is recorded     *)
(* keeps the task as it should be.                                          *)
LEMMA AnsweredJump ==
  ASSUME TypesInv, UNCHANGED <<daily, recorded>>, NEW t \in tasks, JumpTaskOK(t), NEW a, NEW u,
         u = [t EXCEPT !.ans = a],
         t.at \in {"sent", "after"} /\ WarmSumOf(a) # None
           => GrownSince(t.env, WarmSumOf(a), a.trace)
  PROVE  (JumpTaskOK(u))'
<1>1. /\ u.at = t.at /\ u.env = t.env /\ u.req = t.req /\ u.kept = t.kept /\ u.ans = a
  BY DEF TypesInv, TasksOK, TaskOK, IsTask
<1>2. AfterRequest(u) = AfterRequest(t)
  BY <1>1 DEF AfterRequest
<1>3. ASSUME u.at = "after", a # None, u.kept.points[1] # None, WarmSumOf(a) # None
      PROVE  WarmSumOf(a) - u.kept.points[1] = EventAmount * (a.trace - u.kept.points[2])
  <2>1. GrownSince(t.env, WarmSumOf(a), a.trace)
    BY <1>1, <1>3
  <2>2. GrownSince(t.env, t.kept.points[1], t.kept.points[2])
    BY <1>1, <1>3 DEF JumpTaskOK
  <2>3. recorded \in Int
    BY DEF TypesInv, DatabaseOK
  <2>4. \A w, v, q, r, now : /\ {w, v, q, r} \subseteq Int
                             /\ now = w + 5 * (recorded - q) /\ now = v + 5 * (recorded - r)
                             => w - v = 5 * (q - r)
    BY <2>3
  <2>5. CASE t.env.mode = "live"
    BY <1>1, <2>1, <2>2, <2>4, <2>5 DEF GrownSince, EventAmount
  <2>6. CASE t.env.mode # "live"
    BY <1>1, <2>1, <2>2, <2>6 DEF GrownSince, EventAmount, FixtureSum
  <2> QED  BY <2>5, <2>6
<1>4. JumpTaskOK(u)
  BY <1>1, <1>2, <1>3 DEF JumpTaskOK
<1> QED  BY <1>4, JumpTaskStays, SameGrowth

LEMMA LettingStory ==
  ASSUME TypesInv, StoryInv, NEW t \in tasks, LetThrough(t),
         UNCHANGED <<mount, view, daily, recorded>>
  PROVE  StoryInv'
<1>0. JumpTasksOK /\ JumpShownOK
  BY DEF StoryInv
<1>1. JumpShownOK'
  BY <1>0 DEF JumpShownOK, OnStory
<1> PICK u : /\ \E pass : u = [t EXCEPT !.pass = pass]
             /\ tasks' = (tasks \ {t}) \cup {u}
  BY DEF LetThrough
<1>2. /\ u.fn = t.fn /\ u.mount = t.mount /\ u.kept = t.kept /\ u.req = t.req
      /\ u.at = t.at /\ u.env = t.env /\ u.ans = t.ans
  BY DEF TypesInv, TasksOK, TaskOK, IsTask
<1>3. AfterRequest(u) = AfterRequest(t)
  BY <1>2 DEF AfterRequest
<1>4. ASSUME NEW s \in tasks', (IsSolo(s))', StepOf(s) = "reactivate"
      PROVE  (JumpTaskOK(s))'
  <2>1. JumpTaskOK(s)
    <3>1. CASE s = u
      <4>1. IsSolo(t) /\ StepOf(t) = "reactivate"
        BY <1>2, <1>4, <3>1 DEF IsSolo, StepOf, Mounted
      <4>2. JumpTaskOK(t)
        BY <1>0, <4>1 DEF JumpTasksOK
      <4> QED  BY <1>2, <1>3, <3>1, <4>2 DEF JumpTaskOK
    <3>2. CASE s \in tasks
      BY <1>0, <1>4, <3>2 DEF JumpTasksOK, IsSolo, Mounted
    <3> QED  BY <3>1, <3>2
  <2> QED  BY <2>1, JumpTaskStays, SameGrowth
<1>5. JumpTasksOK'
  BY <1>4 DEF JumpTasksOK, StepOf
<1> QED  BY <1>1, <1>2, <1>5, TaskReplaced DEF WritesRows

LEMMA ServeStory ==
  ASSUME TypesInv, StoryInv, NEW t \in tasks, Serve(t), UNCHANGED <<mount, view>>
  PROVE  StoryInv'
<1>0. JumpTasksOK /\ JumpShownOK
  BY DEF StoryInv
<1>1. JumpShownOK'
  BY <1>0 DEF JumpShownOK, OnStory
<1>2. t.req.path # "browser" /\ IsTask(t)
  BY DEF Serve, TypesInv, TasksOK, TaskOK
<1>3. ASSUME IsSolo(t), StepOf(t) = "reactivate"
      PROVE  JumpTaskOK(t) /\ t.req.op.do \in {"none", "read"}
  <2>1. JumpTaskOK(t)
    BY <1>0, <1>3 DEF JumpTasksOK
  <2> QED  BY <2>1 DEF JumpTaskOK, AfterRequest, ProduceRequest, ProcedureCall, Request, NoOp, Read
<1>4. ASSUME NEW s \in tasks, s # t, IsSolo(s)
      PROVE  t.req.op.do \in {"none", "read"}
  BY <1>4, StoryTaskAlone DEF WritesRows
<1>5. CASE t.req.op.do \in {"none", "read"}
  <2>0. CASE LetThrough(t)
    BY <1>5, <2>0, ServedReading, LettingStory
  <2> SUFFICES ASSUME ~LetThrough(t)  PROVE StoryInv'
    BY <2>0
  <2>1. PICK a : /\ Reply(t, a)
                 /\ t.req.path = "call" /\ t.req.op.do = "read" /\ WarmSumOf(a) # None
                      => WarmSumOf(a) = WarmSum(t.req.op.day) /\ a.trace = recorded
    BY <1>5, ServedReading
  <2>2. UNCHANGED <<daily, recorded>>
    BY <1>5, ServedReading
  <2> PICK u : u = [t EXCEPT !.ans = a]
    OBVIOUS
  <2>3. /\ tasks' = (tasks \ {t}) \cup {u} /\ u.fn = t.fn /\ u.mount = t.mount
        /\ u.kept = t.kept /\ u.req = t.req
    BY <1>2, <2>1 DEF Reply, IsTask
  <2>4. ASSUME IsSolo(t), StepOf(t) = "reactivate"
        PROVE  (JumpTaskOK(u))'
    <3>1. JumpTaskOK(t)
      BY <1>3, <2>4
    <3>2. ASSUME t.at \in {"sent", "after"}, WarmSumOf(a) # None
          PROVE  GrownSince(t.env, WarmSumOf(a), a.trace)
      <4>1. t.req = AfterRequest(t)
        BY <3>1, <3>2 DEF JumpTaskOK
      <4>2. t.env.mode = "live" /\ t.req.path = "call" /\ t.req.op = Read(WatchWindow)
        BY <1>2, <4>1 DEF AfterRequest, ProcedureCall, Request, Via
      <4>3. WarmSumOf(a) = WarmSum(WatchWindow) /\ a.trace = recorded
        BY <2>1, <3>2, <4>2 DEF Read
      <4>4. WarmSum(WatchWindow) \in Int /\ recorded \in Int
        <5>1. DatabaseOK /\ recorded \in Int /\ WatchWindow \in Nat
          BY StoryAssumption DEF TypesInv, DatabaseOK
        <5>2. WarmSum(WatchWindow) \in Int \cup {None}
          BY <5>1, WarmSumType
        <5> QED  BY <3>2, <4>3, <5>1, <5>2
      <4> QED  BY <4>2, <4>3, <4>4 DEF GrownSince, EventAmount
    <3> QED  BY <2>2, <3>1, <3>2, AnsweredJump
  <2>5. ASSUME NEW s \in tasks', (IsSolo(s))', StepOf(s) = "reactivate"
        PROVE  (JumpTaskOK(s))'
    <3>1. CASE s = u
      <4>1. IsSolo(t) /\ StepOf(t) = "reactivate"
        BY <2>3, <2>5, <3>1 DEF IsSolo, StepOf, Mounted
      <4> QED  BY <2>4, <3>1, <4>1
    <3>2. CASE s \in tasks
      <4>1. JumpTaskOK(s)
        BY <1>0, <2>5, <3>2 DEF JumpTasksOK, IsSolo, Mounted
      <4> QED  BY <2>2, <4>1, JumpTaskStays, SameGrowth
    <3> QED  BY <2>3, <3>1, <3>2
  <2>6. JumpTasksOK'
    BY <2>5 DEF JumpTasksOK, StepOf
  <2> QED  BY <1>1, <2>3, <2>6, TaskReplaced DEF WritesRows
<1>6. CASE t.req.op.do \notin {"none", "read"}
  <2>0. CASE LetThrough(t) /\ UNCHANGED <<daily, recorded>>
    BY <2>0, LettingStory
  <2> SUFFICES ASSUME ~ (LetThrough(t) /\ UNCHANGED <<daily, recorded>>)  PROVE StoryInv'
    BY <2>0
  <2>1. PICK a : Reply(t, a)
    BY ServeReplies
  <2> PICK u : u = [t EXCEPT !.ans = a]
    OBVIOUS
  <2>2. /\ tasks' = (tasks \ {t}) \cup {u} /\ u.fn = t.fn /\ u.mount = t.mount
        /\ u.kept = t.kept /\ u.req = t.req
    BY <1>2, <2>1 DEF Reply, IsTask
  <2>3. ASSUME NEW s \in tasks', (IsSolo(s))', StepOf(s) = "reactivate"
        PROVE  FALSE
    <3>1. CASE s = u
      BY <1>3, <1>6, <2>2, <2>3, <3>1 DEF IsSolo, StepOf, Mounted
    <3>2. CASE s \in tasks /\ s # t
      BY <1>4, <1>6, <2>3, <3>2 DEF IsSolo, Mounted
    <3> QED  BY <2>2, <3>1, <3>2
  <2>4. JumpTasksOK'
    BY <2>3 DEF JumpTasksOK, StepOf
  <2> QED  BY <1>1, <2>2, <2>4, TaskReplaced DEF WritesRows
<1> QED  BY <1>5, <1>6


LEMMA FixturesStory ==
  ASSUME TypesInv, StoryInv, NEW t \in tasks, AnswerFromFixtures(t)
  PROVE  StoryInv'
<1>0. JumpTasksOK /\ JumpShownOK /\ UNCHANGED <<daily, recorded, mount, view>>
  BY DEF StoryInv, AnswerFromFixtures, serverVars, database
<1>1. JumpShownOK'
  BY <1>0 DEF JumpShownOK, OnStory
<1>2. t.req.path = "browser" /\ IsTask(t)
  BY DEF AnswerFromFixtures, TypesInv, TasksOK, TaskOK
<1> PICK a : a = [Answer(FixtureSum) EXCEPT !.ok = MockAllows(t)]
  OBVIOUS
<1> PICK u : u = [t EXCEPT !.ans = a]
  OBVIOUS
<1>3. a.value = FixtureSum /\ a.trace = 0
  BY DEF Answer
<1>4. /\ tasks' = (tasks \ {t}) \cup {u} /\ u.fn = t.fn /\ u.mount = t.mount
      /\ u.kept = t.kept /\ u.req = t.req
  BY <1>2 DEF AnswerFromFixtures, Reply, IsTask
<1>5. ASSUME IsSolo(t), StepOf(t) = "reactivate"
      PROVE  (JumpTaskOK(u))'
  <2>1. JumpTaskOK(t)
    BY <1>0, <1>5 DEF JumpTasksOK
  <2>2. ASSUME t.at \in {"sent", "after"}, WarmSumOf(a) # None
        PROVE  GrownSince(t.env, WarmSumOf(a), a.trace)
    <3>1. t.req = AfterRequest(t)
      BY <2>1, <2>2 DEF JumpTaskOK
    <3>2. t.env.mode # "live"
      BY <1>2, <3>1 DEF AfterRequest, ProcedureCall, Request, Via
    <3> QED  BY <1>3, <2>2, <3>2 DEF GrownSince, WarmSumOf, FixtureSum
  <2> QED  BY <1>0, <2>1, <2>2, AnsweredJump
<1>6. ASSUME NEW s \in tasks', (IsSolo(s))', StepOf(s) = "reactivate"
      PROVE  (JumpTaskOK(s))'
  <2>1. CASE s = u
    <3>1. IsSolo(t) /\ StepOf(t) = "reactivate"
      BY <1>0, <1>4, <1>6, <2>1 DEF IsSolo, StepOf, Mounted
    <3> QED  BY <1>5, <2>1, <3>1
  <2>2. CASE s \in tasks
    <3>1. JumpTaskOK(s)
      BY <1>0, <1>6, <2>2 DEF JumpTasksOK, IsSolo, Mounted
    <3> QED  BY <1>0, <3>1, JumpTaskStays, SameGrowth
  <2> QED  BY <1>4, <2>1, <2>2
<1>7. JumpTasksOK'
  BY <1>6 DEF JumpTasksOK, StepOf
<1> QED  BY <1>0, <1>1, <1>4, <1>7, TaskReplaced DEF WritesRows

(* The server between two answers.                                          *)
LEMMA ServerStory ==
  ASSUME TypesInv, StoryInv, ServerNext, UNCHANGED <<mount, view>>
  PROVE  StoryInv'
<1>1. ASSUME NEW t \in tasks, Serve(t)
      PROVE  StoryInv'
  BY <1>1, ServeStory
<1>2. CASE RecordEvent
  <2>1. UNCHANGED tasks
    BY <1>2 DEF RecordEvent
  <2>2. PlacesOK' /\ SoloInv' /\ JumpShownOK'
    BY <2>1 DEF StoryInv, PlacesOK, SoloInv, JumpShownOK, WritesRows, IsSolo, OnStory, Mounted
  <2>3. ASSUME NEW s \in tasks, IsSolo(s), StepOf(s) = "reactivate"
        PROVE  (JumpTaskOK(s))'
    <3>1. JumpTaskOK(s)
      BY <2>3 DEF StoryInv, JumpTasksOK
    <3> QED  BY <1>2, <3>1, JumpTaskStays, EventGrows
  <2>4. JumpTasksOK'
    BY <2>1, <2>3 DEF JumpTasksOK, StepOf, IsSolo, Mounted
  <2> QED  BY <2>2, <2>4 DEF StoryInv
<1>3. ASSUME UNCHANGED <<daily, recorded, tasks>>
      PROVE  StoryInv'
  <2>1. KeepsStory(view') /\ Aloof(tasks')
    BY <1>3, StoryHasFields, SameAloof
  <2> QED  BY <1>3, <2>1, ElsewhereStep DEF Elsewhere
<1>4. (\E token \in DOMAIN tokens : Expire(token)) \/ RestartServer \/ EndReset
        => UNCHANGED <<daily, recorded, tasks>>
  BY DEF Expire, RestartServer, EndReset, database
<1> QED  BY <1>1, <1>2, <1>3, <1>4 DEF ServerNext


(* What a script may show of its jump.                                      *)
Shows(new) ==
  /\ new.page = view.page
  /\ OnStory => /\ DOMAIN new = DOMAIN view
                /\ new.jump # None => new.jump = view.jump \/ JumpOK(new.jump)

LEMMA ShownStays ==
  ASSUME StoryInv, Shows(view')
  PROVE  JumpShownOK'
<1>1. JumpShownOK /\ (OnStory' => OnStory)
  BY DEF StoryInv, Shows, OnStory
<1> QED  BY <1>1 DEF JumpShownOK, Shows, JumpOK

LEMMA FinishStory ==
  ASSUME TypesInv, StoryInv, NEW t \in tasks, t.fn = "story", UNCHANGED mount,
         NEW new, Finish(t, new), Mounted(t) => Shows(new)
  PROVE  StoryInv'
<1>1. Shows(view)
  BY DEF Shows
<1>2. (Mounted(t) /\ view' = [new EXCEPT !.busy = FALSE]) \/ view' = view
  BY DEF Finish, SetView
<1>3. CASE Mounted(t) /\ view' = [new EXCEPT !.busy = FALSE]
  <2>0. Shows(new)
    BY <1>3
  <2>1. view'.page = view.page
    BY <1>3, <2>0 DEF Shows
  <2>2. OnStory => DOMAIN view' = DOMAIN view /\ view'.jump = new.jump
    BY <1>3, <2>0 DEF Shows
  <2>3. Shows(view')
    BY <2>0, <2>1, <2>2 DEF Shows
  <2> QED  BY <2>1, <2>3, ShownStays, ScriptEnds DEF Finish
<1>4. CASE view' = view
  BY <1>1, <1>4, ShownStays, ScriptEnds DEF Finish
<1> QED  BY <1>2, <1>3, <1>4

LEMMA SendsTask ==
  ASSUME TypesInv, NEW t \in tasks, NEW at, NEW req, NEW kept, Sends(t, at, req, kept)
  PROVE  \E u : /\ tasks' = (tasks \ {t}) \cup {u}
                /\ u.fn = t.fn /\ u.mount = t.mount /\ u.env = t.env
                /\ u.at = at /\ u.req = req /\ u.ans = None /\ u.kept = kept
<1> PICK u : u = [t EXCEPT !.at = at, !.req = req, !.pass = "no", !.ans = None, !.kept = kept]
  OBVIOUS
<1>1. IsTask(t) /\ tasks' = (tasks \ {t}) \cup {u}
  BY DEF Sends, TypesInv, TasksOK, TaskOK
<1>2. /\ u.fn = t.fn /\ u.mount = t.mount /\ u.env = t.env
      /\ u.at = at /\ u.req = req /\ u.ans = None /\ u.kept = kept
  BY <1>1 DEF IsTask
<1> QED  BY <1>1, <1>2

LEMMA SendsStory ==
  ASSUME TypesInv, StoryInv, NEW t \in tasks, t.fn = "story", UNCHANGED mount,
         NEW u, tasks' = (tasks \ {t}) \cup {u},
         u.fn = t.fn, u.mount = t.mount, u.kept.number = t.kept.number,
         IsSolo(t) /\ StepOf(u) = "reactivate" => (JumpTaskOK(u))',
         Shows(view'), OnStory => view'.busy = view.busy
  PROVE  StoryInv'
<1>1. WritesRows(t)
  BY DEF WritesRows
<1>2. ASSUME NEW s \in tasks', (IsSolo(s))', StepOf(s) = "reactivate"
      PROVE  (JumpTaskOK(s))'
  <2>1. CASE s = u
    BY <1>2, <2>1 DEF IsSolo, Mounted
  <2>2. CASE s \in tasks /\ s # t
    BY <1>1, <1>2, <2>2, StoryTaskAlone DEF IsSolo, Mounted
  <2> QED  BY <2>1, <2>2
<1>3. JumpTasksOK'
  BY <1>2 DEF JumpTasksOK, StepOf
<1>4. JumpShownOK' /\ view'.page = view.page
  BY ShownStays DEF Shows
<1> QED  BY <1>1, <1>3, <1>4, TaskReplaced

LEMMA ProceedStory ==
  ASSUME TypesInv, StoryInv, NEW t \in tasks, t.fn = "story", UNCHANGED mount,
         StepOf(t) # "reactivate", NEW new, Proceed(t, new), Shows(new)
  PROVE  StoryInv'
<1> PICK kept : kept = [t.kept EXCEPT !.left = Tail(@)]
  OBVIOUS
<1>1. kept.number = t.kept.number /\ kept.texts = t.kept.texts
  BY DEF TypesInv, TasksOK, TaskOK, KeptOK, IsKept
<1>2. CASE Finish(t, new)
  BY <1>2, FinishStory
<1>3. ASSUME UNCHANGED view, NEW req, Sends(t, "sent", req, kept)
      PROVE  StoryInv'
  <2>1. PICK u : /\ tasks' = (tasks \ {t}) \cup {u}
                 /\ u.fn = t.fn /\ u.mount = t.mount /\ u.kept = kept
    BY <1>3, SendsTask
  <2>2. StepOf(u) # "reactivate" /\ u.kept.number = t.kept.number
    BY <1>1, <2>1 DEF StepOf
  <2>3. Shows(view') /\ view'.busy = view.busy
    BY <1>3 DEF Shows
  <2> QED  BY <2>1, <2>2, <2>3, SendsStory
<1> QED  BY <1>2, <1>3 DEF Proceed

LEMMA StatementsStory ==
  ASSUME TypesInv, StoryInv, NEW t \in tasks, EndStatements(t) \/ EndReading(t)
  PROVE  StoryInv'
<1>1. t.fn = "story" /\ UNCHANGED mount /\ StepOf(t) # "reactivate"
  BY DEF EndStatements, EndReading, InStory, Resumes, StepOf, Unchanged
<1>2. Shows(view)
  BY DEF Shows
<1>3. Shows([view EXCEPT !.jump = None])
  BY DEF Shows, StoryInv, JumpShownOK, OnStory
<1>4. \E new \in {view, [view EXCEPT !.jump = None]} : Proceed(t, new) \/ Finish(t, new)
  BY DEF EndStatements, EndReading
<1> QED  BY <1>1, <1>2, <1>3, <1>4, ProceedStory, FinishStory


(* The reading before is kept with what was recorded by then.               *)
LEMMA BeforeStory ==
  ASSUME TypesInv, StoryInv, NEW t \in tasks, EndBefore(t)
  PROVE  StoryInv'
<1> DEFINE before == WarmSumOf(t.ans)
<1> PICK kept : kept = [t.kept EXCEPT !.points = <<before, t.ans.trace>>]
  OBVIOUS
<1> PICK jump : jump = [before |-> before, after |-> None, alone |-> t.kept.number = 1, grew |-> 0]
  OBVIOUS
<1>1. /\ t.fn = "story" /\ t.at = "sent" /\ StepOf(t) = "reactivate" /\ t.ans # None
      /\ UNCHANGED <<mount, daily, recorded>>
      /\ SetView(t, [view EXCEPT !.jump = jump])
  BY DEF EndBefore, InStory, Resumes, StepOf, Unchanged, serverVars, database
<1>2. /\ kept.points = <<before, t.ans.trace>> /\ kept.number = t.kept.number
  BY DEF TypesInv, TasksOK, TaskOK, KeptOK, IsKept
<1>3. jump.after = None
  OBVIOUS
<1>4. Shows(view') /\ (OnStory => view'.busy = view.busy)
  <2>1. JumpOK(jump)
    BY <1>3 DEF JumpOK
  <2>2. OnStory => {"busy", "jump"} \subseteq DOMAIN view
    BY DEF StoryInv, JumpShownOK
  <2>3. "page" \in DOMAIN view
    BY DEF TypesInv, PageOK
  <2> QED  BY <1>1, <2>1, <2>2, <2>3 DEF Shows, SetView
<1>5. PICK at, req : /\ Sends(t, at, req, kept)
                     /\ \/ at = "produce" /\ req = ProduceRequest(t.env) /\ t.env.mode = "live"
                        \/ at = "after" /\ req = AfterRequest(t)
  BY DEF EndBefore
<1>6. PICK u : /\ tasks' = (tasks \ {t}) \cup {u}
               /\ u.fn = t.fn /\ u.mount = t.mount /\ u.env = t.env
               /\ u.at = at /\ u.req = req /\ u.ans = None /\ u.kept = kept
  BY <1>5, SendsTask
<1>7. ASSUME IsSolo(t)
      PROVE  (JumpTaskOK(u))'
  <2>1. JumpTaskOK(t)
    BY <1>1, <1>7 DEF StoryInv, JumpTasksOK
  <2>2. before # None => GrownSince(t.env, before, t.ans.trace)
    BY <1>1, <2>1 DEF JumpTaskOK
  <2>3. AfterRequest(u) = AfterRequest(t)
    BY <1>6 DEF AfterRequest
  <2>4. JumpTaskOK(u)
    BY <1>2, <1>5, <1>6, <2>2, <2>3 DEF JumpTaskOK
  <2> QED  BY <1>1, <2>4, JumpTaskStays, SameGrowth
<1> QED  BY <1>1, <1>2, <1>4, <1>6, <1>7, SendsStory

LEMMA ProduceStory ==
  ASSUME TypesInv, StoryInv, NEW t \in tasks, EndProduce(t)
  PROVE  StoryInv'
<1>1. /\ t.fn = "story" /\ t.at = "produce" /\ StepOf(t) = "reactivate"
      /\ UNCHANGED <<mount, daily, recorded>>
  BY DEF EndProduce, InStory, Resumes, StepOf, Unchanged, serverVars, database
<1>2. Shows(view)
  BY DEF Shows
<1>3. CASE Finish(t, view)
  BY <1>1, <1>2, <1>3, FinishStory
<1>4. CASE Sends(t, "after", AfterRequest(t), t.kept) /\ UNCHANGED view
  <2>1. PICK u : /\ tasks' = (tasks \ {t}) \cup {u}
                 /\ u.fn = t.fn /\ u.mount = t.mount /\ u.env = t.env
                 /\ u.at = "after" /\ u.req = AfterRequest(t) /\ u.ans = None /\ u.kept = t.kept
    BY <1>4, SendsTask
  <2>2. ASSUME IsSolo(t)
        PROVE  (JumpTaskOK(u))'
    <3>1. JumpTaskOK(t)
      BY <1>1, <2>2 DEF StoryInv, JumpTasksOK
    <3>2. AfterRequest(u) = AfterRequest(t)
      BY <2>1 DEF AfterRequest
    <3>3. JumpTaskOK(u)
      BY <1>1, <2>1, <3>1, <3>2 DEF JumpTaskOK
    <3> QED  BY <1>1, <3>3, JumpTaskStays, SameGrowth
  <2>3. Shows(view') /\ view'.busy = view.busy
    BY <1>2, <1>4 DEF Shows
  <2> QED  BY <1>1, <2>1, <2>2, <2>3, SendsStory
<1> QED  BY <1>3, <1>4 DEF EndProduce

(* Between the two readings the window has grown by the events recorded.    *)
LEMMA AfterStory ==
  ASSUME TypesInv, StoryInv, NEW t \in tasks, EndAfter(t)
  PROVE  StoryInv'
<1> DEFINE before == t.kept.points[1]
           after  == WarmSumOf(t.ans)
<1> PICK jump : jump = [before |-> before, after |-> after, alone |-> t.kept.number = 1,
                        grew |-> t.ans.trace - t.kept.points[2]]
  OBVIOUS
<1>1. /\ t.fn = "story" /\ t.at = "after" /\ StepOf(t) = "reactivate" /\ t.ans # None
      /\ UNCHANGED mount
      /\ Finish(t, [view EXCEPT !.jump = jump])
  BY DEF EndAfter, InStory, Resumes, StepOf, Unchanged
<1>2. ASSUME Mounted(t)
      PROVE  JumpOK(jump)
  <2>1. SUFFICES ASSUME t.kept.number = 1, before # None, after # None
                 PROVE  /\ {before, after, t.ans.trace - t.kept.points[2]} \subseteq Int
                        /\ after - before = EventAmount * (t.ans.trace - t.kept.points[2])
    BY DEF JumpOK
  <2>2. JumpTaskOK(t)
    BY <1>1, <1>2, <2>1 DEF StoryInv, JumpTasksOK, IsSolo
  <2>3. before \in Int /\ t.kept.points[2] \in Int
    BY <1>1, <2>1, <2>2 DEF JumpTaskOK, GrownSince
  <2>4. t.ans \in AnswerType
    BY <1>1 DEF TypesInv, TasksOK, TaskOK, AnswerOK
  <2>5. after \in Int /\ t.ans.trace \in Int
    BY <2>1, <2>4 DEF AnswerType, WarmSumOf
  <2>6. after - before = EventAmount * (t.ans.trace - t.kept.points[2])
    BY <1>1, <2>1, <2>2 DEF JumpTaskOK
  <2> QED  BY <2>3, <2>5, <2>6
<1>3. Mounted(t) => Shows([view EXCEPT !.jump = jump])
  <2>1. OnStory => {"busy", "jump"} \subseteq DOMAIN view
    BY DEF StoryInv, JumpShownOK
  <2>2. "page" \in DOMAIN view
    BY DEF TypesInv, PageOK
  <2> QED  BY <1>2, <2>1, <2>2 DEF Shows
<1> HIDE DEF before, after
<1> QED  BY <1>1, <1>3, FinishStory

(* A script that begins while no other is under way begins alone.           *)
LEMMA ExecuteStory ==
  ASSUME TypesInv, StoryInv, NEW step, Execute(step)
  PROVE  StoryInv'
<1>0. PlacesOK /\ SoloInv /\ JumpShownOK
  BY DEF StoryInv
<1>1. /\ OnStory /\ ~view.busy /\ UNCHANGED <<mount, daily, recorded>>
      /\ view' = [view EXCEPT !.busy = TRUE, !.scripts = @ + 1]
  BY DEF Execute, MayExecute, Unchanged, serverVars, database
<1> DEFINE alone  == \A t \in tasks : t.fn \notin {"story", "gone"}
           number == IF alone THEN 1 ELSE 0
<1>a. BeginCall("story", CallRequest(Captured, step, Head(Script(step))),
                [NothingKept EXCEPT !.texts = <<step>>, !.left = Script(step),
                                    !.number = number])
  BY Zenon DEF Execute
<1>b. number = 1 => alone
  OBVIOUS
<1> HIDE DEF alone, number
<1> PICK kept : kept = [NothingKept EXCEPT !.texts = <<step>>, !.left = Script(step),
                                           !.number = number]
  OBVIOUS
<1> PICK req : req = CallRequest(Captured, step, Head(Script(step)))
  OBVIOUS
<1> PICK id : id = FreeId
  OBVIOUS
<1> PICK new : new = [id |-> id, fn |-> "story", at |-> "sent", mount |-> mount,
                      env |-> Captured, req |-> req, pass |-> "no", ans |-> None,
                      kept |-> kept]
  OBVIOUS
<1>2. tasks' = tasks \cup {new}
  BY <1>a DEF BeginCall, BeginAmong
<1>3. /\ new.fn = "story" /\ new.at = "sent" /\ new.env = Captured /\ new.req = req
      /\ new.ans = None /\ new.kept = kept
  OBVIOUS
<1>4. kept.texts = <<step>> /\ (kept.number = 1 => alone)
  BY <1>b DEF NothingKept
<1>5. OnStory' /\ view'.busy = TRUE /\ view'.jump = view.jump /\ DOMAIN view' = DOMAIN view
  BY <1>0, <1>1 DEF JumpShownOK, OnStory, TypesInv, PageOK
<1>6. PlacesOK'
  BY <1>0, <1>1, <1>2, <1>3 DEF PlacesOK, BusyFns, Mounted
<1>7. ASSUME NEW s \in tasks', (IsSolo(s))'
      PROVE  s = new
  <2>1. s \in tasks => IsSolo(s)
    BY <1>1, <1>7 DEF IsSolo, Mounted
  <2> QED  BY <1>0, <1>1, <1>2, <2>1 DEF SoloInv
<1>8. ASSUME (IsSolo(new))', NEW u \in tasks, WritesRows(u)
      PROVE  FALSE
  <2>1. alone
    BY <1>3, <1>4, <1>8 DEF IsSolo
  <2> QED  BY <1>0, <1>8, <2>1 DEF PlacesOK, WritesRows, alone
<1>9. SoloInv'
  BY <1>2, <1>5, <1>7, <1>8 DEF SoloInv, WritesRows
<1>10. ASSUME StepOf(new) = "reactivate"
       PROVE  (JumpTaskOK(new))'
  <2>a. new.kept.texts[1] = "reactivate"
    BY <1>10 DEF StepOf
  <2>1. step = "reactivate"
    BY ONLY <1>3, <1>4, <2>a
  <2>2. req = ProcedureCall(Captured, "GetRollingFeatures", Read(WatchWindow))
    BY <2>1 DEF CallRequest, Script, Read
  <2>3. new.req = AfterRequest(new)
    BY <1>3, <2>2 DEF AfterRequest
  <2>4. JumpTaskOK(new)
    BY <1>3, <2>3 DEF JumpTaskOK
  <2> QED  BY <1>1, <2>4, JumpTaskStays, SameGrowth
<1>11. JumpTasksOK'
  BY <1>7, <1>10 DEF JumpTasksOK, StepOf
<1>12. JumpShownOK'
  BY <1>0, <1>1, <1>5 DEF JumpShownOK, JumpOK
<1> QED  BY <1>6, <1>9, <1>11, <1>12 DEF StoryInv


(* A page as it is mounted shows no jump, and no script is its own.         *)
Unjumped(v) ==
  v.page = "story" => {"busy", "jump"} \subseteq DOMAIN v /\ v.jump = None

LEMMA ViewsAreUnjumped ==
  ASSUME NEW page, NEW texts, NEW v \in Views(page, texts)
  PROVE  Unjumped(v)
<1>1. \E s : v \in {SettingsView, StoryView, ControlView, [page |-> "hygiene"],
                    SqlView(s), ExplorerView(s), RunbookView(s), ProceduresView(s)}
  BY DEF Views
<1> QED  BY <1>1 DEF Unjumped, SettingsView, SqlView, StoryView, ControlView, ExplorerView,
                     RunbookView, ProceduresView

LEMMA ReloadLeaves ==
  ASSUME TypesInv, Reload
  PROVE  \A u \in tasks' : u.fn = "gone"
<1> DEFINE S == {u \in tasks : Served(u)}
           f(t) == [t EXCEPT !.fn = "gone", !.at = "sent", !.env = NoOptions,
                             !.kept = NothingKept]
<1>1. tasks' = {f(t) : t \in S}
  BY Zenon DEF Reload
<1>2. \A t \in tasks : IsTask(t)
  BY DEF TypesInv, TasksOK, TaskOK
<1>3. \A t \in tasks : f(t).fn = "gone"
  BY ONLY <1>2 DEF IsTask
<1>4. S \subseteq tasks
  OBVIOUS
<1> HIDE DEF S, f
<1> QED  BY <1>1, <1>3, <1>4

LEMMA MountedStory ==
  ASSUME TypesInv, WatchInv, StoryInv, Navigate \/ Reload
  PROVE  StoryInv'
<1>1. /\ mount' = mount + 1 /\ \E page, texts : view' \in Views(page, texts)
      /\ \A u \in tasks' : \E t \in tasks : u.mount = t.mount
      /\ \A u \in tasks' : u \in tasks \/ u.fn = "gone"
  <2>1. CASE Navigate
    BY ONLY <2>1 DEF Navigate
  <2>2. CASE Reload
    BY <2>2, ReloadMounts, ReloadLeaves
  <2> QED  BY <2>1, <2>2
<1>2. Unjumped(view')
  BY <1>1, ViewsAreUnjumped
<1>3. \A u \in tasks' : u.mount # mount'
  BY <1>1 DEF WatchInv, MountsOK
<1>4. \A u \in tasks' : ~(IsSolo(u))'
  BY <1>3 DEF IsSolo, Mounted
<1>5. PlacesOK'
  BY <1>1, <1>3 DEF StoryInv, PlacesOK, Mounted
<1>6. SoloInv' /\ JumpTasksOK' /\ JumpShownOK'
  BY <1>2, <1>4 DEF SoloInv, JumpTasksOK, JumpShownOK, Unjumped, OnStory
<1> QED  BY <1>5, <1>6 DEF StoryInv

LEMMA StoryAlways == Spec => []StoryInv
<1>1. ASSUME Init  PROVE StoryInv
  <2>1. tasks = {} /\ \E page, texts : view \in Views(page, texts)
    BY <1>1 DEF Init, ServerInit
  <2>2. Unjumped(view)
    BY <2>1, ViewsAreUnjumped
  <2> QED  BY <2>1, <2>2 DEF StoryInv, PlacesOK, SoloInv, JumpTasksOK, JumpShownOK, Unjumped, OnStory
<1>2. ASSUME TypesInv, WatchInv, StoryInv, [Next]_vars
      PROVE  StoryInv'
  <2>1. CASE Navigate \/ Reload
    BY <1>2, <2>1, MountedStory
  <2>2. CASE ServerNext /\ UNCHANGED <<mount, view>>
    BY <1>2, <2>2, ServerStory
  <2>3. ASSUME NEW t \in tasks, AnswerFromFixtures(t)
        PROVE  StoryInv'
    BY <1>2, <2>3, FixturesStory
  <2>4. ASSUME StoryNext, ~StoryUnlock
        PROVE  StoryInv'
    BY <1>2, <2>4, ExecuteStory, StatementsStory, BeforeStory, ProduceStory, AfterStory DEF StoryNext
  <2>5. CASE ~StoryStep /\ ~Navigate /\ ~Reload
    BY <1>2, <2>5, MostStepsAreElsewhere, ElsewhereStep
  <2> QED  BY <1>2, <2>1, <2>2, <2>3, <2>4, <2>5 DEF StoryStep
<1> QED  BY <1>1, <1>2, TypesAlways, WatchAlways, PTL DEF Spec

(* Where the page says "exactly the event" of a script that ran alone, one  *)
(* event was recorded between its two readings (the fifth step of           *)
(* pages/DecayStory.tsx), whatever events of earlier pages and sessions     *)
(* were still on their way, and whichever answers were lost.                *)
THEOREM JumpsAreEarned == Spec => []TickIsEarned
<1>1. ASSUME StoryInv  PROVE TickIsEarned
  <2> SUFFICES ASSUME OnStory, view.jump # None, ExactlyTheEvent(view.jump), view.jump.alone
               PROVE  view.jump.grew = 1
    BY DEF TickIsEarned
  <2> DEFINE jump == view.jump
  <2>1. JumpOK(jump)
    BY <1>1 DEF StoryInv, JumpShownOK
  <2> HIDE DEF jump
  <2>2. /\ jump.before # None /\ jump.after # None /\ jump.after - jump.before = 5 /\ jump.alone
    BY DEF ExactlyTheEvent, EventAmount, jump
  <2>3. jump.grew \in Int /\ 5 = 5 * jump.grew
    BY <2>1, <2>2 DEF JumpOK, EventAmount
  <2> QED  BY <2>3 DEF jump
<1> QED  BY <1>1, StoryAlways, PTL

----------------------------------------------------------------------------
(* The tail of the dead-letter topic *)

(* Numbers that differ, by place: the one that comes i-th has the i-th rank *)
(* from the top.                                                            *)
Sorted(times) == [i \in DOMAIN times |-> times[CHOOSE k \in DOMAIN times : Place(times, k) = i]]

LEMMA OneUpTo ==
  ASSUME NEW n \in Nat
  PROVE  IsFiniteSet(1 .. n) /\ Cardinality(1 .. n) = n
BY FS_Interval

LEMMA NumbersOf ==
  ASSUME NEW a \in Seq(Int), IsInjective(a), NEW R, R = {a[j] : j \in DOMAIN a}
  PROVE  /\ IsFiniteSet(R) /\ R \in SUBSET Int /\ Cardinality(R) = Len(a)
         /\ Len(a) \in Nat /\ DOMAIN a = 1 .. Len(a) /\ \A j \in DOMAIN a : a[j] \in Int
<1>1. Len(a) \in Nat /\ DOMAIN a = 1 .. Len(a) /\ \A j \in DOMAIN a : a[j] \in Int
  BY LenProperties, ElementOfSeq
<1>2. IsFiniteSet(DOMAIN a) /\ Cardinality(DOMAIN a) = Len(a)
  BY <1>1, OneUpTo
<1>3. a \in Surjection(DOMAIN a, R) /\ a \in Injection(DOMAIN a, R)
  BY <1>1 DEF Surjection, Injection, IsInjective
<1>4. IsFiniteSet(R) /\ Cardinality(R) = Cardinality(DOMAIN a)
  BY <1>2, <1>3, FS_Surjection
<1> QED  BY <1>1, <1>2, <1>4

LEMMA PlaceIsRank ==
  ASSUME NEW a \in Seq(Int), IsInjective(a), NEW R, R = {a[j] : j \in DOMAIN a},
         NEW k \in DOMAIN a
  PROVE  Place(a, k) = Len(a) + 1 - Rank(R, a[k])
<1>1. Len(a) \in Nat /\ DOMAIN a = 1 .. Len(a) /\ \A j \in DOMAIN a : a[j] \in Int
  BY NumbersOf
<1>2. IsFiniteSet(DOMAIN a)
  BY <1>1, OneUpTo
<1>3. IsFiniteSet(R) /\ R \in SUBSET Int /\ Cardinality(R) = Len(a)
  BY NumbersOf
<1>4. PICK J, V : /\ J = {j \in DOMAIN a : a[j] > a[k] \/ (a[j] = a[k] /\ j < k)}
                  /\ V = {v \in R : v > a[k]}
  OBVIOUS
<1>5. Cardinality(J) = Cardinality(V) /\ IsFiniteSet(J)
  <2>1. J = {j \in DOMAIN a : a[j] > a[k]}
    <3>1. \A j \in DOMAIN a : ~(a[j] = a[k] /\ j < k)
      BY <1>1 DEF IsInjective
    <3> QED  BY <1>4, <3>1
  <2>2. IsFiniteSet(J)
    BY <1>2, <1>4, FS_Subset
  <2>3. PICK g : g = [j \in J |-> a[j]]
    OBVIOUS
  <2>4. \A i, j \in J : g[i] = g[j] => i = j
    BY <2>1, <2>3 DEF IsInjective
  <2>5. g \in [J -> V] /\ \A v \in V : \E j \in J : g[j] = v
    BY <1>4, <2>1, <2>3
  <2>6. g \in Surjection(J, V) /\ g \in Injection(J, V)
    BY <2>4, <2>5 DEF Surjection, Injection, IsInjective
  <2> QED  BY <2>2, <2>6, FS_Surjection
<1>6. Cardinality(V) = Cardinality(R) - Rank(R, a[k])
  <2>1. PICK W : W = {v \in R : v <= a[k]}
    OBVIOUS
  <2>2. V = R \ W /\ R \cap W = W
    <3>1. \A v \in R : v > a[k] <=> ~(v <= a[k])
      BY <1>1, <1>3
    <3> QED  BY <1>4, <2>1, <3>1
  <2>3. Cardinality(R \ W) = Cardinality(R) - Cardinality(R \cap W)
    BY <1>3, FS_Difference
  <2> QED  BY <2>1, <2>2, <2>3 DEF Rank
<1>7. Place(a, k) = 1 + Cardinality(J)
  BY <1>4 DEF Place
<1>8. Rank(R, a[k]) \in 0 .. Cardinality(R)
  <2>1. PICK x \in Int : x = a[k]
    BY <1>1
  <2>2. Rank(R, x) \in 0 .. Cardinality(R)
    BY <1>3, RankIsNumber
  <2> QED  BY <2>1, <2>2
<1>9. PICK l, r, n, c : /\ l = Len(a) /\ r = Rank(R, a[k])
                        /\ n = Cardinality(J) /\ c = Cardinality(V)
  OBVIOUS
<1>10. l \in Nat /\ r \in Nat /\ n = c /\ c = l - r /\ Place(a, k) = 1 + n
  <2>1. l = Cardinality(R)
    BY <1>3, <1>9
  <2>2. r \in 0 .. l
    BY <1>8, <1>9, <2>1
  <2>3. c = l - r
    BY <1>6, <1>9, <2>1
  <2> QED  BY <1>1, <1>5, <1>7, <1>9, <2>2, <2>3
<1>11. Place(a, k) = l + 1 - r
  BY ONLY <1>10
<1> QED  BY <1>9, <1>11

LEMMA SortedByRank ==
  ASSUME NEW a \in Seq(Int), IsInjective(a), NEW R, R = {a[j] : j \in DOMAIN a},
         NEW i \in DOMAIN a
  PROVE  Sorted(a)[i] \in R /\ Rank(R, Sorted(a)[i]) = Len(a) + 1 - i
<1>1. Len(a) \in Nat /\ DOMAIN a = 1 .. Len(a) /\ i \in 1 .. Len(a)
  BY LenProperties
<1>2. IsFiniteSet(R) /\ R \in SUBSET Int /\ Cardinality(R) = Len(a)
  BY NumbersOf
<1>0. PICK l, n : l = Len(a) /\ n = l + 1 - i
  OBVIOUS
<1>3. n \in 1 .. Cardinality(R) /\ i = l + 1 - n
  <2>1. l \in Nat /\ i \in 1 .. l /\ l = Cardinality(R)
    BY <1>0, <1>1, <1>2
  <2>2. n \in 1 .. l /\ i = l + 1 - n
    BY ONLY <1>0, <2>1
  <2> QED  BY <2>1, <2>2
<1>4. PICK v \in R : Rank(R, v) = n
  BY ONLY <1>2, <1>3, RanksAreAll
<1>5. PICK k \in DOMAIN a : v = a[k]
  OBVIOUS
<1>6. Place(a, k) = i
  <2>1. Place(a, k) = Len(a) + 1 - n
    BY <1>4, <1>5, PlaceIsRank
  <2> QED  BY <1>0, <1>3, <2>1
<1>7. PICK m \in DOMAIN a : m = (CHOOSE j \in DOMAIN a : Place(a, j) = i) /\ Place(a, m) = i
  BY <1>6
<1>8. Sorted(a)[i] = a[m]
  BY <1>7 DEF Sorted
<1>9. Rank(R, a[m]) = Len(a) + 1 - i
  <2>1. i = Len(a) + 1 - Rank(R, a[m])
    BY <1>7, PlaceIsRank
  <2>2. PICK x \in Int : x = a[m]
    BY NumbersOf
  <2>3. Rank(R, x) \in 0 .. Cardinality(R)
    BY <1>2, RankIsNumber
  <2>4. PICK r : r = Rank(R, a[m])
    OBVIOUS
  <2>5. l \in Nat /\ i \in Nat /\ r \in 0 .. l /\ i = l + 1 - r
    <3>1. l \in Nat /\ i \in Nat
      BY <1>0, <1>1
    <3>2. i = l + 1 - r
      BY <1>0, <2>1, <2>4
    <3>3. r = Rank(R, x) /\ l = Cardinality(R)
      BY <1>0, <1>2, <2>2, <2>4
    <3>4. r \in 0 .. l
      BY <2>3, <3>3
    <3> QED  BY <3>1, <3>2, <3>4
  <2>6. r = l + 1 - i
    BY ONLY <2>5
  <2> QED  BY <1>0, <2>4, <2>6
<1> QED  BY <1>8, <1>9

(* Sequences of the same numbers are sorted alike.                          *)
LEMMA SortedAlike ==
  ASSUME NEW a \in Seq(Int), IsInjective(a), NEW b \in Seq(Int), IsInjective(b),
         {a[j] : j \in DOMAIN a} = {b[j] : j \in DOMAIN b}
  PROVE  NewestFirst(a) = NewestFirst(b)
<1>1. PICK R : R = {a[j] : j \in DOMAIN a} /\ R = {b[j] : j \in DOMAIN b}
  OBVIOUS
<1>2. Len(a) \in Nat /\ DOMAIN a = 1 .. Len(a) /\ Len(b) \in Nat /\ DOMAIN b = 1 .. Len(b)
  BY LenProperties
<1>3. Len(a) = Len(b) /\ IsFiniteSet(R) /\ R \in SUBSET Int
  BY <1>1, NumbersOf
<1>4. ASSUME NEW i \in DOMAIN a PROVE Sorted(a)[i] = Sorted(b)[i]
  <2>1. Sorted(a)[i] \in R /\ Rank(R, Sorted(a)[i]) = Len(a) + 1 - i
    BY <1>1, SortedByRank
  <2>2. Sorted(b)[i] \in R /\ Rank(R, Sorted(b)[i]) = Len(a) + 1 - i
    BY <1>1, <1>2, <1>3, SortedByRank
  <2>3. PICK x, y : x = Sorted(a)[i] /\ y = Sorted(b)[i]
    OBVIOUS
  <2>4. x \in R /\ y \in R /\ Rank(R, x) = Rank(R, y)
    BY <2>1, <2>2, <2>3
  <2>5. x = y
    BY ONLY <1>3, <2>4, RankIsOwn
  <2> QED  BY <2>3, <2>5
<1>5. PICK s, t : s = Sorted(a) /\ t = Sorted(b)
  OBVIOUS
<1>6. DOMAIN s = DOMAIN t /\ s = [i \in DOMAIN a |-> s[i]] /\ t = [i \in DOMAIN a |-> t[i]]
  BY <1>2, <1>3, <1>5 DEF Sorted
<1>7. s = t
  BY <1>4, <1>5, <1>6
<1>8. NewestFirst(a) = SubSeq(s, 1, Min({TailSize, Len(s)}))
      /\ NewestFirst(b) = SubSeq(t, 1, Min({TailSize, Len(t)}))
  BY <1>5 DEF NewestFirst, Sorted
<1> QED  BY <1>7, <1>8


(* Of which offset on a message is, and what a tail owes.                   *)
Nth(i) == Rank(Messages(topic[i]), i)
Due == {i \in DOMAIN topic : From(topic[i]) < Nth(i)}
Taken(at) == {i \in DOMAIN topic : From(topic[i]) < Nth(i) /\ Nth(i) <= at[topic[i]]}
Left(at) == [p \in Targets |-> High(p) - at[p]]

(* A tail that was sought has been handed every message from the offsets    *)
(* sought to those reached, once, and lacks as many as are left to them.    *)
Numbers(got, S) == got \in Seq(Nat) /\ IsInjective(got) /\ {got[k] : k \in DOMAIN got} = S

Reading(t) ==
  /\ t.at \in [Partitions -> Nat]
  /\ \A p \in Partitions : From(p) <= t.at[p] /\ t.at[p] <= High(p)
  /\ Numbers(t.got, Taken(t.at))
  /\ Len(t.got) + SumFunction(Left(t.at)) = Expected

Complete(t) == Numbers(t.got, Due) /\ \A p \in Partitions : t.at[p] = High(p)

QuietTail(t) ==
  /\ t.from = [p \in Targets |-> From(p)] /\ t.expected = Expected
  /\ t.phase \in {"joining", "running", "sought", "leaving"}
  /\ (t.phase \in {"joining", "running"} => t.got = <<>> /\ ~t.enough)
  /\ (t.phase = "running" => t.at = [p \in Partitions |-> High(p)])
  /\ (t.phase = "sought" => ~t.enough /\ Reading(t))
  /\ (t.phase = "leaving" /\ t.enough => Complete(t))

TailOK ==
  tail # NoTail =>
    /\ DOMAIN tail = {"phase", "from", "expected", "at", "got", "enough", "quiet"}
    /\ tail.quiet \in BOOLEAN
    /\ (tail.quiet => QuietTail(tail))

ShownOK ==
  shown # NoTail =>
    /\ DOMAIN shown = {"messages", "enough", "quiet"}
    /\ (shown.enough /\ shown.quiet => shown.messages = NewestFirst(SetToSeq(Due)))

TopicOK == topic \in Seq(Partitions) /\ expired \in Nat

TailInv == TopicOK /\ TailOK /\ ShownOK

LEMMA MaxOfTwo ==
  ASSUME NEW a \in Int, NEW b \in Int
  PROVE  Max({a, b}) \in {a, b} /\ Max({a, b}) >= a /\ Max({a, b}) >= b
<1>1. \E x \in {a, b} : \A y \in {a, b} : x >= y
  OBVIOUS
<1>2. Max({a, b}) \in {a, b} /\ \A y \in {a, b} : Max({a, b}) >= y
  BY <1>1 DEF Max
<1> QED  BY <1>2

LEMMA ShareIsPositive == PerPartition \in Nat \ {0}
<1>1. PICK n \in Nat : n = Cardinality(Partitions) /\ n # 0
  BY TailAssumption, FS_CardinalityType, FS_EmptySet
<1>0. PICK m \in Int : m = TailSize + n - 1
  BY TailAssumption
<1>2. PICK q \in Int : q = (TailSize + n - 1) \div n
  <2>1. m \div n \in Int
    BY <1>1
  <2> QED  BY <1>0, <2>1
<1>3. PerPartition = Max({1, q})
  BY <1>1, <1>2 DEF PerPartition
<1>4. Max({1, q}) \in {1, q} /\ Max({1, q}) >= 1
  BY MaxOfTwo
<1> QED  BY <1>3, <1>4

LEMMA MessagesAre ==
  ASSUME TopicOK, NEW p
  PROVE  /\ Messages(p) \in SUBSET Int /\ IsFiniteSet(Messages(p)) /\ High(p) \in Nat
         /\ Messages(p) \subseteq 1 .. Len(topic) /\ Len(topic) \in Nat
         /\ DOMAIN topic = 1 .. Len(topic) /\ \A i \in DOMAIN topic : topic[i] \in Partitions
<1>1. /\ Len(topic) \in Nat /\ DOMAIN topic = 1 .. Len(topic)
      /\ \A i \in DOMAIN topic : topic[i] \in Partitions
  BY LenProperties, ElementOfSeq DEF TopicOK
<1>2. IsFiniteSet(1 .. Len(topic)) /\ Messages(p) \subseteq 1 .. Len(topic)
  BY <1>1, OneUpTo DEF Messages
<1>3. IsFiniteSet(Messages(p)) /\ Cardinality(Messages(p)) \in Nat
  BY <1>2, FS_Subset, FS_CardinalityType
<1>4. 1 .. Len(topic) \in SUBSET Int
  BY <1>1
<1> QED  BY <1>1, <1>2, <1>3, <1>4 DEF High

(* A message's offset is its rank among those of its partition.             *)
LEMMA UpTo ==
  ASSUME TopicOK, NEW p, NEW k \in Int
  PROVE  Cardinality(Messages(p) \cap 1 .. k) = Rank(Messages(p), k)
<1>1. \A j \in Messages(p) : j \in Int /\ 1 <= j
  BY MessagesAre
<1>2. Messages(p) \cap 1 .. k = {j \in Messages(p) : j <= k}
  BY <1>1
<1> QED  BY <1>2 DEF Rank

LEMMA OffsetsAre ==
  ASSUME TopicOK, NEW p \in Partitions
  PROVE  /\ Low(p) = Rank(Messages(p), expired) /\ Low(p) \in 0 .. High(p)
         /\ From(p) \in 0 .. High(p) /\ From(p) >= Low(p) /\ From(p) >= High(p) - PerPartition
         /\ From(p) \in {Low(p), High(p) - PerPartition}
<1>1. High(p) \in Nat /\ PerPartition \in Nat \ {0} /\ expired \in Int
  BY MessagesAre, ShareIsPositive DEF TopicOK
<1>2. Low(p) = Rank(Messages(p), expired)
  BY <1>1, UpTo DEF Low
<1>3. Rank(Messages(p), expired) \in 0 .. High(p)
  BY <1>1, MessagesAre, RankIsNumber DEF High
<1>4. PICK l \in Int, h \in Int : l = Low(p) /\ h = High(p) - PerPartition
  BY <1>1, <1>2, <1>3
<1>5. Max({l, h}) \in {l, h} /\ Max({l, h}) >= l /\ Max({l, h}) >= h
  BY MaxOfTwo
<1>6. From(p) = Max({l, h})
  BY <1>4 DEF From
<1> QED  BY <1>1, <1>2, <1>3, <1>4, <1>5, <1>6

(* What a tail owes is what the property says it shows.                     *)
LEMMA OwedIsDue ==
  ASSUME TopicOK
  PROVE  Due = {i \in DOMAIN topic : /\ i > expired
                                     /\ Cardinality({j \in Messages(topic[i]) : j > i}) < PerPartition}
<1> SUFFICES ASSUME NEW i \in DOMAIN topic
             PROVE  From(topic[i]) < Nth(i)
                      <=> /\ i > expired
                          /\ Cardinality({j \in Messages(topic[i]) : j > i}) < PerPartition
  BY DEF Due
<1>1. PICK p, M : p = topic[i] /\ p \in Partitions /\ M = Messages(p)
  BY MessagesAre
<1>2. M \in SUBSET Int /\ IsFiniteSet(M) /\ High(p) \in Nat /\ High(p) = Cardinality(M)
  BY <1>1, MessagesAre DEF High
<1>3. i \in M /\ i \in Int /\ expired \in Int
  BY <1>1, <1>2 DEF Messages, TopicOK
<1>4. PICK r, e : r = Rank(M, i) /\ e = Rank(M, expired)
  OBVIOUS
<1>5. r \in 0 .. High(p) /\ e \in 0 .. High(p)
  BY <1>2, <1>3, <1>4, RankIsNumber
<1>6. expired < i => e < r
  BY <1>2, <1>3, <1>4, RankGrows
<1>7. i <= expired => r <= e
  <2>1. CASE i <= expired
    <3>1. PICK X, Y : X = {y \in M : y <= i} /\ Y = {y \in M : y <= expired}
      OBVIOUS
    <3>0. \A y \in M : y <= i => y <= expired
      BY <1>2, <1>3, <2>1
    <3>2. X \subseteq Y /\ Y \subseteq M
      BY <3>0, <3>1
    <3>3. IsFiniteSet(Y) /\ Cardinality(X) <= Cardinality(Y)
      BY <1>2, <3>2, FS_Subset
    <3> QED  BY <1>4, <3>1, <3>3 DEF Rank
  <2> QED  BY <2>1
<1>8. Cardinality({j \in M : j > i}) = High(p) - r
  <2>1. PICK X, Y : X = {y \in M : y <= i} /\ Y = {j \in M : j > i}
    OBVIOUS
  <2>2. \A j \in M : j > i <=> ~(j <= i)
    BY <1>2, <1>3
  <2>3. Y = M \ X /\ M \cap X = X
    BY <2>1, <2>2
  <2>4. Cardinality(M \ X) = Cardinality(M) - Cardinality(M \cap X)
    BY <1>2, FS_Difference
  <2> QED  BY <1>2, <1>4, <2>1, <2>3, <2>4 DEF Rank
<1>9. /\ From(p) \in 0 .. High(p) /\ From(p) >= e /\ From(p) >= High(p) - PerPartition
      /\ From(p) \in {e, High(p) - PerPartition} /\ PerPartition \in Nat
  BY <1>1, <1>4, OffsetsAre, ShareIsPositive
<1>10. From(p) < r <=> i > expired /\ High(p) - r < PerPartition
  <2>1. PICK f, h, s : f = From(p) /\ h = High(p) /\ s = PerPartition
    OBVIOUS
  <2>2. /\ f \in Int /\ h \in Int /\ s \in Int /\ r \in Int /\ e \in Int
        /\ f >= e /\ f >= h - s /\ (f = e \/ f = h - s)
        /\ (i > expired => e < r) /\ (~(i > expired) => r <= e)
    BY <1>2, <1>3, <1>5, <1>6, <1>7, <1>9, <2>1
  <2>3. f < r <=> i > expired /\ h - r < s
    BY ONLY <2>2
  <2> QED  BY <2>1, <2>3
<1> QED  BY <1>1, <1>4, <1>8, <1>10 DEF Nth

LEMMA AtOffsetIs ==
  ASSUME TopicOK, NEW p, NEW offset \in Nat, offset < High(p)
  PROVE  /\ AtOffset(p, offset) \in Messages(p)
         /\ Rank(Messages(p), AtOffset(p, offset)) = offset + 1
<1>1. PICK M, k : M = Messages(p) /\ k = offset + 1
  OBVIOUS
<1>2. M \in SUBSET Int /\ IsFiniteSet(M) /\ k \in 1 .. Cardinality(M)
  BY <1>1, MessagesAre DEF High
<1>3. \E i \in M : Rank(M, i) = k
  BY ONLY <1>2, RanksAreAll
<1>4. PICK i \in M : Rank(M, i) = k
  BY <1>3
<1>5. \A j \in M : Cardinality(M \cap 1 .. j) = Rank(M, j)
  BY <1>1, <1>2, UpTo
<1>6. AtOffset(p, offset) = CHOOSE j \in M : Cardinality(M \cap 1 .. j) = k
  BY <1>1 DEF AtOffset
<1>7. (CHOOSE j \in M : Cardinality(M \cap 1 .. j) = k) \in M
      /\ Cardinality(M \cap 1 .. (CHOOSE j \in M : Cardinality(M \cap 1 .. j) = k)) = k
  BY <1>4, <1>5
<1> QED  BY <1>1, <1>5, <1>6, <1>7

LEMMA SetAsNumbers ==
  ASSUME NEW S \in SUBSET Nat, IsFiniteSet(S)
  PROVE  Numbers(SetToSeq(S), S)
<1>1. PICK n, T : n = Cardinality(S) /\ n \in Nat /\ T = 1 .. n /\ ExistsBijection(T, S)
  BY FS_CardinalityType
<1>2. IsFiniteSet(T) /\ Cardinality(T) = n
  BY <1>1, OneUpTo
<1>3. PICK f \in [T -> S] : IsInjective(f)
  BY <1>1 DEF ExistsBijection, Bijection, Injection
<1>4. PICK s : s = SetToSeq(S)
  OBVIOUS
<1>5. s \in [T -> S] /\ IsInjective(s)
  BY <1>1, <1>3, <1>4 DEF SetToSeq
<1>6. s \in Injection(T, S)
  BY <1>5 DEF Injection
<1>7. s \in Surjection(T, S)
  BY <1>1, <1>2, <1>6, FS_Injection
<1>8. {s[k] : k \in DOMAIN s} = S
  BY <1>5, <1>7 DEF Surjection
<1>9. s \in Seq(Nat)
  <2>1. s \in [1 .. n -> Nat]
    BY <1>1, <1>5
  <2> QED  BY <1>1, <2>1, SeqDef
<1> QED  BY <1>4, <1>5, <1>8, <1>9 DEF Numbers

LEMMA SumIsZero ==
  ASSUME NEW fun, NEW S, IsFiniteSet(S), \A x \in S : fun[x] \in Nat,
         SumFunctionOnSet(fun, S) = 0, NEW x \in S
  PROVE  fun[x] = 0
<1>1. PICK R : R = S \ {x} /\ IsFiniteSet(R)
  BY FS_Subset
<1>2. SumFunctionOnSet(fun, S) = fun[x] + SumFunctionOnSet(fun, R)
  BY <1>1, SumRemove
<1>3. SumFunctionOnSet(fun, R) \in Nat
  BY <1>1, SumInNat
<1> QED  BY <1>2, <1>3

LEMMA TargetsAreFinite == IsFiniteSet(Targets) /\ Targets \subseteq Partitions
BY TailAssumption, FS_Subset DEF Targets

(* What is left to read goes down by the message read.                      *)
InReach(at) ==
  at \in [Partitions -> Nat] /\ \A p \in Partitions : From(p) <= at[p] /\ at[p] <= High(p)

LEMMA LeftIsNumber ==
  ASSUME TopicOK, NEW at, InReach(at)
  PROVE  /\ \A p \in Targets : Left(at)[p] \in Nat
         /\ SumFunction(Left(at)) = SumFunctionOnSet(Left(at), Targets)
         /\ SumFunction(Left(at)) \in Nat
<1>1. \A p \in Targets : High(p) - at[p] \in Nat
  <2> SUFFICES ASSUME NEW p \in Targets  PROVE High(p) - at[p] \in Nat
    OBVIOUS
  <2>1. at[p] \in Nat /\ High(p) \in Nat /\ at[p] <= High(p)
    BY TargetsAreFinite, MessagesAre DEF InReach
  <2> QED  BY <2>1
<1>2. DOMAIN Left(at) = Targets /\ \A p \in Targets : Left(at)[p] = High(p) - at[p]
  BY DEF Left
<1>3. SumFunctionOnSet(Left(at), Targets) \in Nat
  BY <1>1, <1>2, TargetsAreFinite, SumInNat
<1> QED  BY <1>1, <1>2, <1>3 DEF SumFunction

LEMMA LeftGoesDown ==
  ASSUME TopicOK, NEW at, NEW bt, InReach(at), NEW p \in Partitions, at[p] < High(p),
         bt = [at EXCEPT ![p] = @ + 1]
  PROVE  p \in Targets /\ InReach(bt) /\ SumFunction(Left(at)) = SumFunction(Left(bt)) + 1
<1>1. From(p) \in Nat /\ at[p] \in Nat /\ High(p) \in Nat /\ From(p) <= at[p]
  BY OffsetsAre, MessagesAre DEF InReach
<1>2. p \in Targets
  BY <1>1 DEF Targets
<1>3. bt \in [Partitions -> Nat] /\ bt[p] = at[p] + 1 /\ \A q \in Partitions : q # p => bt[q] = at[q]
  BY <1>1 DEF InReach
<1>4. InReach(bt)
  <2>1. From(p) <= bt[p] /\ bt[p] <= High(p)
    BY <1>1, <1>3
  <2> QED  BY <1>3, <2>1 DEF InReach
<1>5. PICK f, g : f = Left(bt) /\ g = Left(at)
  OBVIOUS
<1>6. (\A q \in Targets : f[q] \in Nat) /\ IsFiniteSet(Targets)
  BY <1>4, <1>5, LeftIsNumber, TargetsAreFinite
<1>7. \A q \in Targets : q # p => g[q] = f[q]
  BY <1>3, <1>5, TargetsAreFinite DEF Left
<1>8. g[p] = (IF p \in Targets THEN f[p] ELSE 0) + 1
  <2>1. g[p] = High(p) - at[p] /\ f[p] = High(p) - bt[p]
    BY <1>2, <1>5 DEF Left
  <2> QED  BY <1>1, <1>2, <1>3, <2>1
<1>9. SumFunctionOnSet(g, Targets \cup {p}) = SumFunctionOnSet(f, Targets) + 1
  BY ONLY <1>6, <1>7, <1>8, SumOneMore
<1>10. Targets \cup {p} = Targets
  BY <1>2
<1> QED  BY <1>2, <1>4, <1>5, <1>9, <1>10, LeftIsNumber

LEMMA NthIs ==
  ASSUME TopicOK, NEW i \in DOMAIN topic
  PROVE  Nth(i) \in Nat /\ Nth(i) <= High(topic[i])
<1>1. PICK M : M = Messages(topic[i])
  OBVIOUS
<1>2. M \in SUBSET Int /\ IsFiniteSet(M) /\ i \in Int /\ High(topic[i]) = Cardinality(M)
      /\ Cardinality(M) \in Nat
  BY <1>1, MessagesAre DEF High
<1>3. Rank(M, i) \in 0 .. Cardinality(M)
  BY <1>2, RankIsNumber
<1> QED  BY <1>1, <1>2, <1>3 DEF Nth

LEMMA OneMoreNumber ==
  ASSUME NEW a \in Seq(Nat), IsInjective(a), NEW S, S = {a[k] : k \in DOMAIN a},
         NEW i \in Nat, i \notin S
  PROVE  Numbers(Append(a, i), S \cup {i}) /\ Len(Append(a, i)) = Len(a) + 1
<1>1. PICK n, b : n = Len(a) /\ b = Append(a, i)
  OBVIOUS
<1>2. n \in Nat /\ DOMAIN a = 1 .. n
  BY <1>1, LenProperties
<1>3. /\ b \in Seq(Nat) /\ Len(b) = n + 1 /\ DOMAIN b = 1 .. n + 1
      /\ b[n + 1] = i /\ \A k \in 1 .. n : b[k] = a[k]
  BY <1>1, <1>2, AppendProperties
<1>4. \A k \in 1 .. n + 1 : k \in 1 .. n \/ k = n + 1
  BY <1>2
<1>5. IsInjective(b)
  BY <1>2, <1>3, <1>4 DEF IsInjective
<1>6. {b[k] : k \in DOMAIN b} = S \cup {i}
  <2>1. n + 1 \in 1 .. n + 1 /\ 1 .. n \subseteq 1 .. n + 1
    BY <1>2
  <2> QED  BY <1>2, <1>3, <1>4, <2>1
<1> QED  BY <1>1, <1>3, <1>5, <1>6 DEF Numbers

LEMMA NothingRead ==
  ASSUME TopicOK, NEW t, t.got = <<>>,
         t.at = [p \in Partitions |-> IF p \in Targets THEN From(p) ELSE High(p)]
  PROVE  Reading(t)
<1>1. \A p \in Partitions : /\ From(p) \in Nat /\ High(p) \in Nat /\ From(p) <= High(p)
                            /\ (p \notin Targets => High(p) = From(p))
  <2> SUFFICES ASSUME NEW p \in Partitions
               PROVE  /\ From(p) \in Nat /\ High(p) \in Nat /\ From(p) <= High(p)
                      /\ (p \notin Targets => High(p) = From(p))
    OBVIOUS
  <2>1. From(p) \in 0 .. High(p) /\ High(p) \in Nat
    BY OffsetsAre, MessagesAre
  <2> QED  BY <2>1 DEF Targets
<1>2. \A p \in Partitions : t.at[p] = From(p)
  BY <1>1
<1>3. InReach(t.at)
  <2>1. t.at \in [Partitions -> Nat]
    BY <1>1
  <2> QED  BY <1>1, <1>2, <2>1 DEF InReach
<1>4. Taken(t.at) = {}
  <2> SUFFICES ASSUME NEW i \in DOMAIN topic, From(topic[i]) < Nth(i), Nth(i) <= t.at[topic[i]]
               PROVE  FALSE
    BY DEF Taken
  <2>1. topic[i] \in Partitions
    BY MessagesAre
  <2>2. Nth(i) \in Int /\ From(topic[i]) \in Int
    BY <1>1, <2>1, NthIs
  <2> QED  BY <1>2, <2>1, <2>2
<1>5. Numbers(t.got, {})
  <2>1. <<>> \in Seq(Nat) /\ DOMAIN <<>> = {}
    OBVIOUS
  <2> QED  BY <2>1 DEF Numbers, IsInjective
<1>6. Left(t.at) = [p \in Targets |-> High(p) - From(p)]
  BY <1>2, TargetsAreFinite DEF Left
<1>7. Len(t.got) + SumFunction(Left(t.at)) = Expected
  <2>1. SumFunction(Left(t.at)) \in Nat /\ Len(<<>>) = 0
    BY <1>3, LeftIsNumber
  <2> QED  BY <1>6, <2>1 DEF Expected
<1> QED  BY <1>3, <1>4, <1>5, <1>7 DEF Reading, InReach

LEMMA ReadOne ==
  ASSUME TopicOK, NEW t, NEW u, Reading(t), NEW p \in Partitions, t.at[p] < High(p),
         u.at = [t.at EXCEPT ![p] = @ + 1], u.got = Append(t.got, AtOffset(p, t.at[p]))
  PROVE  Reading(u)
<1>1. InReach(t.at) /\ t.got \in Seq(Nat) /\ IsInjective(t.got)
      /\ {t.got[k] : k \in DOMAIN t.got} = Taken(t.at)
      /\ Len(t.got) + SumFunction(Left(t.at)) = Expected
  BY DEF Reading, InReach, Numbers
<1>2. InReach(u.at) /\ SumFunction(Left(t.at)) = SumFunction(Left(u.at)) + 1
  BY <1>1, LeftGoesDown
<1>3. PICK o \in Nat : o = t.at[p]
  BY <1>1 DEF InReach
<1>4. PICK i : i = AtOffset(p, o)
  OBVIOUS
<1>5. i \in Messages(p) /\ Rank(Messages(p), i) = o + 1
  BY <1>3, <1>4, AtOffsetIs
<1>6. i \in DOMAIN topic /\ topic[i] = p /\ i \in Nat /\ Nth(i) = o + 1 /\ From(p) <= o /\ From(p) \in Nat
  <2>1. i \in DOMAIN topic /\ topic[i] = p
    BY <1>5 DEF Messages
  <2>2. i \in Nat
    BY <2>1, MessagesAre
  <2>3. From(p) \in Nat
    BY OffsetsAre, MessagesAre
  <2>4. From(p) <= o
    BY <1>1, <1>3 DEF InReach
  <2> QED  BY <1>5, <2>1, <2>2, <2>3, <2>4 DEF Nth
<1>7. i \notin Taken(t.at)
  BY <1>3, <1>6 DEF Taken
<1>8. Taken(u.at) = Taken(t.at) \cup {i}
  <2> SUFFICES ASSUME NEW j \in DOMAIN topic
               PROVE  From(topic[j]) < Nth(j) /\ Nth(j) <= u.at[topic[j]]
                        <=> (From(topic[j]) < Nth(j) /\ Nth(j) <= t.at[topic[j]]) \/ j = i
    BY <1>6 DEF Taken
  <2>1. topic[j] \in Partitions
    BY MessagesAre
  <2>2. CASE topic[j] # p
    BY <1>1, <1>6, <2>1, <2>2 DEF InReach
  <2>3. CASE topic[j] = p
    <3>1. Nth(j) \in Int
      BY NthIs
    <3>2. Nth(j) = o + 1 => j = i
      <4>1. j \in Messages(p) /\ Nth(j) = Rank(Messages(p), j)
        BY <2>3 DEF Messages, Nth
      <4>2. Messages(p) \in SUBSET Int /\ IsFiniteSet(Messages(p))
        BY MessagesAre
      <4> QED  BY <1>5, <4>1, <4>2, RankIsOwn
    <3>3. u.at[topic[j]] = o + 1 /\ t.at[topic[j]] = o
      BY <1>1, <1>3, <2>3 DEF InReach
    <3>4. j = i => Nth(j) = o + 1
      BY <1>6
    <3>5. From(topic[j]) \in Nat /\ From(topic[j]) <= o
      BY <1>6, <2>3
    <3>6. PICK f, n : f = From(topic[j]) /\ n = Nth(j)
      OBVIOUS
    <3>7. f < n /\ n <= o + 1 <=> (f < n /\ n <= o) \/ j = i
      <4>1. f \in Nat /\ n \in Int /\ f <= o /\ o \in Nat /\ (n = o + 1 <=> j = i)
        BY <1>3, <3>1, <3>2, <3>4, <3>5, <3>6
      <4> QED  BY ONLY <4>1
    <3> QED  BY <3>3, <3>6, <3>7
  <2> QED  BY <2>2, <2>3
<1>9. Numbers(u.got, Taken(u.at)) /\ Len(u.got) = Len(t.got) + 1
  <2>1. PICK S : S = Taken(t.at) /\ S = {t.got[k] : k \in DOMAIN t.got}
    BY <1>1
  <2>2. i \in Nat /\ i \notin S
    BY <1>6, <1>7, <2>1
  <2>3. Numbers(Append(t.got, i), S \cup {i}) /\ Len(Append(t.got, i)) = Len(t.got) + 1
    BY ONLY <1>1, <2>1, <2>2, OneMoreNumber
  <2> QED  BY <1>3, <1>4, <1>8, <2>1, <2>3
<1>10. Len(u.got) + SumFunction(Left(u.at)) = Expected
  <2>1. Len(t.got) \in Nat
    BY <1>1, LenProperties
  <2>2. SumFunction(Left(u.at)) \in Nat
    BY <1>2, LeftIsNumber
  <2>3. PICK l, m, y : l = Len(t.got) /\ m = Len(u.got) /\ y = SumFunction(Left(u.at))
    OBVIOUS
  <2>4. l \in Nat /\ y \in Nat /\ m = l + 1 /\ l + (y + 1) = Expected
    BY <1>1, <1>2, <1>9, <2>1, <2>2, <2>3
  <2>5. m + y = Expected
    BY ONLY <2>4
  <2> QED  BY <2>3, <2>5
<1> QED  BY <1>2, <1>9, <1>10 DEF Reading, InReach

LEMMA FullyRead ==
  ASSUME TopicOK, NEW t, Reading(t), Len(t.got) >= Expected
  PROVE  Complete(t)
<1>1. InReach(t.at) /\ Numbers(t.got, Taken(t.at)) /\ Len(t.got) + SumFunction(Left(t.at)) = Expected
  BY DEF Reading, InReach
<1>2. SumFunctionOnSet(Left(t.at), Targets) = 0
  <2>1. Len(t.got) \in Nat
    BY <1>1, LenProperties DEF Numbers
  <2>2. SumFunction(Left(t.at)) \in Nat /\ SumFunction(Left(t.at)) = SumFunctionOnSet(Left(t.at), Targets)
    BY <1>1, LeftIsNumber
  <2> QED  BY <1>1, <2>1, <2>2
<1>3. \A p \in Targets : Left(t.at)[p] = 0
  BY <1>1, <1>2, TargetsAreFinite, LeftIsNumber, SumIsZero
<1>4. \A p \in Partitions : t.at[p] = High(p)
  <2> SUFFICES ASSUME NEW p \in Partitions  PROVE t.at[p] = High(p)
    OBVIOUS
  <2>1. From(p) \in Nat /\ High(p) \in Nat /\ t.at[p] \in Nat /\ From(p) <= t.at[p] /\ t.at[p] <= High(p)
    BY <1>1, OffsetsAre, MessagesAre DEF InReach
  <2>2. p \in Targets => High(p) - t.at[p] = 0
    BY <1>3 DEF Left
  <2>3. p \notin Targets => ~(High(p) > From(p))
    BY DEF Targets
  <2> QED  BY <2>1, <2>2, <2>3
<1>5. Taken(t.at) = Due
  <2> SUFFICES ASSUME NEW i \in DOMAIN topic  PROVE Nth(i) <= t.at[topic[i]]
    BY DEF Taken, Due
  <2>1. topic[i] \in Partitions
    BY MessagesAre
  <2> QED  BY <1>4, <2>1, NthIs
<1> QED  BY <1>1, <1>4, <1>5 DEF Complete

(* The offsets are those of the topic.                                      *)
LEMMA SameTopic ==
  ASSUME UNCHANGED <<topic, expired>>
  PROVE  /\ TopicOK' = TopicOK /\ Due' = Due /\ Targets' = Targets /\ Expected' = Expected
         /\ \A p \in Partitions : From(p)' = From(p) /\ High(p)' = High(p)
         /\ \A t : Reading(t)' = Reading(t) /\ Complete(t)' = Complete(t) /\ QuietTail(t)' = QuietTail(t)
<1>1. /\ topic' = topic /\ expired' = expired
  OBVIOUS
<1>2. \A p : Messages(p)' = Messages(p)
  BY <1>1 DEF Messages
<1>3. \A p : High(p)' = High(p) /\ Low(p)' = Low(p)
  BY <1>1, <1>2 DEF High, Low
<1>4. \A p : From(p)' = From(p)
  BY <1>3 DEF From, PerPartition
<1>5. Targets' = Targets
  BY <1>3, <1>4 DEF Targets
<1>6. Expected' = Expected
  BY <1>3, <1>4, <1>5 DEF Expected
<1>7. \A i : Nth(i)' = Nth(i)
  BY <1>1, <1>2 DEF Nth, Rank
<1>8. Due' = Due /\ \A at : Taken(at)' = Taken(at) /\ Left(at)' = Left(at)
  BY <1>1, <1>3, <1>4, <1>5, <1>7 DEF Due, Taken, Left
<1>9. \A t : Reading(t)' = Reading(t)
  BY <1>3, <1>4, <1>6, <1>8 DEF Reading
<1>10. \A t : Complete(t)' = Complete(t)
  BY <1>3, <1>8 DEF Complete
<1>11. \A t : QuietTail(t)' = QuietTail(t)
  BY <1>3, <1>4, <1>5, <1>6, <1>9, <1>10 DEF QuietTail
<1> QED  BY <1>1, <1>3, <1>4, <1>5, <1>6, <1>8, <1>9, <1>10, <1>11 DEF TopicOK

Fields == {"phase", "from", "expected", "at", "got", "enough", "quiet"}

LEMMA TailMoves ==
  ASSUME TailInv, UNCHANGED <<topic, expired, shown>>, NEW u, tail' = u,
         DOMAIN u = Fields, u.quiet \in BOOLEAN, u.quiet => QuietTail(u)
  PROVE  TailInv'
<1>1. TopicOK' /\ Due' = Due /\ (QuietTail(u)' <=> QuietTail(u))
  BY SameTopic DEF TailInv
<1>2. ShownOK'
  BY <1>1 DEF TailInv, ShownOK
<1>3. TailOK'
  BY <1>1 DEF TailOK, Fields, QuietTail
<1> QED  BY <1>1, <1>2, <1>3 DEF TailInv

LEMMA JoinStep ==
  ASSUME TailInv, Join
  PROVE  TailInv'
<1>1. PICK u : u = tail' /\ u = [tail EXCEPT !.phase = "running", !.at = [p \in Partitions |-> High(p)]]
  BY DEF Join
<1>2. DOMAIN tail = Fields /\ tail.quiet \in BOOLEAN /\ (tail.quiet => QuietTail(tail)) /\ tail.phase = "joining"
  BY DEF Join, InPhase, TailInv, TailOK, Fields
<1>3. /\ DOMAIN u = Fields /\ u.phase = "running" /\ u.at = [p \in Partitions |-> High(p)]
      /\ u.from = tail.from /\ u.expected = tail.expected /\ u.got = tail.got
      /\ u.enough = tail.enough /\ u.quiet = tail.quiet
  BY <1>1, <1>2 DEF Fields
<1>4. u.quiet => QuietTail(u)
  BY <1>2, <1>3 DEF QuietTail
<1> QED  BY <1>1, <1>2, <1>3, <1>4, TailMoves DEF Join

LEMMA GiveUpStep ==
  ASSUME TailInv, GiveUp
  PROVE  TailInv'
<1>1. PICK u : u = tail' /\ u = [tail EXCEPT !.phase = "leaving",
                                   !.at = IF @ = <<>> THEN [p \in Partitions |-> High(p)] ELSE @]
  BY DEF GiveUp
<1>2. /\ DOMAIN tail = Fields /\ tail.quiet \in BOOLEAN /\ (tail.quiet => QuietTail(tail))
      /\ tail.phase \in {"joining", "running", "sought"}
  BY DEF GiveUp, InPhase, TailInv, TailOK, Fields
<1>3. /\ DOMAIN u = Fields /\ u.phase = "leaving"
      /\ u.from = tail.from /\ u.expected = tail.expected /\ u.got = tail.got
      /\ u.enough = tail.enough /\ u.quiet = tail.quiet
  BY <1>1, <1>2 DEF Fields
<1>4. u.quiet => QuietTail(u)
  BY <1>2, <1>3 DEF QuietTail
<1> QED  BY <1>1, <1>2, <1>3, <1>4, TailMoves DEF GiveUp

LEMMA SeekStep ==
  ASSUME TailInv, SeekBack
  PROVE  TailInv'
<1>0. PICK at : at = [p \in Partitions |-> IF p \in DOMAIN tail.from THEN tail.from[p] ELSE tail.at[p]]
  OBVIOUS
<1>1. PICK u : u = tail' /\ u = [tail EXCEPT !.phase = "sought", !.at = at]
  BY <1>0 DEF SeekBack
<1>2. DOMAIN tail = Fields /\ tail.quiet \in BOOLEAN /\ (tail.quiet => QuietTail(tail)) /\ tail.phase = "running"
  BY DEF SeekBack, InPhase, TailInv, TailOK, Fields
<1>3. /\ DOMAIN u = Fields /\ u.phase = "sought" /\ u.at = at
      /\ u.from = tail.from /\ u.expected = tail.expected /\ u.got = tail.got
      /\ u.enough = tail.enough /\ u.quiet = tail.quiet
  BY <1>1, <1>2 DEF Fields
<1>4. ASSUME u.quiet  PROVE QuietTail(u)
  <2>1. QuietTail(tail)
    BY <1>2, <1>3, <1>4
  <2>2. /\ tail.from = [p \in Targets |-> From(p)] /\ tail.at = [p \in Partitions |-> High(p)]
        /\ tail.got = <<>> /\ ~tail.enough
    BY <1>2, <2>1 DEF QuietTail
  <2>3. at = [p \in Partitions |-> IF p \in Targets THEN From(p) ELSE High(p)]
    BY <1>0, <2>2
  <2>4. Reading(u)
    BY <1>3, <2>2, <2>3, NothingRead DEF TailInv
  <2> QED  BY <1>3, <2>1, <2>2, <2>4 DEF QuietTail
<1> QED  BY <1>1, <1>2, <1>3, <1>4, TailMoves DEF SeekBack

LEMMA MessageStep ==
  ASSUME TailInv, NEW p \in Partitions, EachMessage(p)
  PROVE  TailInv'
<1>0. PICK got, at, phase, enough :
        /\ got = Append(tail.got, AtOffset(p, tail.at[p])) /\ at = [tail.at EXCEPT ![p] = @ + 1]
        /\ phase = (IF Len(got) >= tail.expected THEN "leaving" ELSE tail.phase)
        /\ enough = (tail.enough \/ (tail.phase # "leaving" /\ Len(got) >= tail.expected))
  OBVIOUS
<1>1. PICK u : /\ u = tail'
               /\ u = [tail EXCEPT !.got = got, !.at = at, !.enough = enough, !.phase = phase]
  BY <1>0 DEF EachMessage
<1>2. /\ DOMAIN tail = Fields /\ tail.quiet \in BOOLEAN /\ (tail.quiet => QuietTail(tail))
      /\ tail.phase \in {"running", "sought", "leaving"} /\ tail.at[p] < High(p)
  BY DEF EachMessage, InPhase, TailInv, TailOK, Fields
<1>3. /\ DOMAIN u = Fields /\ u.phase = phase /\ u.at = at /\ u.got = got /\ u.enough = enough
      /\ u.from = tail.from /\ u.expected = tail.expected /\ u.quiet = tail.quiet
  BY <1>1, <1>2 DEF Fields
<1>4. ASSUME u.quiet  PROVE QuietTail(u)
  <2>1. QuietTail(tail)
    BY <1>2, <1>3, <1>4
  <2>2. High(p) \in Nat
    BY MessagesAre DEF TailInv
  <2>3. tail.phase # "running"
    BY <1>2, <2>1, <2>2 DEF QuietTail
  <2>4. CASE tail.phase = "leaving"
    <3>1. ~tail.enough
      BY <1>2, <2>1, <2>2, <2>4 DEF QuietTail, Complete
    <3>2. u.phase = "leaving" /\ ~u.enough
      BY <1>0, <1>3, <2>4, <3>1
    <3> QED  BY <1>3, <2>1, <3>2 DEF QuietTail
  <2>5. CASE tail.phase = "sought"
    <3>1. Reading(tail) /\ ~tail.enough /\ tail.expected = Expected
      BY <2>1, <2>5 DEF QuietTail
    <3>2. Reading(u)
      BY <1>0, <1>2, <1>3, <3>1, ReadOne DEF TailInv
    <3>3. CASE Len(got) >= Expected
      <4>1. Complete(u)
        BY <1>3, <3>2, <3>3, FullyRead DEF TailInv
      <4>2. u.phase = "leaving"
        BY <1>0, <1>3, <3>1, <3>3
      <4> QED  BY <1>3, <2>1, <4>1, <4>2 DEF QuietTail
    <3>4. CASE ~(Len(got) >= Expected)
      <4>1. u.phase = "sought" /\ ~u.enough
        BY <1>0, <1>3, <2>5, <3>1, <3>4
      <4> QED  BY <1>3, <2>1, <3>2, <4>1 DEF QuietTail
    <3> QED  BY <3>3, <3>4
  <2> QED  BY <1>2, <2>3, <2>4, <2>5
<1> QED  BY <1>1, <1>2, <1>3, <1>4, TailMoves DEF EachMessage

LEMMA NothingShown == NewestFirst(<<>>) = <<>>
<1>1. PICK s : s = Sorted(<<>>)
  OBVIOUS
<1>2. s = <<>>
  BY <1>1 DEF Sorted
<1>3. Min({TailSize, 0}) = 0
  BY MinOfTwo, TailAssumption
<1>4. SubSeq(<<>>, 1, 0) = <<>> /\ Len(<<>>) = 0
  OBVIOUS
<1>5. NewestFirst(<<>>) = SubSeq(s, 1, Min({TailSize, Len(s)}))
  BY <1>1 DEF NewestFirst, Sorted
<1> QED  BY <1>2, <1>3, <1>4, <1>5

(* Whatever has come of a tail, in whatever order, is shown alike.          *)
LEMMA ShowsDue ==
  ASSUME TopicOK, NEW got, Numbers(got, Due)
  PROVE  NewestFirst(got) = NewestFirst(SetToSeq(Due))
<1>1. Due \in SUBSET Nat /\ IsFiniteSet(Due)
  <2>1. Due \subseteq 1 .. Len(topic) /\ Len(topic) \in Nat
    BY MessagesAre DEF Due
  <2>2. IsFiniteSet(1 .. Len(topic)) /\ 1 .. Len(topic) \in SUBSET Nat
    BY <2>1, OneUpTo
  <2> QED  BY <2>1, <2>2, FS_Subset
<1>2. PICK s : s = SetToSeq(Due) /\ Numbers(s, Due)
  BY <1>1, SetAsNumbers
<1>3. /\ got \in Seq(Int) /\ IsInjective(got) /\ s \in Seq(Int) /\ IsInjective(s)
      /\ {got[j] : j \in DOMAIN got} = {s[j] : j \in DOMAIN s}
  <2>1. got \in Seq(Nat) /\ s \in Seq(Nat) /\ Nat \subseteq Int
    BY <1>2 DEF Numbers
  <2>2. got \in Seq(Int) /\ s \in Seq(Int)
    BY <2>1
  <2> QED  BY <1>2, <2>2 DEF Numbers
<1>4. NewestFirst(got) = NewestFirst(s)
  BY ONLY <1>3, SortedAlike
<1> QED  BY <1>2, <1>4

LEMMA FetchStep ==
  ASSUME TailInv, FetchOffsets
  PROVE  TailInv'
<1>1. UNCHANGED <<topic, expired>> /\ tail = NoTail
  BY DEF FetchOffsets
<1>2. CASE Targets = {}
  <2>1. Due = {}
    <3> SUFFICES ASSUME NEW i \in DOMAIN topic, From(topic[i]) < Nth(i)  PROVE FALSE
      BY DEF Due
    <3>1. PICK p \in Partitions : p = topic[i]
      BY MessagesAre DEF TailInv
    <3>2. From(p) \in Int /\ High(p) \in Int /\ Nth(i) \in Int /\ From(p) < Nth(i) /\ Nth(i) <= High(p)
      BY <3>1, OffsetsAre, MessagesAre, NthIs DEF TailInv
    <3>3. p \in Targets
      BY <3>2 DEF Targets
    <3> QED  BY <1>2, <3>3
  <2>2. Numbers(<<>>, Due)
    <3>1. <<>> \in Seq(Nat) /\ DOMAIN <<>> = {}
      OBVIOUS
    <3> QED  BY <2>1, <3>1 DEF Numbers, IsInjective
  <2>3. <<>> = NewestFirst(SetToSeq(Due))
    BY <2>2, ShowsDue, NothingShown DEF TailInv
  <2>4. TopicOK' /\ Due' = Due
    BY <1>1, SameTopic DEF TailInv
  <2>5. tail' = tail /\ shown' = [messages |-> <<>>, enough |-> TRUE, quiet |-> TRUE]
    BY <1>2 DEF FetchOffsets
  <2>6. ShownOK'
    BY <2>3, <2>4, <2>5 DEF ShownOK
  <2> QED  BY <1>1, <2>4, <2>5, <2>6 DEF TailInv, TailOK
<1>3. CASE Targets # {}
  <2>1. PICK u : /\ u = tail'
                 /\ u = [phase |-> "joining", from |-> [p \in Targets |-> From(p)],
                         expected |-> Expected, at |-> <<>>, got |-> <<>>,
                         enough |-> FALSE, quiet |-> TRUE]
    BY <1>3 DEF FetchOffsets
  <2>2. DOMAIN u = Fields /\ u.quiet \in BOOLEAN
    BY <2>1 DEF Fields
  <2>3. QuietTail(u)
    BY <2>1 DEF QuietTail
  <2>4. UNCHANGED shown
    BY <1>3 DEF FetchOffsets
  <2> QED  BY <1>1, <2>1, <2>2, <2>3, <2>4, TailMoves
<1> QED  BY <1>2, <1>3

LEMMA LeaveStep ==
  ASSUME TailInv, Leave
  PROVE  TailInv'
<1>1. /\ UNCHANGED <<topic, expired>> /\ tail' = NoTail
      /\ shown' = [messages |-> NewestFirst(tail.got), enough |-> tail.enough, quiet |-> tail.quiet]
      /\ tail.phase = "leaving" /\ (tail.quiet => QuietTail(tail))
  BY DEF Leave, InPhase, TailInv, TailOK
<1>2. TopicOK' /\ Due' = Due
  BY <1>1, SameTopic DEF TailInv
<1>3. ASSUME tail.enough, tail.quiet  PROVE NewestFirst(tail.got) = NewestFirst(SetToSeq(Due))
  <2>1. Numbers(tail.got, Due)
    BY <1>1, <1>3 DEF QuietTail, Complete
  <2> QED  BY <2>1, ShowsDue DEF TailInv
<1>4. ShownOK'
  BY <1>1, <1>2, <1>3 DEF ShownOK
<1> QED  BY <1>1, <1>2, <1>4 DEF TailInv, TailOK

LEMMA ProducedStep ==
  ASSUME TailInv, NEW p \in Partitions, Produced(p)
  PROVE  TailInv'
<1>1. topic' \in Seq(Partitions) /\ expired' \in Nat
  BY AppendProperties DEF Produced, TailInv, TopicOK
<1>2. TailOK'
  BY DEF Produced, TailInv, TailOK
<1>3. ShownOK'
  BY DEF Produced, TailInv, ShownOK
<1> QED  BY <1>1, <1>2, <1>3 DEF TailInv, TopicOK

LEMMA TailStep ==
  ASSUME TailInv, [Next]_vars
  PROVE  TailInv'
<1>1. CASE UNCHANGED tailVars
  <2>1. UNCHANGED <<topic, expired, tail, shown>>
    BY <1>1 DEF tailVars
  <2>2. TopicOK' /\ Due' = Due /\ \A t : QuietTail(t)' = QuietTail(t)
    BY <2>1, SameTopic DEF TailInv
  <2>3. TailOK'
    BY <2>1, <2>2 DEF TailInv, TailOK
  <2>4. ShownOK'
    BY <2>1, <2>2 DEF TailInv, ShownOK
  <2> QED  BY <2>2, <2>3, <2>4 DEF TailInv
<1>2. CASE TailNext
  BY <1>2, FetchStep, JoinStep, SeekStep, GiveUpStep, LeaveStep, MessageStep, ProducedStep DEF TailNext
<1>3. UNCHANGED tailVars \/ TailNext
  BY DEF Next, vars, Navigate, Reload
<1> QED  BY <1>1, <1>2, <1>3

(* A tail of the dead-letter topic that ends before its timer, while the    *)
(* topic does not grow, shows the newest messages of every partition's      *)
(* share, each once, newest first, whatever the partitions hold, however    *)
(* much has expired and in whatever order the messages come: tailTopic,     *)
(* which seeks back from the end only once the consumer runs.               *)
THEOREM TailsAreComplete == Spec => []TailComplete
<1>1. ASSUME Init  PROVE TailInv
  <2>1. PICK n \in Nat : topic \in [1 .. n -> Partitions]
    BY <1>1, TailAssumption DEF Init, TailInit
  <2>2. topic \in Seq(Partitions)
    BY <2>1, SeqDef
  <2>3. expired \in Nat
    BY <1>1, <2>2, LenProperties DEF Init, TailInit
  <2>4. tail = NoTail /\ shown = NoTail
    BY <1>1 DEF Init, TailInit
  <2> QED  BY <2>2, <2>3, <2>4 DEF TailInv, TopicOK, TailOK, ShownOK
<1>2. ASSUME TailInv  PROVE TailComplete
  BY <1>2, OwedIsDue DEF TailInv, ShownOK, TailComplete
<1> QED  BY <1>1, <1>2, TailStep, PTL DEF Spec
=============================================================================
