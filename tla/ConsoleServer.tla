--------------------------- MODULE ConsoleServer ---------------------------
(***************************************************************************)
(* The console's server (ui/server): the read-only policy and the unlock   *)
(* tokens (policy.ts), the routes (index.ts), the calls it makes to the    *)
(* database (volt.ts), the events it produces (kafka.ts), and as much of   *)
(* the database and the pipeline as the Decay Story reads back: the daily  *)
(* rows of its customer and the events on their way to them.               *)
(*                                                                         *)
(* A request is served at any moment between its sending and the           *)
(* continuation of the function that awaits it: in one step by a route     *)
(* that awaits nothing, and otherwise in two, the look at the token and,   *)
(* after the await, what the database, the broker or a process does.       *)
(***************************************************************************)
EXTENDS SqlText, FiniteSets, Functions

CONSTANTS
  None,
  Urls,        \* addresses a user may type for the database
  AllowedUrls, \* those whose host is on the server's allowlist
  NoUrl,       \* the empty one
  DefaultUrl,  \* the address of the browser's default settings
  EnvUrl,      \* the address of the server's environment, which it takes unseen
  MaxTokens,   \* bound: unlock tokens issued
  MaxEvents,   \* bound: story events produced
  MaxFaults    \* bound: restarts, reloads, lost requests and failed calls

(* What a request is answered with.                                         *)
AnswerType == [ok : BOOLEAN, value : Int \cup {None}, done : BOOLEAN, trace : Int]

ASSUME ServerAssumption ==
  /\ {DefaultUrl, NoUrl} \subseteq Urls /\ AllowedUrls \subseteq Urls \ {NoUrl}
  /\ {MaxTokens, MaxEvents, MaxFaults} \subseteq Nat
  /\ None \notin Int /\ None \notin AnswerType

VARIABLES
  tokens,    \* UnlockStore.tokens: issued and not deleted, "live" or "expired"
  issued,    \* how many tokens have been issued; they are numbered
  upstream,  \* connection.voltApiUrl
  accepted,  \* history: addresses a PUT of the connection has been accepted for
  dead,      \* history: tokens that were revoked, expired or lost in a restart
  job,       \* whether the demo reset is running
  daily,     \* CUSTOMER_DAILY of the story's customer: day back from today -> amount
  stream,    \* story events on the source topic that are not recorded yet
  recorded,  \* story events recorded
  tasks,     \* async functions of the browser that await an answer
  faults     \* what MaxFaults bounds

database   == <<daily, stream, recorded>>
serverVars == <<tokens, issued, upstream, accepted, dead, job, database>>

(* Bound. *)
Fault == faults < MaxFaults /\ faults' = faults + 1

----------------------------------------------------------------------------
(* evaluateCall *)

PermanentDeny    == {"@Shutdown"}
StatsSelectors   == {"TABLE"}
CatalogSelectors == {"TABLE", "COLUMNS"}

FirstParam(call) == IF call.params = <<>> THEN <<>> ELSE call.params[1].token

IsAdHoc(call) == Canonical(Unpackaged(call.name)) = "@AdHoc"

(* An ad-hoc call of exec is the call it executes, as often as they nest:   *)
(* each one's text is shorter than that of the one around it.               *)
Unwrapped(call) ==
  LET Inner(c) == LET st == ParseStatement(FirstParam(c))
                  IN  IF IsAdHoc(c) /\ st.kind = "exec"
                      THEN [name |-> NameOf(st.procedure), params |-> st.params] ELSE c
      peel[n \in 0 .. Len(FirstParam(call))] == IF n = 0 THEN call ELSE Inner(peel[n - 1])
  IN  Inner(peel[Len(FirstParam(call))])

(* Statistics and catalog calls never write; whether they are allowed is    *)
(* for their selector to say.                                               *)
Mutating(call) ==
  LET name == Canonical(Unpackaged(call.name))
  IN  CASE name \in PermanentDeny -> TRUE
        [] name = "@AdHoc" -> ~Classify(ParseStatement(FirstParam(call)))
        [] name \in {"@Statistics", "@SystemCatalog"} -> FALSE
        [] OTHER -> ~Classify([kind |-> "exec", procedure |-> <<call.name>>])

Allowed(call, unlocked) ==
  LET name     == Canonical(Unpackaged(call.name))
      selector == FirstParam(call)
  IN  /\ name \notin PermanentDeny
      /\ name = "@Statistics" => Len(selector) = 1 /\ selector[1] \in StatsSelectors
      /\ name = "@SystemCatalog" => Len(selector) = 1 /\ selector[1] \in CatalogSelectors
      /\ Mutating(call) => unlocked

EvaluateCall(call, unlocked) ==
  LET c == Unwrapped(call)
  IN  [allowed |-> Allowed(c, unlocked), mutating |-> Mutating(c)]

(* The call a single statement makes.  A request for a procedure is written *)
(* as its exec; no argument the pages pass matters to the policy.           *)
CallOf(statement) ==
  LET st == ParseStatement(statement)
  IN  IF st.kind = "exec" THEN [name |-> NameOf(st.procedure), params |-> st.params]
      ELSE [name |-> "@AdHoc", params |-> <<[kind |-> "text", token |-> st.text]>>]

----------------------------------------------------------------------------
(* UnlockStore *)

Without(token) == Restrict(tokens, DOMAIN tokens \ {token})

(* Defective: the time a token was issued for is not looked at.             *)
BugValid(token) == token \in DOMAIN tokens
Valid(token) == token \in DOMAIN tokens /\ tokens[token] = "live"

(* valid deletes a token it finds expired.                                  *)
Checked(token) ==
  tokens' = IF token \in DOMAIN tokens /\ ~Valid(token) THEN Without(token) ELSE tokens

(* Fifteen minutes have passed, for the tokens issued before it as well.    *)
Expire(token) ==
  /\ Valid(token) /\ \A k \in 1 .. token - 1 : ~Valid(k)
  /\ tokens' = [tokens EXCEPT ![token] = "expired"]
  /\ dead' = dead \cup {token}
  /\ UNCHANGED <<issued, upstream, accepted, job, database, tasks, faults>>

(* Tokens, the connection and the job are kept in memory only.  A request   *)
(* that was let through before is carried out as if before the restart,     *)
(* which none of its effects depend on.                                     *)
RestartServer ==
  /\ Fault
  /\ tokens' = <<>> /\ dead' = dead \cup DOMAIN tokens
  /\ upstream' = EnvUrl /\ job' = FALSE
  /\ UNCHANGED <<issued, accepted, database, tasks>>

----------------------------------------------------------------------------
(* Answers.  "done" and "trace" are history: whether a token was issued or  *)
(* revoked, and the token that was issued or the events recorded by then.   *)

Answer(value) == [ok |-> TRUE, value |-> value, done |-> FALSE, trace |-> 0]
Refusal       == [Answer(None) EXCEPT !.ok = FALSE]

Reply(t, answer) == tasks' = (tasks \ {t}) \cup {[t EXCEPT !.ans = answer]}

(* An answer that is lost leaves what the server did.                       *)
Lost(answer) == [answer EXCEPT !.ok = FALSE, !.value = None]

Respond(t, answer) ==
  \/ Reply(t, answer) /\ UNCHANGED faults
  \/ Fault /\ Reply(t, Lost(answer))

(* A request that never arrives.                                            *)
Unreachable(t) ==
  /\ Fault /\ Reply(t, Refusal)
  /\ UNCHANGED serverVars

----------------------------------------------------------------------------
(* The database behind callVolt (external): the rows of the story.          *)

EventAmount == 5

WarmSum(window) ==
  LET days == {d \in DOMAIN daily : d < window}
  IN  IF days = {} THEN None ELSE SumFunctionOnSet(daily, days)

InsertDay(day, amount) ==
  daily' = [d \in DOMAIN daily \cup {day} |-> IF d = day THEN amount ELSE daily[d]]

(* A row that exists makes an INSERT fail.  An answer without a warm sum    *)
(* carries none.                                                            *)
Perform(op) ==
  CASE op.do = "insert" /\ op.day \notin DOMAIN daily -> InsertDay(op.day, op.amount)
    [] op.do = "delete" -> daily' = <<>>
    [] OTHER -> UNCHANGED daily

Succeeds(op) == op.do = "insert" => op.day \notin DOMAIN daily

(* callVolt and normalizeResult: the database answers, or fails and is then *)
(* answered for with ok false, whether or not the call was carried out.  (A *)
(* call it carries out after it was given up is not modelled.)              *)
CallVolt(t) ==
  LET op     == t.req.op
      answer == IF op.do = "read" THEN [Answer(WarmSum(op.day)) EXCEPT !.trace = recorded]
                ELSE [Answer(None) EXCEPT !.ok = Succeeds(op)]
  IN  /\ UNCHANGED <<stream, recorded>>
      /\ \/ Perform(op) /\ Respond(t, answer)
         \/ (Perform(op) \/ UNCHANGED daily) /\ Fault /\ Reply(t, Lost(answer))

(* The pipeline records an event in today's row.                            *)
RecordEvent ==
  /\ stream > 0
  /\ stream' = stream - 1 /\ recorded' = recorded + 1
  /\ InsertDay(0, EventAmount + (IF 0 \in DOMAIN daily THEN daily[0] ELSE 0))
  /\ UNCHANGED <<tokens, issued, upstream, accepted, dead, job, tasks, faults>>

----------------------------------------------------------------------------
(* Routes *)

(* What a route does before its await: it refuses the request or lets it    *)
(* through.  History: whether the token was one in force.                   *)
InForce(token) == token \in (1 .. issued) \ dead

LetThrough(t) ==
  /\ tasks' = (tasks \ {t}) \cup
       {[t EXCEPT !.pass = IF InForce(t.req.token) THEN "unlocked" ELSE "locked"]}
  /\ UNCHANGED faults

Admit(t, allowed) ==
  /\ Checked(t.req.token)
  /\ IF allowed THEN LetThrough(t) ELSE Respond(t, Refusal)
  /\ UNCHANGED <<issued, upstream, accepted, dead, job, database>>

Evaluated(t, call) == Admit(t, EvaluateCall(call, Valid(t.req.token)).allowed)

ServeCall(t) ==
  /\ t.req.path = "call"
  /\ Evaluated(t, CallOf(t.req.text))

ServeSql(t) ==
  LET parts == SplitStatements(t.req.text)
  IN  /\ t.req.path = "sql"
      /\ IF Len(parts) = 1 THEN Evaluated(t, CallOf(parts[1]))
         ELSE Respond(t, Refusal) /\ UNCHANGED serverVars

ServeProduce(t) ==
  /\ t.req.path = "produce"
  /\ Admit(t, Valid(t.req.token))

(* The producer of kafka.ts: one that fails may have produced.              *)
ProduceEvents(t) ==
  /\ stream + recorded < MaxEvents
  /\ \/ stream' = stream + 1 /\ Respond(t, Answer(None))
     \/ /\ stream' \in {stream, stream + 1}
        /\ Fault /\ Reply(t, Lost(Answer(None)))

(* An address is taken for its host, which is on the list or not.           *)
ValidateVoltUrl(url) == url \in AllowedUrls

(* An empty address is none to validate: it is answered like an accepted    *)
(* one, and changes nothing.                                                *)
ServeConnection(t) ==
  LET url == Head(t.req.text)
  IN  /\ t.req.path = "connection"
      /\ IF url # NoUrl /\ ValidateVoltUrl(url)
         THEN upstream' = url /\ accepted' = accepted \cup {url}
         ELSE UNCHANGED <<upstream, accepted>>
      /\ Respond(t, IF url = NoUrl \/ ValidateVoltUrl(url) THEN Answer(None) ELSE Refusal)
      /\ UNCHANGED <<tokens, issued, dead, job, database>>

(* POST /api/settings/test: what it finds out is only shown.                *)
ServeTest(t) ==
  /\ t.req.path = "test"
  /\ Reply(t, Answer(None))
  /\ UNCHANGED <<serverVars, faults>>

(* The routes of the demo control: the status is open, an action needs the  *)
(* unlock.  The reset starts without an await, one that runs is a conflict; *)
(* a client is started or stopped after one.                                *)
ServeStatus(t) ==
  /\ t.req.path = "status"
  /\ Respond(t, Answer(IF job THEN 1 ELSE 0))
  /\ UNCHANGED serverVars

StartReset(t) ==
  /\ Checked(t.req.token)
  /\ IF Valid(t.req.token) /\ ~job THEN job' = TRUE /\ Respond(t, Answer(None))
     ELSE Respond(t, Refusal) /\ UNCHANGED job
  /\ UNCHANGED <<issued, upstream, accepted, dead, database>>

ServeControl(t) ==
  /\ t.req.path = "control"
  /\ IF Head(t.req.text) = "reset" THEN StartReset(t) ELSE Admit(t, Valid(t.req.token))

(* Whether a client could be started or stopped is left open.               *)
ServeClient(t) == Respond(t, Answer(None)) \/ Respond(t, Refusal)

EndReset ==
  /\ job
  /\ job' = FALSE
  /\ UNCHANGED <<tokens, issued, upstream, accepted, dead, database, tasks, faults>>

(* POST and DELETE /api/security/unlock.                                    *)
ServeUnlock(t) ==
  /\ t.req.path = "unlock" /\ issued < MaxTokens
  /\ issued' = issued + 1
  /\ tokens' = [k \in DOMAIN tokens \cup {issued + 1} |->
                  IF k = issued + 1 THEN "live" ELSE tokens[k]]
  /\ Respond(t, [Answer(issued + 1) EXCEPT !.done = TRUE, !.trace = issued + 1])
  /\ UNCHANGED <<upstream, accepted, dead, job, database>>

(* Defective: the token is kept.                                            *)
BugRevoke(token) == tokens' = tokens
Revoke(token) == tokens' = Without(token)

ServeLock(t) ==
  /\ t.req.path = "lock"
  /\ Revoke(t.req.token)
  /\ dead' = dead \cup ({t.req.token} \cap 1 .. issued)
  /\ Respond(t, [Answer(None) EXCEPT !.done = TRUE])
  /\ UNCHANGED <<issued, upstream, accepted, job, database>>

(* After the await.                                                         *)
CarryOut(t) ==
  /\ \/ t.req.path \in {"call", "sql"} /\ CallVolt(t)
     \/ t.req.path = "produce" /\ ProduceEvents(t) /\ UNCHANGED <<daily, recorded>>
     \/ t.req.path = "control" /\ ServeClient(t) /\ UNCHANGED database
  /\ UNCHANGED <<tokens, issued, upstream, accepted, dead, job>>

Serve(t) ==
  /\ t.req.path # "browser" /\ t.ans = None
  /\ \/ /\ t.pass = "no"
        /\ \/ ServeCall(t) \/ ServeSql(t) \/ ServeProduce(t)
           \/ ServeConnection(t) \/ ServeTest(t) \/ ServeStatus(t) \/ ServeControl(t)
           \/ ServeUnlock(t) \/ ServeLock(t) \/ Unreachable(t)
     \/ t.pass # "no" /\ CarryOut(t)

(* A server just started, or one that has issued its first token.           *)
ServerInit ==
  /\ issued \in 0 .. Min({1, MaxTokens}) /\ tokens = [k \in 1 .. issued |-> "live"] /\ dead = {}
  /\ upstream = EnvUrl /\ accepted = {}
  /\ job = FALSE
  /\ stream = 0 /\ recorded = 0
  /\ tasks = {} /\ faults = 0

ServerNext ==
  \/ \E t \in tasks : Serve(t)
  \/ \E token \in DOMAIN tokens : Expire(token)
  \/ RestartServer \/ EndReset \/ RecordEvent
=============================================================================
