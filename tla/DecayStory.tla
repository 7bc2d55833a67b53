----------------------------- MODULE DecayStory -----------------------------
(***************************************************************************)
(* The Decay Story (ui/src/pages/DecayStory.tsx): eight steps, each a      *)
(* script of calls that runs with the lock and the token of its start, on  *)
(* the rows of one customer, and goes on when its page is left.  Days and  *)
(* windows are counted back from today, amounts in steps of 500.           *)
(***************************************************************************)
EXTENDS ConsoleSession

CONSTANTS
  SeedDays,        \* days the second step fills, in its order
  TailDay,         \* the day the seventh step fills
  WatchWindow,     \* the window the jump is measured in
  Steps,           \* bound: steps of the story that are executed
  Readings,        \* bound: windows a sweep reads
  MaxScripts       \* bound: steps executed on the first page, one less on each after it

StepIds ==
  {"reset", "seed", "plateau", "sweep", "reactivate", "noreset", "tailout", "evidence"}
WriteSteps == {"reset", "seed", "reactivate", "tailout"}

ASSUME StoryAssumption ==
  /\ Steps \subseteq StepIds
  /\ SeedDays \in Seq(Nat) \ {<<>>} /\ {TailDay, WatchWindow} \subseteq Nat
  /\ Readings \in Nat \ {0}

(* The texts of the statements are one statement each to the server, and    *)
(* its policy denies them to a session that is locked.  (No parameter is in *)
(* this: it follows from the lexer and the policy by evaluation.)           *)
ASSUME StoryTextsAssumption ==
  \A word \in {"insert", "delete"} :
    /\ SplitStatements(<<word>>) = << <<word>> >>
    /\ ~EvaluateCall(CallOf(<<word>>), FALSE).allowed

(* Of what the panels show the readings around the event are kept.  The     *)
(* step selected is an input of the buttons that use it.                    *)
StoryView == [page |-> "story", busy |-> FALSE, scripts |-> 0, jump |-> None]

OnStory == view.page = "story"

----------------------------------------------------------------------------
(* Scripts *)

SeedAmount == 2
TailAmount == 5

Insert(day, amount) == [do |-> "insert", day |-> day, amount |-> amount]
Delete              == [do |-> "delete", day |-> 0, amount |-> 0]
Read(window)        == [do |-> "read", day |-> window, amount |-> 0]
(* Readings whose sums are only shown.                                      *)
Sweep               == [i \in 1 .. Readings |-> NoOp]

(* The calls of a step, up to the event of the fifth.  Of the three tables  *)
(* the first clears, the story reads one.                                   *)
Script(step) ==
  CASE step = "reset"      -> <<NoOp, Delete, NoOp>>
    [] step = "seed"       -> [i \in DOMAIN SeedDays |-> Insert(SeedDays[i], SeedAmount)]
    [] step = "plateau"    -> <<NoOp>>
    [] step = "reactivate" -> <<Read(WatchWindow)>>
    [] step = "sweep"      -> Sweep
    [] step = "noreset"    -> Sweep
    [] step = "tailout"    -> <<Insert(TailDay, TailAmount)>> \o Sweep
    [] step = "evidence"   -> <<NoOp, NoOp>>

(* Statements are run as if unlocked, reads with the lock as it was.        *)
CallRequest(env, step, op) ==
  IF step = "reset" \/ op.do \in {"insert", "delete"}
  THEN StatementRun([env EXCEPT !.readOnly = FALSE],
                    <<IF op.do = "insert" THEN "insert" ELSE "delete">>, op)
  ELSE ProcedureCall(env, "GetRollingFeatures", op)

(* A sum that failed, or of no rows, is none.                               *)
WarmSumOf(ans) == IF ans.ok THEN ans.value ELSE None

InStory(t, steps, at) == Resumes(t, "story") /\ t.at = at /\ t.kept.texts[1] \in steps

StepOf(t) == t.kept.texts[1]

Unchanged == UNCHANGED <<serverVars, session, mount, faults>>

----------------------------------------------------------------------------
(* The page *)

(* doUnlock, offered at the steps that write, asks for no name.             *)
StoryUnlock ==
  /\ OnStory /\ readOnly
  /\ IF Live THEN BeginUnlock ELSE MockUnlock(view)

(* Defective: a step that runs does not keep the button from another one.   *)
BugMayExecute(step) == ~(step \in WriteSteps /\ readOnly)
(* The Execute button asks that no step runs, and the lock of the writes.   *)
MayExecute(step) == ~view.busy /\ ~(step \in WriteSteps /\ readOnly)

(* History: whether no other script is under way.                           *)
Execute(step) ==
  LET alone == \A t \in tasks : t.fn \notin {"story", "gone"}
  IN  /\ OnStory /\ MayExecute(step)
      /\ view.scripts + mount <= MaxScripts
      /\ view' = [view EXCEPT !.busy = TRUE, !.scripts = @ + 1]
      /\ BeginCall("story", CallRequest(Captured, step, Head(Script(step))),
                   [NothingKept EXCEPT !.texts = <<step>>, !.left = Script(step),
                                       !.number = IF alone THEN 1 ELSE 0])
      /\ Unchanged

Finish(t, new) == Ends(t) /\ SetView(t, [new EXCEPT !.busy = FALSE])

(* The next call of the script, or its end.                                 *)
Proceed(t, new) ==
  LET kept == [t.kept EXCEPT !.left = Tail(@)]
  IN  IF kept.left = <<>> THEN Finish(t, new)
      ELSE Sends(t, "sent", CallRequest(t.env, StepOf(t), kept.left[1]), kept) /\ UNCHANGED view

(* Rows are cleared or seeded until a statement fails.                      *)
EndStatements(t) ==
  LET new == IF StepOf(t) = "reset" THEN [view EXCEPT !.jump = None] ELSE view
  IN  /\ InStory(t, {"reset", "seed"}, "sent")
      /\ IF t.ans.ok THEN Proceed(t, new) ELSE Finish(t, new)
      /\ Unchanged

(* runSweep goes on whatever an answer says, but the seventh step reads     *)
(* only when its row went in.                                               *)
EndReading(t) ==
  /\ InStory(t, {"plateau", "sweep", "noreset", "tailout", "evidence"}, "sent")
  /\ IF t.req.op.do = "insert" /\ ~t.ans.ok THEN Finish(t, view) ELSE Proceed(t, view)
  /\ Unchanged

(* The fifth step: the reading before, the event with the token as it was,  *)
(* a wait, the reading after.  The wait is part of the last call's way to   *)
(* the server.  In mock mode no event is produced.                          *)
ProduceRequest(env) == Request("produce", <<>>, env.token, NoOp)
AfterRequest(t) == ProcedureCall(t.env, "GetRollingFeatures", Read(WatchWindow))

EndBefore(t) ==
  LET before == WarmSumOf(t.ans)
      kept   == [t.kept EXCEPT !.points = <<before, t.ans.trace>>]
  IN  /\ InStory(t, {"reactivate"}, "sent")
      /\ SetView(t, [view EXCEPT !.jump = [before |-> before, after |-> None,
                                           alone |-> t.kept.number = 1, grew |-> 0]])
      /\ IF t.env.mode = "live"
         THEN Sends(t, "produce", ProduceRequest(t.env), kept)
         ELSE Sends(t, "after", AfterRequest(t), kept)
      /\ Unchanged

EndProduce(t) ==
  /\ InStory(t, {"reactivate"}, "produce")
  /\ IF t.ans.ok THEN Sends(t, "after", AfterRequest(t), t.kept) /\ UNCHANGED view
     ELSE Finish(t, view)
  /\ Unchanged

(* History: how many events were recorded between the two readings.         *)
EndAfter(t) ==
  /\ InStory(t, {"reactivate"}, "after")
  /\ Finish(t, [view EXCEPT !.jump = [before |-> t.kept.points[1], after |-> WarmSumOf(t.ans),
                                      alone |-> t.kept.number = 1,
                                      grew |-> t.ans.trace - t.kept.points[2]]])
  /\ Unchanged

StoryNext ==
  \/ StoryUnlock
  \/ \E step \in Steps : Execute(step)
  \/ \E t \in tasks : \/ EndStatements(t) \/ EndReading(t)
                      \/ EndBefore(t) \/ EndProduce(t) \/ EndAfter(t)

(* "exactly the event - no reset of older data", with its tick.             *)
ExactlyTheEvent(jump) ==
  jump.before # None /\ jump.after # None /\ jump.after - jump.before = EventAmount

(* The page says "exactly the event" of a script that ran alone only when   *)
(* exactly one event was recorded between its two readings, whatever was    *)
(* still on its way from earlier ones and whatever answers were lost.       *)
TickIsEarned ==
  OnStory /\ view.jump # None /\ ExactlyTheEvent(view.jump) /\ view.jump.alone
    => view.jump.grew = 1
=============================================================================
