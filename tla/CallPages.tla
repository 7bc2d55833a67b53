------------------------------ MODULE CallPages ------------------------------
(***************************************************************************)
(* Pages that show what calls return about a subject the user may change   *)
(* while calls are under way: the Feature Explorer, whose readings follow  *)
(* the customer through useCall (ui/src/data/hooks.ts), the Procedures     *)
(* page, which executes the procedure in view, and the Runbook, which runs *)
(* the statement of its step (pages/Explorer, Procedures, Runbook).        *)
(***************************************************************************)
EXTENDS ConsoleSession

CONSTANTS
  Customers, Merchants,  \* subjects of the Explorer
  Invocations,           \* procedures of the Procedures page
  RunbookSteps           \* steps of the Runbook, by what they run

Shrink == "shrink proof"  \* the step that runs nothing and captures

Subjects == Customers \cup Merchants

ExplorerView(subject) ==
  [ page |-> "explorer", subject |-> subject,
    deps |-> None,       \* what the effect in use was run for, or None
    data |-> None,       \* what the last answer was about, and whether it was a success
    loading |-> TRUE,
    capturing |-> FALSE, \* busy, of the shrink proof
    baseline |-> None, follow |-> None ]  \* customers of the two snapshots

ProceduresView(procedure) ==
  [page |-> "procedures", subject |-> procedure, response |-> None, plan |-> None, busy |-> FALSE]

RunbookView(step) ==
  [page |-> "runbook", subject |-> step, response |-> None, busy |-> FALSE,
   capturing |-> FALSE, baseline |-> None, follow |-> None]

OnExplorer   == view.page = "explorer"
OnProcedures == view.page = "procedures"
OnRunbook    == view.page = "runbook"

----------------------------------------------------------------------------
(* useAsync: an effect calls whenever what the call depends on changes.     *)

(* Of the readings of the page one stands for all, that of the window the   *)
(* user may choose.                                                         *)
FeaturesOf(subject) ==
  IF subject \in Merchants THEN "GetMerchantFeatures" ELSE "GetRollingFeatures"

CallDeps == [subject |-> view.subject, mode |-> settings.dataMode]

(* The cleanup of the effect before.                                        *)
Cancelled(others) ==
  {IF t.fn = "useCall" /\ Mounted(t) THEN [t EXCEPT !.kept.number = 0] ELSE t : t \in others}

RunCall ==
  /\ OnExplorer /\ view.deps # CallDeps
  /\ view' = [view EXCEPT !.deps = CallDeps, !.loading = TRUE]
  /\ BeginAmong(Cancelled(tasks), "useCall", "sent", Captured,
                ProcedureCall(Captured, FeaturesOf(view.subject), NoOp),
                [NothingKept EXCEPT !.texts = <<view.subject, settings.dataMode>>, !.number = 1])
  /\ UNCHANGED <<serverVars, session, mount, faults>>

(* Defective: an effect that was cleaned up sets its answer all the same.   *)
BugCurrent(t) == TRUE
Current(t) == t.kept.number = 1

(* A call that failed is an answer too; the last one is kept until then.    *)
EndCall(t) ==
  /\ Resumes(t, "useCall")
  /\ Ends(t)
  /\ SetView(t, IF Current(t)
                THEN [view EXCEPT !.loading = FALSE,
                                  !.data = [subject |-> t.kept.texts[1],
                                            mode |-> t.kept.texts[2], ok |-> t.ans.ok]]
                ELSE view)
  /\ UNCHANGED <<serverVars, session, mount, faults>>

----------------------------------------------------------------------------
(* The shrink proof: two snapshots of one reading, on the Explorer of a     *)
(* customer and at one step of the Runbook.                                 *)

ShowsProof == (OnExplorer /\ view.subject \in Customers) \/ (OnRunbook /\ view.subject = Shrink)

(* Its buttons.  A baseline also wants recent activity, which is left open. *)
ProofButtons ==
  [ baseline |-> ~view.capturing /\ view.baseline = None,
    follow   |-> ~view.capturing /\ view.baseline # None /\ view.follow = None,
    reset    |-> view.baseline # None /\ view.follow # None ]

(* Those above the Runbook's step look at no capture under way.             *)
RunbookButtons ==
  [ run |-> view.subject # Shrink /\ ~view.busy,
    baseline |-> view.subject = Shrink,
    follow |-> view.subject = Shrink /\ view.baseline # None ]

(* capture, called by the proof, which is then busy, or past it.  The       *)
(* Runbook's customer does not change.                                      *)
Capture(kind, busy) ==
  /\ BeginCall("capture", ProcedureCall(Captured, "GetRollingFeatures", NoOp),
               [NothingKept EXCEPT !.texts = <<kind, view.subject>>, !.number = IF busy THEN 1 ELSE 0])
  /\ view' = [view EXCEPT !.capturing = @ \/ busy]
  /\ UNCHANGED <<serverVars, session, mount, faults>>

Captures ==
  /\ ShowsProof
  /\ \/ ProofButtons.baseline /\ Capture("baseline", TRUE)
     \/ ProofButtons.follow /\ Capture("follow", TRUE)
     \/ OnRunbook /\ RunbookButtons.baseline /\ Capture("baseline", FALSE)
     \/ OnRunbook /\ RunbookButtons.follow /\ Capture("follow", FALSE)
     \/ /\ ProofButtons.reset
        /\ view' = [view EXCEPT !.baseline = None, !.follow = None] /\ Quiet

EndCapture(t) ==
  LET subject == t.kept.texts[2]
      done    == [view EXCEPT !.capturing = @ /\ t.kept.number = 0]
  IN  /\ Resumes(t, "capture")
      /\ Ends(t)
      /\ SetView(t, IF t.kept.texts[1] = "baseline"
                    THEN [done EXCEPT !.baseline = subject, !.follow = None]
                    ELSE [done EXCEPT !.follow = subject])
      /\ UNCHANGED <<serverVars, session, mount, faults>>

----------------------------------------------------------------------------
(* The subject *)

(* A proof that is no longer shown takes its busy with it.                  *)
Detached(others) ==
  {IF t.fn = "capture" /\ Mounted(t) THEN [t EXCEPT !.kept.number = 0] ELSE t : t \in others}

Leaves(new) ==
  IF ShowsProof /\ new \notin Customers \cup {Shrink}
  THEN tasks' = Detached(tasks) ELSE UNCHANGED tasks

Choose(new, cleared) ==
  /\ new # view.subject
  /\ view' = [cleared EXCEPT !.subject = new]
  /\ UNCHANGED <<serverVars, session, mount, faults>>

(* Another subject clears both snapshots; what is under way goes on.        *)
ChooseSubject(new) ==
  /\ OnExplorer
  /\ Leaves(new)
  /\ Choose(new, [view EXCEPT !.baseline = None, !.follow = None,
                             !.capturing = @ /\ new \in Customers])

(* Another step clears the response.                                        *)
ChooseStep(new) ==
  /\ OnRunbook
  /\ Leaves(new)
  /\ Choose(new, [view EXCEPT !.response = None, !.capturing = FALSE])

(* Another procedure clears the response and the plan.                      *)
ChooseProcedure(new) ==
  /\ OnProcedures
  /\ Choose(new, [view EXCEPT !.response = None, !.plan = None])
  /\ UNCHANGED tasks

----------------------------------------------------------------------------
(* Running *)

(* The Procedures page.  A key executes as the button does, but without a   *)
(* look at busy.                                                            *)
ProcedureButtons ==
  [ execute |-> ~(readOnly /\ view.subject \in MutatingProcedures),
    explain |-> ~view.busy ]

Starts(fn, req, kept) ==
  /\ view' = [view EXCEPT !.busy = TRUE]
  /\ BeginCall(fn, req, kept)
  /\ UNCHANGED <<serverVars, session, mount, faults>>

ExecuteProcedure ==
  /\ OnProcedures /\ ProcedureButtons.execute
  /\ Starts("execute", ProcedureCall(Captured, view.subject, NoOp),
            [NothingKept EXCEPT !.texts = <<view.subject>>])

(* The lock is left to the server.                                          *)
RunStep ==
  /\ OnRunbook /\ RunbookButtons.run
  /\ Starts("execute", StatementRun(Captured, <<"exec", "sp", view.subject>>, NoOp),
            [NothingKept EXCEPT !.texts = <<view.subject>>])

EndRun(t) ==
  /\ Resumes(t, "execute")
  /\ Ends(t)
  /\ SetView(t, [view EXCEPT !.response = [of |-> t.kept.texts[1], ok |-> t.ans.ok],
                             !.busy = FALSE])
  /\ UNCHANGED <<serverVars, session, mount, faults>>

ExplainProcedure ==
  /\ OnProcedures /\ ProcedureButtons.explain
  /\ Starts("plan", ProcedureCall(Captured, "@Explain", NoOp), NothingKept)

EndPlan(t) ==
  /\ Resumes(t, "plan")
  /\ Ends(t)
  /\ SetView(t, [view EXCEPT !.plan = t.ans.ok, !.busy = FALSE])
  /\ UNCHANGED <<serverVars, session, mount, faults>>

CallsNext ==
  \/ RunCall \/ Captures
  \/ \E subject \in Subjects : ChooseSubject(subject)
  \/ \E step \in RunbookSteps \cup {Shrink} : ChooseStep(step)
  \/ \E procedure \in Invocations : ChooseProcedure(procedure)
  \/ ExecuteProcedure \/ ExplainProcedure \/ RunStep
  \/ \E t \in tasks : EndCall(t) \/ EndCapture(t) \/ EndRun(t) \/ EndPlan(t)

(* A reading that is not loading is about the customer and the provider     *)
(* its effect was run for, in whatever order answers come back.             *)
NoStaleAnswer ==
  OnExplorer /\ ~view.loading
    => view.data.subject = view.deps.subject /\ view.data.mode = view.deps.mode
=============================================================================
