-------------------------- MODULE DemoControlPage --------------------------
(***************************************************************************)
(* The Demo Control page (ui/src/pages/Control.tsx): it polls the state of *)
(* the demo's processes and sends the actions of its buttons.              *)
(*                                                                         *)
(* An effect polls.  Its tick refreshes, and unless the effect was cleaned *)
(* up meanwhile sets the timer for the next; a change of what it depends   *)
(* on, the mode or the state of the reset job, cleans it up and starts     *)
(* another.  A change is shown, and the effect replaced, some time after   *)
(* it was set.                                                             *)
(***************************************************************************)
EXTENDS ConsoleSession

(* A page just mounted, its effect not yet run.                             *)
ControlView ==
  [ page |-> "control", dialog |-> "closed", busy |-> FALSE,
    job |-> None,        \* state of the reset job, or None before the first answer
    deps |-> None,       \* what the effect in use was run for, or None
    pending |-> FALSE,   \* the timer the ref holds is pending
    strays |-> 0 ]       \* other timers that are pending

OnControl == view.page = "control"

Deps == [live |-> Live, job |-> view.job]

StatusRequest == Request("status", <<>>, None, NoOp)

(* setTimeout(tick), its handle kept in the ref.                            *)
WithTimer(v) ==
  [v EXCEPT !.strays = IF v.pending THEN @ + 1 ELSE @, !.pending = TRUE]

(* tick: refresh asks the server in live mode and returns at once in mock.  *)
Tick(others, live, v) ==
  IF live THEN /\ BeginAmong(others, "tick", "sent", NoOptions, StatusRequest, [NothingKept EXCEPT !.number = 1])
               /\ view' = v
  ELSE tasks' = others /\ view' = WithTimer(v)

(* The cleanup: the ticks of the effect are told to stop, its timer is      *)
(* cleared.                                                                 *)
Stopped(others) ==
  {IF t.fn = "tick" /\ Mounted(t) THEN [t EXCEPT !.kept.number = 0] ELSE t : t \in others}
Cleared(v) == [v EXCEPT !.pending = FALSE]

RunEffect ==
  /\ OnControl /\ view.deps # Deps
  /\ Tick(Stopped(tasks), Live, [Cleared(view) EXCEPT !.deps = Deps])
  /\ UNCHANGED <<serverVars, session, mount, faults>>

TimerFires ==
  /\ OnControl
  /\ \/ view.pending /\ Tick(tasks, view.deps.live, [view EXCEPT !.pending = FALSE])
     \/ view.strays > 0 /\ Tick(tasks, view.deps.live, [view EXCEPT !.strays = @ - 1])
  /\ UNCHANGED <<serverVars, session, mount, faults>>

(* An answer that failed leaves what was shown.                             *)
Refreshed(t) == IF t.ans.ok THEN [view EXCEPT !.job = t.ans.value] ELSE view

(* Defective: a tick does not look whether it was told to stop.             *)
BugContinues(t) == TRUE
Continues(t) == t.kept.number = 1

EndTick(t) ==
  /\ Resumes(t, "tick")
  /\ Ends(t)
  /\ SetView(t, IF Continues(t) THEN WithTimer(Refreshed(t)) ELSE Refreshed(t))
  /\ UNCHANGED <<serverVars, session, mount, faults>>

----------------------------------------------------------------------------
(* Buttons *)

AnyBusy == view.busy \/ view.job = 1

(* Which buttons the page offers.  Starting a client and resetting want the *)
(* guard unlocked, stopping one does not ask: the server refuses it without *)
(* a token.  The dialogs cover the page; that of the reset wants a word     *)
(* typed in, and looks neither at the guard nor at what runs again.         *)
(* Whether a client is one to start or to stop, the last status says; that  *)
(* is left open.                                                            *)
ControlButtons ==
  LET page == view.dialog = "closed"
  IN  [ ask |-> page /\ readOnly,
        start |-> page /\ ~AnyBusy /\ ~readOnly, stop |-> page /\ ~AnyBusy,
        reset |-> page /\ ~AnyBusy /\ ~readOnly,
        cancel |-> ~page,
        unlock |-> view.dialog = "unlock", confirm |-> view.dialog = "reset" ]

(* controlAction: the token is sent as it is, locked or not.                *)
ControlRequest(label) == Request("control", <<label>>, unlockToken, NoOp)

Act(label, dialog) ==
  /\ view' = [view EXCEPT !.busy = TRUE, !.dialog = dialog]
  /\ Begin("act", ControlRequest(label), NothingKept)
  /\ UNCHANGED <<serverVars, session, mount, faults>>

(* Without the live mode the page says so and offers nothing.               *)
ControlPressed ==
  /\ OnControl /\ Live
  /\ \/ ControlButtons.ask /\ ShowDialog("unlock")
     \/ ControlButtons.reset /\ ShowDialog("reset")
     \/ ControlButtons.cancel /\ ShowDialog("closed")
     \/ ControlButtons.unlock /\ BeginUnlock
     \/ (ControlButtons.start \/ ControlButtons.stop) /\ Act("client", view.dialog)
     \/ ControlButtons.confirm /\ Act("reset", "closed")

(* After the action, a refresh of its own.                                  *)
EndAct(t) ==
  /\ Resumes(t, "act") /\ t.at = "sent"
  /\ SetView(t, [view EXCEPT !.busy = FALSE])
  /\ Sends(t, "refresh", StatusRequest, t.kept)
  /\ UNCHANGED <<serverVars, session, mount, faults>>

EndRefresh(t) ==
  /\ Resumes(t, "act") /\ t.at = "refresh"
  /\ Ends(t)
  /\ SetView(t, Refreshed(t))
  /\ UNCHANGED <<serverVars, session, mount, faults>>

ControlNext ==
  \/ RunEffect \/ TimerFires \/ ControlPressed
  \/ \E t \in tasks : EndTick(t) \/ EndAct(t) \/ EndRefresh(t)

(* Timers that are pending and ticks that will set one.                     *)
Chains ==
  (IF view.pending THEN 1 ELSE 0) + view.strays
  + Cardinality({t \in tasks : t.fn = "tick" /\ Mounted(t) /\ Continues(t)})

(* From its first effect on the page polls along exactly one chain, however *)
(* the end of a refresh, the change it brings and the cleanup interleave.   *)
OneChain == OnControl /\ view.deps # None => Chains = 1
=============================================================================
