--------------------------- MODULE ConsoleSession ---------------------------
(***************************************************************************)
(* What the pages of the console share in the browser: the settings and    *)
(* the write lock (ui/src/data/settings.tsx), the facade that sends a call *)
(* to the server or to the fixtures (api.ts, mock.ts), and the Settings    *)
(* page, which changes them (pages/Settings.tsx).                          *)
(*                                                                         *)
(* An async function is a task.  It keeps what its closure captured when   *)
(* it was called (the mode, the lock, the token, the mount of its page)    *)
(* and goes on after its page is gone; what it then sets of that page is   *)
(* lost, what it sets of the session is not.                               *)
(***************************************************************************)
EXTENDS ConsoleServer

CONSTANTS
  DefaultMode,    \* dataMode of the default settings, chosen by the build
  MaxMounts,      \* bound: pages mounted
  MaxTasks        \* bound: async functions under way

DataModes == {"mock", "live"}

ASSUME SessionAssumption ==
  /\ DefaultMode \in DataModes
  /\ {MaxMounts, MaxTasks} \subseteq Nat

VARIABLES
  settings,     \* dataMode and voltApiUrl, kept in the browser's storage
  readOnly,     \* the read-only guard
  unlockToken,  \* the token writes carry, or None
  orphans,      \* history: tokens the browser has lost track of without a revocation
  mount,        \* counts the pages mounted
  view          \* state of the page that is mounted

lock    == <<readOnly, unlockToken, orphans>>
session == <<settings, lock>>

Live == settings.dataMode = "live"

DefaultSettings == [dataMode |-> DefaultMode, voltApiUrl |-> DefaultUrl]

NoOp == [do |-> "none", day |-> 0, amount |-> 0]

Request(path, text, token, op) == [path |-> path, text |-> text, token |-> token, op |-> op]

----------------------------------------------------------------------------
(* Tasks *)

FreeId == CHOOSE i \in 1 .. Cardinality(tasks) + 1 : \A t \in tasks : t.id # i

(* What a function remembers between two awaits: results, texts and database *)
(* calls still to send, a choice of settings, a number; and, as history, the *)
(* text of the editor.                                                      *)
NothingKept ==
  [points |-> <<>>, texts |-> <<>>, left |-> <<>>, choice |-> DefaultSettings, number |-> 0,
   source |-> <<>>]

(* useExecOptions at the time of the call.                                  *)
Captured == [mode |-> settings.dataMode, readOnly |-> readOnly, token |-> unlockToken]

NoOptions == [mode |-> "live", readOnly |-> TRUE, token |-> None]

(* The function fn is called and sends its first request.                   *)
BeginAmong(others, fn, at, env, req, kept) ==
  /\ Cardinality(others) < MaxTasks
  /\ tasks' = others \cup {[id |-> FreeId, fn |-> fn, at |-> at, mount |-> mount,
                            env |-> env, req |-> req, pass |-> "no", ans |-> None, kept |-> kept]}
Begin(fn, req, kept) == BeginAmong(tasks, fn, "sent", NoOptions, req, kept)
(* A function that passes the options on to the facade.                     *)
BeginCall(fn, req, kept) == BeginAmong(tasks, fn, "sent", Captured, req, kept)

(* It goes on after an answer: with another request, or to its end.         *)
Sends(t, at, req, kept) ==
  tasks' = (tasks \ {t}) \cup
    {[t EXCEPT !.at = at, !.req = req, !.pass = "no", !.ans = None, !.kept = kept]}
Ends(t) == tasks' = tasks \ {t}

Resumes(t, fn) == t.fn = fn /\ t.ans # None

Mounted(t) == t.mount = mount

(* setState of a component that may be gone.                                *)
SetView(t, new) == view' = IF Mounted(t) THEN new ELSE view

----------------------------------------------------------------------------
(* The facade *)

(* A locked console sends no token.                                        *)
TokenFor(env) == IF env.readOnly THEN None ELSE env.token

Via(env, path) == IF env.mode = "live" THEN path ELSE "browser"

(* callProcedure, runStatement                                              *)
ProcedureCall(env, name, op) ==
  Request(Via(env, "call"), <<"exec", "sp", name>>, TokenFor(env), op)
StatementRun(env, text, op) == Request(Via(env, "sql"), text, TokenFor(env), op)

(* The guard of the fixtures looks at the statement once, without opening   *)
(* an exec within @AdHoc.                                                   *)
MockAllows(t) ==
  LET st   == ParseStatement(t.req.text)
      call == CallOf(t.req.text)
  IN  \/ ~t.env.readOnly
      \/ IF st.kind = "exec" /\ IsAdHoc(call) THEN Classify(ParseStatement(FirstParam(call)))
         ELSE Classify(st)

FixtureSum == 7

(* The fixtures answer after a delay, and change nothing.                   *)
AnswerFromFixtures(t) ==
  /\ t.req.path = "browser" /\ t.ans = None
  /\ Reply(t, [Answer(FixtureSum) EXCEPT !.ok = MockAllows(t)])
  /\ UNCHANGED <<serverVars, session, mount, view, faults>>

----------------------------------------------------------------------------
(* The write lock *)

(* unlockWrites: a token already held is replaced.                          *)
UnlockWrites(token) ==
  /\ readOnly' = FALSE /\ unlockToken' = token
  /\ orphans' = orphans \cup ({unlockToken} \ {None, token})

(* lockWrites: unless its revocation was asked for, a token is dropped.     *)
LockWrites(revoked) ==
  /\ readOnly' = TRUE /\ unlockToken' = None
  /\ orphans' = orphans \cup ({unlockToken} \ {None, revoked})

UnlockRequest == Request("unlock", <<>>, None, NoOp)
LockRequest   == Request("lock", <<>>, unlockToken, NoOp)

(* doUnlock of any page, up to its await.  Nothing keeps it from being      *)
(* called again meanwhile.                                                  *)
BeginUnlock ==
  /\ Begin("unlock", UnlockRequest, NothingKept)
  /\ UNCHANGED <<serverVars, session, mount, view, faults>>

(* The fixtures need no token.                                              *)
MockUnlock(closed) ==
  /\ UnlockWrites(None) /\ view' = closed
  /\ UNCHANGED <<serverVars, settings, mount, tasks, faults>>

(* History: the tokens in these answers.                                    *)
Tokens(answered) ==
  {t.ans.trace : t \in {u \in answered : u.req.path = "unlock" /\ u.ans.done}}

EndUnlock(t, closed) ==
  /\ Resumes(t, "unlock")
  /\ Ends(t)
  /\ IF t.ans.ok
     THEN UnlockWrites(t.ans.value) /\ SetView(t, closed)
     ELSE /\ orphans' = orphans \cup Tokens({t})
          /\ UNCHANGED <<readOnly, unlockToken, view>>
  /\ UNCHANGED <<serverVars, settings, mount, faults>>

----------------------------------------------------------------------------
(* The Settings page *)

(* The draft of the settings is an input of Save: nothing else reads it.    *)
SettingsView == [page |-> "settings", dialog |-> "closed", saving |-> FALSE, testing |-> FALSE]

OnSettings == view.page = "settings"

Quiet == UNCHANGED <<serverVars, session, mount, tasks, faults>>

(* Which buttons the page offers.  A dialog covers them; its own wants the  *)
(* name of the environment typed in.                                        *)
SettingsButtons ==
  LET page == view.dialog = "closed"
  IN  [ reset |-> page, save |-> page /\ ~view.saving, test |-> page /\ ~view.testing,
        ask |-> page /\ readOnly, lock |-> page /\ ~readOnly,
        cancel |-> ~page, unlock |-> ~page ]

TestRequest            == Request("test", <<>>, None, NoOp)
ConnectionRequest(url) == Request("connection", <<url>>, None, NoOp)

(* A draft of the mock mode, or whose address is none, is tested without    *)
(* the server.                                                              *)
TestConnection ==
  /\ OnSettings /\ SettingsButtons.test
  /\ Begin("test", TestRequest, NothingKept)
  /\ view' = [view EXCEPT !.testing = TRUE]
  /\ UNCHANGED <<serverVars, session, mount, faults>>

EndTest(t) ==
  /\ Resumes(t, "test")
  /\ Ends(t)
  /\ SetView(t, [view EXCEPT !.testing = FALSE])
  /\ UNCHANGED <<serverVars, session, mount, faults>>

(* Defective: only going live needs the server, not another address.        *)
BugNeedsServer(draft) == draft.dataMode = "live" /\ ~Live
(* A live connection that is new to the server is put to it first.          *)
NeedsServer(draft) ==
  draft.dataMode = "live" /\ (draft.voltApiUrl # settings.voltApiUrl \/ ~Live)

Save(draft) ==
  /\ OnSettings /\ SettingsButtons.save /\ draft # settings
  /\ IF NeedsServer(draft)
     THEN /\ Begin("save", ConnectionRequest(draft.voltApiUrl),
                   [NothingKept EXCEPT !.choice = draft])
          /\ view' = [view EXCEPT !.saving = TRUE]
          /\ UNCHANGED settings
     ELSE settings' = draft /\ UNCHANGED <<tasks, view>>
  /\ UNCHANGED <<serverVars, lock, mount, faults>>

(* A connection the server refuses is not saved.                            *)
EndSave(t) ==
  /\ Resumes(t, "save")
  /\ Ends(t)
  /\ settings' = IF t.ans.ok THEN t.kept.choice ELSE settings
  /\ SetView(t, [view EXCEPT !.saving = FALSE])
  /\ UNCHANGED <<serverVars, lock, mount, faults>>

(* The default settings come back without the server.                       *)
ResetSettings ==
  /\ OnSettings /\ SettingsButtons.reset
  /\ settings' = DefaultSettings
  /\ UNCHANGED <<serverVars, lock, mount, view, tasks, faults>>

(* A dialog is opened or closed.                                            *)
ShowDialog(dialog) == view' = [view EXCEPT !.dialog = dialog] /\ Quiet

AskUnlock     == OnSettings /\ SettingsButtons.ask /\ ShowDialog("unlock")
CancelUnlock  == OnSettings /\ SettingsButtons.cancel /\ ShowDialog("closed")
ConfirmUnlock ==
  /\ OnSettings /\ SettingsButtons.unlock
  /\ IF Live THEN BeginUnlock ELSE MockUnlock([view EXCEPT !.dialog = "closed"])

(* doLock: the token is revoked on the server before it is forgotten.       *)
Lock ==
  /\ OnSettings /\ SettingsButtons.lock /\ Live
  /\ Begin("lock", LockRequest, NothingKept)
  /\ UNCHANGED <<serverVars, session, mount, view, faults>>

EndLock(t) ==
  /\ Resumes(t, "lock")
  /\ Ends(t)
  /\ LockWrites(IF t.ans.done THEN t.req.token ELSE None)
  /\ UNCHANGED <<serverVars, settings, mount, view, faults>>

(* The fixtures' lock revokes nothing, also not a token of the live mode.   *)
MockLock ==
  /\ OnSettings /\ SettingsButtons.lock /\ ~Live
  /\ LockWrites(None)
  /\ UNCHANGED <<serverVars, settings, mount, tasks, view, faults>>

(* The banner above every page of the mock mode: live at a click, with the  *)
(* address the settings hold, and without the server.                       *)
SwitchToLive ==
  /\ ~Live
  /\ settings' = [settings EXCEPT !.dataMode = "live"]
  /\ UNCHANGED <<serverVars, lock, mount, view, tasks, faults>>

Drafts == [dataMode : DataModes, voltApiUrl : Urls]

ChangeSettings ==
  ResetSettings \/ SwitchToLive \/ TestConnection \/ \E draft \in Drafts : Save(draft)

SettingsNext ==
  \/ AskUnlock \/ CancelUnlock \/ ConfirmUnlock
  \/ Lock \/ MockLock
  \/ \E t \in tasks : EndSave(t) \/ EndTest(t) \/ EndLock(t)
=============================================================================
