----------------------------- MODULE SqlConsole -----------------------------
(***************************************************************************)
(* The SQL console (ui/src/pages/SqlConsole.tsx): a text is cut into       *)
(* statements, which are sent one after the other, whatever became of the  *)
(* one before, and the outcome is entered in a history kept in the         *)
(* browser's storage.                                                      *)
(***************************************************************************)
EXTENDS ConsoleSession

CONSTANTS
  Texts,      \* texts the editor may hold when the page is opened first
  LateTexts,  \* texts it holds later
  MaxHistory  \* entries the history keeps

ASSUME SqlAssumption == LateTexts \subseteq Texts /\ MaxHistory \in Nat

VARIABLE history  \* the outcomes kept, newest first

SqlView(text) ==
  [page |-> "sql", text |-> text, groups |-> <<>>, plan |-> None, busy |-> FALSE]

OnSql == view.page = "sql"

Statements(text) == [i \in DOMAIN SplitStatements(text) |-> ParseStatement(SplitStatements(text)[i])]

(* The badge beside the Run button names what the guard would block.        *)
Blocked(text) == {i \in DOMAIN Statements(text) : ~Classify(Statements(text)[i])}

(* The buttons of the page; the keys that run come to the same guard.       *)
SqlButtons == [run |-> ~view.busy, explain |-> ~view.busy /\ Statements(view.text) # <<>>]

(* The text is typed, or picked from the snippets or the history, whatever  *)
(* is under way; what is shown of the statements run before stays.          *)
Edit(text) ==
  /\ OnSql /\ text # view.text
  /\ view' = [view EXCEPT !.text = text]
  /\ UNCHANGED <<serverVars, session, mount, tasks, faults, history>>

(* What a statement does in the database is left open: it is none of the    *)
(* story's.                                                                 *)
RunNext(env, left) == StatementRun(env, Head(left), NoOp)

(* run; the opts, and with them the token, are those of its start.          *)
Run ==
  LET list == Statements(view.text)
  IN  /\ OnSql /\ SqlButtons.run /\ list # <<>>
      /\ view' = [view EXCEPT !.busy = TRUE, !.plan = None]
      /\ BeginCall("run", RunNext(Captured, <<list[1].text>>),
                   [NothingKept EXCEPT !.texts = [i \in DOMAIN list |-> list[i].text],
                                       !.source = view.text])
      /\ UNCHANGED <<serverVars, session, mount, faults, history>>

(* Defective: the oldest entries are kept as well.                          *)
BugKept(entries) == entries
Kept(entries) == SubSeq(entries, 1, Min({MaxHistory, Len(entries)}))

(* The next statement, or the end.  A page that is gone enters nothing in   *)
(* the history.                                                             *)
EndStatement(t) ==
  LET left == Tail(t.kept.texts)
      out  == Append(t.kept.points, IF t.ans.ok THEN 1 ELSE 0)
      item == [ok |-> \A i \in DOMAIN out : out[i] = 1, locked |-> t.env.readOnly]
  IN  /\ Resumes(t, "run")
      /\ IF left # <<>>
         THEN /\ Sends(t, "sent", RunNext(t.env, left),
                       [t.kept EXCEPT !.texts = left, !.points = out])
               /\ UNCHANGED <<view, history>>
         ELSE /\ Ends(t)
              /\ SetView(t, [view EXCEPT !.groups = out, !.busy = FALSE])
              /\ history' = IF Mounted(t)
                            THEN Kept(<<item>> \o history) ELSE history
      /\ UNCHANGED <<serverVars, session, mount, faults>>

(* explain asks for the plan of the statement that is shown.                *)
Explain ==
  /\ OnSql /\ SqlButtons.explain
  /\ view' = [view EXCEPT !.busy = TRUE]
  /\ BeginCall("explain", ProcedureCall(Captured, "@Explain", NoOp), NothingKept)
  /\ UNCHANGED <<serverVars, session, mount, faults, history>>

EndExplain(t) ==
  /\ Resumes(t, "explain")
  /\ Ends(t)
  /\ SetView(t, [view EXCEPT !.plan = t.ans.ok, !.busy = FALSE])
  /\ UNCHANGED <<serverVars, session, mount, faults, history>>

SqlNext ==
  \/ Run \/ Explain
  \/ \E text \in LateTexts : Edit(text)
  \/ \E t \in tasks : EndStatement(t) \/ EndExplain(t)
=============================================================================
