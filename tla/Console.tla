------------------------------- MODULE Console -------------------------------
(***************************************************************************)
(* The console: one browser that walks through its pages, reloads, and     *)
(* leaves functions behind that still await answers; the server they ask;  *)
(* and the tail of the dead-letter topic behind the Ingest Hygiene page.   *)
(***************************************************************************)
EXTENDS SqlConsole, DecayStory, DemoControlPage, CallPages, TopicTail

CONSTANTS
  Tours  \* bound: walks through the pages, as sequences of pages

ASSUME ConsoleAssumption == \A walk \in Tours : walk # <<>>

VARIABLE tour  \* the pages still to be visited

client == <<session, mount, view, history, tour>>
vars   == <<serverVars, tasks, faults, client, tailVars>>

Pages == {"settings", "sql", "story", "control", "explorer", "procedures", "runbook", "hygiene"}

(* A page as it is mounted.                                                 *)
Views(page, texts) ==
  CASE page = "settings" -> {SettingsView}
    [] page = "sql"      -> {SqlView(text) : text \in texts}
    [] page = "story"    -> {StoryView}
    [] page = "control"  -> {ControlView}
    [] page = "explorer" -> {ExplorerView(s) : s \in Subjects}
    [] page = "hygiene"  -> {[page |-> page]}
    [] page = "runbook"  -> {RunbookView(s) : s \in RunbookSteps \cup {Shrink}}
    [] OTHER             -> {ProceduresView(p) : p \in Invocations}

(* The rows of the story's customer are those of an earlier showing; an     *)
(* earlier page has unlocked the session of pages that only use the lock.   *)
Init ==
  /\ ServerInit /\ TailInit
  /\ daily = [d \in ToSet(SeedDays) |-> SeedAmount]
  /\ settings \in [dataMode : DataModes, voltApiUrl : {DefaultUrl}]
  /\ unlockToken = (IF issued = 1 THEN 1 ELSE None) /\ orphans = {}
  /\ readOnly \in BOOLEAN /\ (issued = 1 <=> Live /\ ~readOnly)
  /\ mount = 1 /\ history = <<>>
  /\ \E walk \in Tours :
       /\ tour = Tail(walk) /\ view \in Views(Head(walk), Texts)
       /\ readOnly \/ view.page \in {"sql", "procedures", "runbook"}
       /\ "hygiene" \notin ToSet(walk) => topic = <<>>

Navigate ==
  /\ tour # <<>>
  /\ view' \in Views(Head(tour), LateTexts)
  /\ tour' = Tail(tour) /\ mount' = mount + 1
  /\ UNCHANGED <<serverVars, tasks, faults, session, history, tailVars>>

(* The settings and the history are in the browser's storage, the lock is   *)
(* not.  Requests on their way are still served, and answered to no one;    *)
(* those that read are of no more interest.  Bound: a walk ends with a      *)
(* reload.                                                                  *)
Served(t) ==
  /\ t.ans = None
  /\ \/ t.req.op.do \in {"insert", "delete"}
     \/ t.req.path \in {"produce", "control", "unlock", "lock", "connection"}

(* What the browser keeps under the key of the history.                     *)
Restored == UNCHANGED history

Reload ==
  /\ Fault /\ mount < MaxMounts
  /\ readOnly' = TRUE /\ unlockToken' = None
  /\ orphans' = orphans \cup Tokens({t \in tasks : t.ans # None}) \cup ({unlockToken} \ {None})
  /\ tasks' = {[t EXCEPT !.fn = "gone", !.at = "sent", !.env = NoOptions, !.kept = NothingKept] :
                 t \in {u \in tasks : Served(u)}}
  /\ view' \in Views(view.page, LateTexts)
  /\ mount' = mount + 1 /\ tour' = <<>>
  /\ Restored /\ UNCHANGED <<serverVars, settings, tailVars>>

Forget(t) ==
  /\ Resumes(t, "gone")
  /\ Ends(t)
  /\ orphans' = orphans \cup Tokens({t})
  /\ UNCHANGED <<serverVars, faults, settings, readOnly, unlockToken, mount, view>>

(* Every page's doUnlock ends alike, and the dialog closes where there is   *)
(* one.                                                                     *)
Unlocked(t) ==
  EndUnlock(t, IF view.page \in {"settings", "control"} /\ view.dialog = "unlock"
               THEN [view EXCEPT !.dialog = "closed"] ELSE view)

(* The Hygiene page tails in live mode, when the settings say so.           *)
TailEnabled == view.page = "hygiene" /\ Live

(* Bound: settings change on the first page of a walk, when no unlock, lock *)
(* or test is under way, or while a save of that page is.                   *)
MayChange ==
  LET under(fns) == \E t \in tasks : t.fn \in fns
  IN  (mount = 1 /\ ~under({"unlock", "lock", "test"})) \/ under({"save"})

Next ==
  \/ ServerNext /\ UNCHANGED <<client, tailVars>>
  \/ /\ \/ MayChange /\ ChangeSettings
        \/ SettingsNext \/ StoryNext \/ ControlNext \/ CallsNext
        \/ \E t \in tasks : AnswerFromFixtures(t) \/ Unlocked(t) \/ Forget(t)
     /\ UNCHANGED <<history, tour, tailVars>>
  \/ SqlNext /\ UNCHANGED <<tour, tailVars>>
  \/ Navigate \/ Reload
  \/ /\ TailEnabled
     /\ TailNext
     /\ UNCHANGED <<serverVars, tasks, faults, client>>

Spec == Init /\ [][Next]_vars

----------------------------------------------------------------------------
(* Properties *)

(* The tokens, the settings, the mounted page and the requests in the air    *)
(* are well typed; a request is told by its id.                             *)
TypeOK ==
  /\ issued \in 0 .. MaxTokens
  /\ DOMAIN tokens \subseteq 1 .. issued /\ dead \subseteq 1 .. issued
  /\ orphans \subseteq 1 .. issued /\ unlockToken \in {None} \cup 1 .. issued
  /\ \A k \in DOMAIN tokens : tokens[k] \in {"live", "expired"}
  /\ accepted \subseteq AllowedUrls /\ upstream \in accepted \cup {EnvUrl}
  /\ job \in BOOLEAN
  /\ settings \in [dataMode : DataModes, voltApiUrl : Urls]
  /\ readOnly \in BOOLEAN
  /\ view.page \in Pages
  /\ stream + recorded \in 0 .. MaxEvents
  /\ Cardinality(tasks) <= MaxTasks
  /\ \A t, u \in tasks : t.id = u.id => t = u
  /\ \A t \in tasks : t.pass \in {"no", "locked", "unlocked"}
  /\ Len(history) <= MaxHistory

(* What changes the rows of the story, puts an event on the topic or starts *)
(* the reset is done for a request that was let through while the token it  *)
(* carries was in force: neither revoked, nor lost, nor fifteen minutes     *)
(* old, whatever the page that sent it still believed.  A lock or an expiry *)
(* after that look does not call the request back (index.ts, policy.ts).    *)
CameThrough(t) == t.pass = "unlocked" \/ (t.pass = "no" /\ InForce(t.req.token))

ChangesWereLetThrough ==
  [][ \/ daily' # daily /\ stream' = stream
      \/ stream' > stream
      \/ job' /\ ~job
      => \E t \in tasks, u \in tasks' :
           /\ t.id = u.id /\ t.ans = None /\ u.ans # None
           /\ CameThrough(t) ]_vars

(* A token the server would still honour is the one the browser carries, in *)
(* an answer on its way, or among those the browser lost without asking for *)
(* their revocation: a lock that reached the server leaves none behind.     *)
LiveTokensAccountedFor ==
  \A token \in DOMAIN tokens :
    tokens[token] = "live" =>
      \/ token = unlockToken \/ token \in orphans
      \/ token \in Tokens({t \in tasks : t.ans # None})

(* In live mode the console goes to another address only when the server    *)
(* has accepted that address, or it is the one of the default settings, or  *)
(* empty, which both need no one's consent, however saving, resetting, the  *)
(* banner and leaving the page interleave.  (Save; the banner of the mock   *)
(* mode turns live on with whatever address was saved in mock mode.)        *)
LiveUrlChangesAreAccepted ==
  [][ settings'.voltApiUrl # settings.voltApiUrl /\ settings'.dataMode = "live"
      => settings'.voltApiUrl \in accepted' \cup {DefaultUrl, NoUrl} ]_vars

(* A quote that is not closed on its line.                                  *)
QuoteSpansLines(text) ==
  \E i \in DOMAIN text : text[i] = NewLine /\ Modes(text, FALSE)[i - 1] \in Quotes

(* The browser and the server judge a text alike: a statement the page cut  *)
(* out of it is one statement to the server, and one the page did not flag  *)
(* does not count as a write there.  (A literal that spans lines is read    *)
(* differently by the two passes of the lexer.)                             *)
JudgedAlike ==
  \A t \in tasks :
    t.fn = "run" /\ ~QuoteSpansLines(t.kept.source) =>
      /\ SplitStatements(t.req.text) = <<t.req.text>>
      /\ Classify(ParseStatement(t.req.text))
           => ~EvaluateCall(CallOf(t.req.text), FALSE).mutating
=============================================================================
