------------------------------ MODULE SqlText ------------------------------
(***************************************************************************)
(* The text of the SQL console (ui/src/lib/sqlParse.ts), which the browser *)
(* and the console's server both read: cutting it into statements,         *)
(* stripping comments, sqlcmd's exec, and the classification of a          *)
(* statement as read or write.                                             *)
(*                                                                         *)
(* A text is a sequence of symbols.  A symbol is a character the lexer     *)
(* looks at, or a word that no rule looks into.                            *)
(***************************************************************************)
EXTENDS Integers, Sequences, SequencesExt, FiniteSetsExt

NewLine == "nl"
Blank   == {"sp", NewLine}
Quotes  == {"'", "\""}
Dash    == "-"
Semi    == ";"

(* Procedures by their names in the source.  Two of them are also spelled   *)
(* in lower case, one with its package.                                     *)
ReadProcedures     == {"GetRollingFeatures", "GetMerchantFeatures", "GetCounters"}
MutatingProcedures == {"RecordTxn", "BumpCounter", "@Shutdown"}
ReadSystem         == {"@Statistics", "@SystemCatalog", "@SystemInformation", "@Explain"}
WriteWords         == {"insert", "delete", "create"}

(* A spelling stands for a procedure: upper case compares equal.            *)
Canonical(p) ==
  CASE p = "@shutdown" -> "@Shutdown" [] p = "@statistics" -> "@Statistics"
    [] p = "@adhoc" -> "@AdHoc" [] OTHER -> p

(* The package of the classes is dropped from a name.                       *)
Unpackaged(p) == IF p = "com.novapay.poc.procedures.RecordTxn" THEN "RecordTxn" ELSE p

----------------------------------------------------------------------------
(* The lexer.  Its mode after i symbols is code, comment or the quote it is *)
(* in.  splitStatements reads the whole text in one go, stripComments every *)
(* line anew, which closes a quote at the end of a line.                    *)

After(mode, s, i, perLine) ==
  IF s[i] = NewLine /\ (perLine \/ mode = "comment") THEN "code"
  ELSE IF mode = "comment" THEN "comment"
  ELSE IF mode \in Quotes THEN (IF s[i] = mode THEN "code" ELSE mode)
  ELSE IF s[i] \in Quotes THEN s[i]
  ELSE IF s[i] = Dash /\ i < Len(s) /\ s[i + 1] = Dash THEN "comment"
  ELSE "code"

Modes(s, perLine) ==
  LET mode[i \in 0 .. Len(s)] == IF i = 0 THEN "code" ELSE After(mode[i - 1], s, i, perLine)
  IN  mode

Trimmed(s) ==
  LET ink == {i \in DOMAIN s : s[i] \notin Blank}
  IN  IF ink = {} THEN <<>> ELSE SubSeq(s, Min(ink), Max(ink))

Stripped(s) ==
  LET mode == Modes(s, TRUE)
  IN  FoldLeftDomain(LAMBDA kept, i : IF mode[i] = "comment" THEN kept ELSE Append(kept, s[i]),
                     <<>>, s)

(* Where a statement ends: a semicolon read as code.                        *)
Cuts(s) ==
  LET mode == Modes(s, FALSE)
  IN  {i \in DOMAIN s : s[i] = Semi /\ mode[i - 1] = "code"}

Pieces(s) ==
  LET cuts == Cuts(s)
      grow(acc, i) == IF i \in cuts THEN [out |-> Append(acc.out, acc.cur), cur |-> <<>>]
                      ELSE [acc EXCEPT !.cur = Append(@, s[i])]
      end == FoldLeftDomain(grow, [out |-> <<>>, cur |-> <<>>], s)
  IN  Append(end.out, end.cur)

SplitStatements(s) ==
  SelectSeq([i \in DOMAIN Pieces(s) |-> Trimmed(Stripped(Pieces(s)[i]))], LAMBDA p : p # <<>>)

----------------------------------------------------------------------------
(* exec and its arguments *)

(* The first place at or after i whose symbol is one of S, or the end.      *)
NextIn(s, i, S) == Min({j \in i .. Len(s) : s[j] \in S} \cup {Len(s) + 1})
SkipAll(s, i, S) == Min({j \in i .. Len(s) : s[j] \notin S} \cup {Len(s) + 1})

Separators == Blank \cup {","}

(* A number the browser can hold becomes one; a larger one stays a text.    *)
Argument(token) == [kind |-> IF token = <<"7">> THEN "number" ELSE "text", token |-> token]

(* The arguments from position i on.  A quoted one keeps its separators and *)
(* ends at the quote that opened it, or with the text.                      *)
TokenizeArgs(s) ==
  LET from[i \in 1 .. Len(s) + 2] ==
        LET start  == SkipAll(s, i, Separators)
            quoted == s[start] \in Quotes
            stop   == IF quoted THEN NextIn(s, start + 1, {s[start]}) ELSE NextIn(s, start, Separators)
        IN  IF start > Len(s) THEN <<>>
            ELSE IF quoted
            THEN <<[kind |-> "text", token |-> SubSeq(s, start + 1, stop - 1)]>> \o from[stop + 1]
            ELSE <<Argument(SubSeq(s, start, stop - 1))>> \o from[stop]
  IN  from[1]

(* Blanks and semicolons are dropped from the end.                          *)
WithoutTail(s) ==
  LET ink == {i \in DOMAIN s : s[i] \notin Blank \cup {Semi}}
  IN  IF ink = {} THEN <<>> ELSE Trimmed(SubSeq(s, 1, Max(ink)))

(* Symbols no word continues over.                                          *)
Marks == Blank \cup Quotes \cup {Dash, Semi, ","}

ParseStatement(raw) ==
  LET text == WithoutTail(raw)
      name == SkipAll(text, 2, Blank)
      stop == NextIn(text, name, Blank)
  IN  IF Len(text) >= 3 /\ text[1] = "exec" /\ text[2] \in Blank
      THEN [kind |-> "exec", procedure |-> SubSeq(text, name, stop - 1),
            params |-> TokenizeArgs(SubSeq(text, stop, Len(text))), text |-> text]
      ELSE [kind |-> "sql", text |-> text,
            readOnly |-> ~(/\ text # <<>> /\ text[1] \in WriteWords
                           /\ Len(text) > 1 => text[2] \in Marks)]

(* A procedure is one word; what else \S+ matches names nothing.            *)
NameOf(symbols) == IF Len(symbols) = 1 THEN symbols[1] ELSE "no such procedure"

(* Defective: what is not known to write is let through.                    *)
BugClassify(st) ==
  IF st.kind = "sql" THEN st.readOnly
  ELSE Unpackaged(NameOf(st.procedure)) \notin MutatingProcedures
(* What the locked console lets through.  The names of procedures are       *)
(* compared as they are spelled, those of the system's in any case.         *)
Classify(st) ==
  IF st.kind = "sql" THEN st.readOnly
  ELSE LET p == Unpackaged(NameOf(st.procedure))
       IN  p \notin MutatingProcedures /\ (p \in ReadProcedures \/ Canonical(p) \in ReadSystem)
=============================================================================
