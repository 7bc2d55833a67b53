------------------------------ MODULE MCConsole ------------------------------
(* Small instance of Console.                                               *)
EXTENDS Console

(* Every text of up to four symbols the lexer looks at, and calls.          *)
Exec(name) == <<"exec", "sp">> \o name
AdHoc(argument) == Exec(<<"@adhoc", "sp", "'">> \o argument \o <<"'">>)

MCLateTexts == {Exec(<<"RecordTxn">>) \o <<";">> \o Exec(<<"GetCounters">>)}

MCTexts ==
  UNION {[1 .. n -> {"'", "-", ";", "nl"}] : n \in 1 .. 4}
  \cup MCLateTexts
  \cup {Exec(<<p>>) : p \in {"@Shutdown", "@shutdown", "BumpCounter",
                             "com.novapay.poc.procedures.RecordTxn"}}
  \cup {Exec(<<"@statistics", "sp", s>>) : s \in {"TABLE", "COLUMNS"}}
  \cup {Exec(<<"@SystemCatalog", ",", s>>) : s \in {"COLUMNS", "7"}}
  \cup {AdHoc(<<"insert", "sp", "7">>), AdHoc(<<"7">>),
        AdHoc(Exec(<<"GetCounters">>)), AdHoc(Exec(<<"BumpCounter">>))}
  \cup {<<"insert", ";">> \o Exec(<<"GetCounters">>), <<"-", "-", "insert", "nl", "delete">>}

MCTours ==
  { <<"sql">>, <<"hygiene">>, <<"explorer">>, <<"procedures">>, <<"control">>,
    <<"runbook">>, <<"settings", "settings">>, <<"story", "settings">> }

MCSeedDays == <<2, 3>>
=============================================================================
