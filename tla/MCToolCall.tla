----------------------------- MODULE MCToolCall -----------------------------
(* An instance of ToolCall.                                                *)
EXTENDS ToolCall

F(file, line, last, sev) == [file |-> file, line |-> line, last |-> last, sev |-> sev]

\* A file renamed only; a hunk that removes, adds and keeps lines.
MCPatches == {<<>>, <<Hunk(3), Context, Removed, Added, Context, Added, NoNewline>>}

\* Findings on added lines, on a kept one, and on a file; of one line, of
\* several with an end outside the diff, and with an end before the start.
MCOutputs ==
  {<<>>, <<F(1, 4, 4, "block")>>,
   <<F(1, 5, 5, "warn"), F(1, 6, 9, "block"), F(2, 4, 0, "warn")>>,
   <<F(1, 0, 0, "nit"), F(2, 6, 5, "nit")>>}

MCConfigs ==
  {[threshold |-> "warn", maxComments |-> 30, silentOnClean |-> TRUE,
    skipIfOnlyNits |-> TRUE, minToPost |-> 1, blockOn |-> {"block"}],
   [threshold |-> "nit", maxComments |-> 1, silentOnClean |-> FALSE,
    skipIfOnlyNits |-> FALSE, minToPost |-> 0, blockOn |-> {"block", "warn"}],
   [threshold |-> "nit", maxComments |-> 2, silentOnClean |-> FALSE,
    skipIfOnlyNits |-> TRUE, minToPost |-> 2, blockOn |-> {"nit", "block"}]}

\* Only the last file may be one that is just renamed, and it passes the
\* filters; what the diff and the configuration are matters to /review alone.
MCInit ==
  /\ Init
  /\ size[1] # 0 /\ size[2] # 0 /\ 3 \in kept
  /\ tool # "review" => /\ cfg = CHOOSE c \in Configs : TRUE
                        /\ kept = Files /\ size = [f \in Files |-> 5]

MCSpec == MCInit /\ [][Next]_toolVars /\ Fairness

MCRuleSev == <<"block", "warn">>
MCCallLists == {<<"grep">>, <<"no_such_tool", "read_file">>}
=============================================================================
