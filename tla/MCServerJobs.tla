---------------------------- MODULE MCServerJobs ----------------------------
(***************************************************************************)
(* Instances of ServerJobs for TLC.                                        *)
(***************************************************************************)
EXTENDS ServerJobs, TLC

\* Titles: a0 and a1 are one finding reworded, z is another.
MCTitles == {"a0", "a1", "z"}
MCTokenize ==
  [t \in MCTitles |-> CASE t = "a0" -> {"nil", "deref", "user"}
                        [] t = "a1" -> {"nil", "deref", "config"}
                        [] t = "z"  -> {"leak"}]
MCSame == [b \in MCTitles |-> b]

C(f, b, l) == [file |-> f, sev |-> "warn", body |-> b, ls |-> l, le |-> l]

MCProcs == Workers \X (1..Slots) \X Tools
MCToolOf == [p \in MCProcs |-> p[3]]
MCMuOf == [p \in MCProcs |-> p[1]]
MCStoreOf == [p \in MCProcs |-> "posted"]

\* Webhook defaults: /review and /describe when a PR is opened.
MCAuto == [t \in Tools |-> IF t \in {"review", "describe"} THEN "on_open" ELSE "never"]
MCAlways == [t \in Tools |-> "always"]

Green == {[name |-> ReviewCheckName, status |-> "succeeded"]}
Out(s, i) == [summary |-> s, inline |-> i, checks |-> Green, edit |-> FALSE]

\* /review with one finding, reworded, moved, or joined by another.
ReviewResults ==
  [t \in Tools |-> {Out(FALSE, i) : i \in {{}, {C("f1", "a0", 1)}, {C("f1", "a0", 2)},
                                          {C("f1", "a1", 1)}, {C("f1", "a0", 1), C("f1", "z", 2)}}}]
OneFinding == [t \in Tools |-> {Out(FALSE, {C("f1", "a0", 1)})}]
\* A section or a finding, one at a time; the finding is the one of the legacy
\* row or a new one.
Either ==
  [t \in Tools |-> {Out(TRUE, {}), Out(FALSE, {C("f1", "a0", 1)}), Out(FALSE, {C("f1", "z", 2)})}]

NoLegacy == {}
OldFinding == {C("f1", "a0", 1)}

=============================================================================
