------------------------------ MODULE MCCIRuns ------------------------------
(***************************************************************************)
(* Instances of CIRuns for TLC.                                            *)
(***************************************************************************)
EXTENDS CIRuns, TLC

\* Titles: a0 and a1 are one finding reworded (2 of 4 words in common, 0.5),
\* a2 is looser (0.33 to a0 and a1), z is another finding.
MCTitles == {"a0", "a1", "a2", "z"}
MCTokenize ==
  [t \in MCTitles |-> CASE t = "a0" -> {"nil", "deref", "user"}
                        [] t = "a1" -> {"nil", "deref", "config"}
                        [] t = "a2" -> {"nil"}
                        [] t = "z"  -> {"leak"}]

\* Bodies: one per title, and a second, longer body with the title a0.
MCBodies == {"a0", "a0long", "a1", "a2", "z"}
MCNormalizeTitle == [b \in MCBodies |-> IF b = "a0long" THEN "a0" ELSE b]
MCFirstLine == [b \in MCBodies |-> IF b = "a0long" THEN "a0" ELSE b]

C(f, b, l) == [file |-> f, sev |-> "warn", body |-> b, ls |-> l, le |-> l]

MCProcs == Runs \X Tools
MCToolOf == [p \in MCProcs |-> p[2]]
MCStoreOf == [p \in MCProcs |-> p[1]]

Out(summary, inline, ks, edit) ==
  [summary |-> summary, inline |-> inline, checks |-> ks, edit |-> edit]

\* Inline findings: one tool, reworded, moved and unrelated findings.
InlineSets == {{}, {C("f1", "a0", 1)}, {C("f1", "a0long", 2)}, {C("f1", "a1", 2)},
               {C("f1", "a2", 2)}, {C("f2", "a0", 1)}, {C("f1", "a0", 1), C("f1", "a0long", 2)},
               {C("f1", "a0", 1), C("f2", "z", 1)}}
InlineResults ==
  [t \in Tools |-> {Out(s, i, {}, FALSE) : s \in BOOLEAN, i \in InlineSets}]

\* Summaries only: every tool writes a section or nothing.
SummaryResults == [t \in Tools |-> {Out(s, {}, {}, FALSE) : s \in BOOLEAN}]

\* /describe writes its section; /review reports a blocking finding, in one
\* of two wordings and places, and a red verdict, or nothing and a green one.
Blocking == {[C("f1", "a0", 1) EXCEPT !.sev = "block"],
             [C("f1", "a1", 2) EXCEPT !.sev = "block"]}
Verdict(s) == {[name |-> ReviewCheckName, status |-> s]}
GateResults ==
  [t \in Tools |->
     IF t = "describe" THEN {Out(FALSE, {}, {}, TRUE)}
     ELSE {Out(FALSE, {c}, Verdict("failed"), FALSE) : c \in Blocking}
          \cup {Out(FALSE, {}, Verdict("succeeded"), FALSE)}]

\* One finding, worded one way or the other, and the verdict.
ReviewResults ==
  [t \in Tools |->
     {Out(FALSE, {C("f1", b, 1)}, Verdict("succeeded"), FALSE) : b \in {"a0", "a1"}}]

=============================================================================
