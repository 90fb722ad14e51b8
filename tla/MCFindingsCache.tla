-------------------------- MODULE MCFindingsCache ---------------------------
(* An instance of FindingsCache: one repository name on two services.      *)
EXTENDS FindingsCache, TLC

CONSTANTS t1, g1, g2, a, b, id1, s1, f1

GoroutineSymmetry == Permutations({g1, g2})

MCTools == {t1}
MCBodies == {a, b}
MCTitles == {"bug"}
MCNormalize == [x \in MCBodies |-> "bug"]
MCFirstLine == [x \in MCBodies |-> x]
MCTokenize == [x \in MCTitles |-> {"bug"}]
MCPRKeys == {[provider |-> p, repo |-> "org/app", number |-> 7] : p \in {"github", "gitlab"}}
MCComments == {[file |-> f1, sev |-> "warn", body |-> a, ls |-> 1, le |-> 1]}
=============================================================================
