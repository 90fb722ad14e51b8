---------------------------- MODULE FindingsBoard ----------------------------
(***************************************************************************)
(* What Cadoo promises of a PR's findings, without comments, stores and    *)
(* ids: a board with one place per finding (README.md, "Idempotent         *)
(* comments").  A finding comes up once, after a job has reported it, is   *)
(* closed by the tool it belongs to when a job of it no longer reports it, *)
(* or by a reviewer, and does not come up again.                           *)
(***************************************************************************)
CONSTANTS Keys,    \* findings; k.tool is the tool of k
          Procs,   \* jobs
          ToolOf   \* [Procs -> tools]

VARIABLES board,   \* [Keys -> {"absent", "open", "user", "cadoo"}]
          found    \* what each job that has its tool's answer has reported

boardVars == <<board, found>>

Own(p) == {k \in Keys : k.tool = ToolOf[p]}

BoardInit ==
  /\ board = [k \in Keys |-> "absent"]
  /\ found = [p \in {} |-> {}]

\* The tool of p answers.
Report(p) ==
  /\ p \in DOMAIN found' \ DOMAIN found
  /\ UNCHANGED board
  /\ \E S \in SUBSET Own(p) :
       found' = [q \in DOMAIN found \cup {p} |-> IF q = p THEN S ELSE found[q]]

\* Some of the findings that are not on the board are put there, at once.
Post(p) ==
  /\ p \in DOMAIN found
  /\ UNCHANGED found
  /\ \E new \in SUBSET {k \in found[p] : board[k] = "absent"} :
       board' = [k \in Keys |-> IF k \in new THEN "open" ELSE board[k]]

\* A job closes a finding of its tool that it has not reported.
CloseStale(p) ==
  /\ p \in DOMAIN found
  /\ UNCHANGED found
  /\ \E k \in Own(p) \ found[p] :
       /\ board[k] = "open"
       /\ board' = [board EXCEPT ![k] = "cadoo"]

CloseByReviewer ==
  /\ UNCHANGED found
  /\ \E k \in Keys : board[k] = "open" /\ board' = [board EXCEPT ![k] = "user"]

\* Jobs end, in whatever way.
End ==
  /\ UNCHANGED board
  /\ \E P \in SUBSET DOMAIN found : found' = [p \in DOMAIN found \ P |-> found[p]]

BoardNext ==
  \/ \E p \in Procs : Report(p) \/ Post(p) \/ CloseStale(p)
  \/ CloseByReviewer
  \/ End

BoardSpec == BoardInit /\ [][BoardNext]_boardVars

=============================================================================
