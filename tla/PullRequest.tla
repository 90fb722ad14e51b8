---------------------------- MODULE PullRequest -----------------------------
(***************************************************************************)
(* One pull request on the hosting service, as Cadoo's adapters see and    *)
(* change it (internal/vcs/github, internal/vcs/gitlab), and what its      *)
(* author may do to it at any time.                                        *)
(*                                                                         *)
(* The hosting service itself is external: it is modelled from the calls   *)
(* the adapters make and the answers they handle.  A call that can fail    *)
(* has its failing outcomes only when Faults names them, so that a model   *)
(* states which failures it admits:                                        *)
(*                                                                         *)
(*   "fetch"     FetchPullRequest fails                                    *)
(*   "list"      ListChangedFiles fails                                    *)
(*   "diff"      DiffBetween answers (nil, nil): force-push or API error   *)
(*   "update"    UpdateSummaryComment fails on a comment that exists       *)
(*   "create"    PostSummaryComment fails                                  *)
(*   "tool"      the tool returns an error                                 *)
(*   "store"     a query to the findings database fails                    *)
(*   "inline"    posting inline comments fails, nothing is created         *)
(*   "lost"      posting succeeds but the answer is lost                   *)
(*   "resolve"   ResolveThread fails                                       *)
(*   "check"     UpsertCheckRun fails                                      *)
(*   "body"      EditPullRequestBody fails                                 *)
(*   "readback"  ListCadooArtifacts fails                                  *)
(***************************************************************************)
EXTENDS Findings, Sequences

CONSTANTS Provider,    \* "github" or "gitlab"
          Versions,    \* contents a file can have
          Faults       \* the failures this model admits

VARIABLES history,     \* history[h]: the tree at head h; Len(history) is the head
          threads,     \* Cadoo's inline findings on the PR
          notes,       \* Cadoo's top-level comments
          prBody,      \* the description: user's text and Cadoo's section
          checks,      \* check runs by name and head
          nextBatch, nextNote

prVars == <<history, threads, notes, prBody, checks, nextBatch, nextNote>>

ASSUME ProviderAssumption == Provider \in {"github", "gitlab"}

HeadSHA == Len(history)

Tree == [Files -> Versions]

ThreadId == [batch : Nat, comment : Comment]

\* The hidden marker carries tool, sk, sev and nt; file and line come from the
\* position.  An unanchored GitLab note cannot be resolved.
Thread == [id : ThreadId, tool : Tools, file : Files, sev : Severities,
           sk : Keys, nt : Titles, title : Bodies, line : Nat,
           anchored : BOOLEAN, state : {"open", "user", "cadoo"}]

\* secs[t] is the head the section of tool t was written for, 0 if absent.
Note == [id : Nat \ {0}, wrapper : BOOLEAN, sha : Nat, secs : [Tools -> Nat],
         live : BOOLEAN]

PRBody == [user : Nat, cadoo : Nat]

\* orchestrator.CheckRunName, used by failCheck, and the gate /review posts;
\* the names /check makes of its rules are left out.
CheckRunName == "cadoo"
ReviewCheckName == "cadoo/review"
CheckNames == {CheckRunName, ReviewCheckName}

Statuses == {"succeeded", "failed"}

CheckRun == [name : CheckNames, head : Nat, status : Statuses]

PRTypeOK ==
  /\ history \in Seq(Tree) /\ history # <<>>
  /\ threads \subseteq Thread
  /\ notes \subseteq Note
  /\ prBody \in PRBody
  /\ checks \subseteq CheckRun
  /\ nextBatch \in Nat
  /\ nextNote \in Nat \ {0}

PRInit ==
  /\ \E v \in Versions : history = << [f \in Files |-> v] >>
  /\ threads = {}
  /\ notes = {}
  /\ prBody = [user |-> 0, cadoo |-> 0]
  /\ checks = {}
  /\ nextBatch = 0
  /\ nextNote = 1

-----------------------------------------------------------------------------
(* Adapter operations.                                                     *)

\* The line an inline comment is anchored to.
Anchor(c) ==
  IF Provider = "github"
  THEN CASE c.ls > 0 /\ c.le > c.ls -> c.le
         [] c.ls > 0 /\ c.le <= c.ls -> c.ls
         [] OTHER -> 1
  ELSE IF c.le = 0 THEN c.ls ELSE c.le

NewThread(tool, c, anchored) ==
  [id |-> [batch |-> nextBatch, comment |-> c],
   tool |-> tool, file |-> c.file, sev |-> c.sev,
   sk |-> StructuralKey(tool, c), nt |-> normalizeTitle[c.body],
   title |-> firstLine[c.body],
   line |-> IF anchored THEN Anchor(c) ELSE 0,
   anchored |-> anchored, state |-> "open"]

NoAnswer == [created |-> {}, refs |-> {}]

\* Mutant: a failed call answers with refs.
GithubPostRefsOnError(tool, delta) ==
  LET refs == {[comment |-> c, eid |-> NoId] : c \in delta}
  IN  {[created |-> {NewThread(tool, c, TRUE) : c \in delta}, refs |-> refs],
       [created |-> {}, refs |-> refs]}

\* GitHub creates one review for all the comments, or none; the answer names
\* no comment ids.
GithubPost(tool, delta) ==
  LET all == {NewThread(tool, c, TRUE) : c \in delta}
      refs == {[comment |-> c, eid |-> NoId] : c \in delta}
  IN  {[created |-> all, refs |-> refs]}
      \cup (IF "inline" \in Faults THEN {NoAnswer} ELSE {})
      \cup (IF "lost" \in Faults THEN {[created |-> all, refs |-> {}]} ELSE {})

\* GitLab creates one discussion per comment, or a plain note where the line
\* is in no hunk, and carries on after a failure: every comment gets a ref,
\* and only a discussion whose answer arrived has an id.
GitlabPost(tool, delta) ==
  LET outs == {"discussion", "note"}
              \cup (IF "inline" \in Faults THEN {"fail"} ELSE {})
              \cup (IF "lost" \in Faults THEN {"lost"} ELSE {})
      Made(o) == {c \in delta : o[c] # "fail"}
      Answer(o) ==
        [created |-> {NewThread(tool, c, o[c] # "note") : c \in Made(o)},
         refs |-> {[comment |-> c,
                    eid |-> IF o[c] = "discussion"
                            THEN [batch |-> nextBatch, comment |-> c] ELSE NoId]
                   : c \in delta}]
  IN  {Answer(o) : o \in [delta -> outs]}
      \cup (IF "inline" \in Faults THEN {NoAnswer} ELSE {})

PostInlineComments(tool, delta) ==
  IF Provider = "github" THEN GithubPost(tool, delta) ELSE GitlabPost(tool, delta)

\* ResolveThread; the caller never passes an empty id.
ResolveThread(eid) ==
  {IF th.id = eid /\ th.anchored /\ th.state = "open"
   THEN [th EXCEPT !.state = "cadoo"] ELSE th : th \in threads}

\* UpsertCheckRun: at most one run of a name on a head.
UpsertCheckRun(name, h, status) ==
  {k \in checks : ~(k.name = name /\ k.head = h)}
    \cup {[name |-> name, head |-> h, status |-> status]}

\* DiffBetween: the files that differ between two heads.
DiffBetween(old, new) == {f \in Files : history[old][f] # history[new][f]}

\* Mutant: the line read back is counted from 0.
PriorInlineFromZero(th) ==
  [tool |-> th.tool, file |-> th.file, sev |-> th.sev, sk |-> th.sk,
   nt |-> th.nt, title |-> th.title,
   eid |-> IF th.anchored THEN th.id ELSE NoId,
   resolved |-> th.anchored /\ th.state # "open",
   line |-> th.line - 1]

\* One inline finding as ListCadooArtifacts reads it back.
PriorInline(th) ==
  [tool |-> th.tool, file |-> th.file, sev |-> th.sev, sk |-> th.sk,
   nt |-> th.nt, title |-> th.title,
   eid |-> IF th.anchored THEN th.id ELSE NoId,
   resolved |-> th.anchored /\ th.state # "open",
   line |-> th.line]

Wrappers == {n \in notes : n.live /\ n.wrapper}

\* The wrapper comment ListCadooArtifacts settles on: the first one on
\* GitHub, the last one on GitLab.
PickWrapper ==
  {n \in Wrappers :
     \A m \in Wrappers : IF Provider = "github" THEN n.id <= m.id ELSE m.id <= n.id}

Picked == CHOOSE n \in PickWrapper : TRUE

\* ListCadooArtifacts.
ListCadooArtifacts ==
  [inline |-> {PriorInline(th) : th \in threads},
   sum |-> IF PickWrapper = {} THEN 0 ELSE Picked.id,
   sha |-> IF PickWrapper = {} THEN 0 ELSE Picked.sha]

-----------------------------------------------------------------------------
(* What the author and the reviewers of the PR do.                         *)

\* A push gives some files new contents (possibly ones they had before).  On
\* GitHub the threads of those files may become outdated and lose their line.
Push(maxHead) ==
  /\ HeadSHA < maxHead
  /\ \E tree \in Tree, outdates \in {FALSE, TRUE} :
       /\ history' = Append(history, tree)
       /\ outdates => Provider = "github"
       /\ threads' = {IF outdates /\ tree[th.file] # history[HeadSHA][th.file]
                      THEN [th EXCEPT !.line = 0] ELSE th : th \in threads}
  /\ UNCHANGED <<notes, prBody, checks, nextBatch, nextNote>>

UserResolves ==
  /\ \E th \in threads :
       /\ th.anchored /\ th.state = "open"
       /\ threads' = (threads \ {th}) \cup {[th EXCEPT !.state = "user"]}
  /\ UNCHANGED <<history, notes, prBody, checks, nextBatch, nextNote>>

UserDeletesNote ==
  /\ \E n \in notes :
       /\ n.live
       /\ notes' = (notes \ {n}) \cup {[n EXCEPT !.live = FALSE]}
  /\ UNCHANGED <<history, threads, prBody, checks, nextBatch, nextNote>>

UserEditsBody(maxEdits) ==
  /\ prBody.user < maxEdits
  /\ prBody' = [prBody EXCEPT !.user = @ + 1]
  /\ UNCHANGED <<history, threads, notes, checks, nextBatch, nextNote>>

=============================================================================
