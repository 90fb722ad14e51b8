---------------------------- MODULE ReleaseDocs -----------------------------
(***************************************************************************)
(* Release documents (internal/releasedocs): jobs of one repository that   *)
(* write what a release changed into the body of the release, into         *)
(* CHANGELOG.md on a branch with a pull request, and into pages of a docs  *)
(* branch, in this order; River runs a job again from its start when any   *)
(* of them fails.                                                          *)
(*                                                                         *)
(* The .cadoo.yaml of every release enables them, with release notes,      *)
(* changelog and pages; it may still fail to be fetched.  The hosting      *)
(* service and the repository are external; the steps of UpsertFile are    *)
(* those of the GitHub adapter (the GitLab adapter creates the branch and  *)
(* the file in one call).  Every write of a file is a commit, and pull     *)
(* requests are merged by merge commits.  A text is a sequence of pieces:  *)
(* of a release body, what the operator wrote and the managed section with *)
(* its two markers; of CHANGELOG.md, one section per release.              *)
(***************************************************************************)
EXTENDS Naturals, SequencesExt

CONSTANTS Tags,         \* the releases
          Jobs,         \* bound: deliveries of release events, and manual runs
          Pages,        \* the artifacts that become pages, in their order
          Wordings,     \* what generators make of a release: templates, LLM
          MaxAttempts,  \* River's attempts of a job
          MaxFailures,  \* bound: failed calls and dead workers
          MaxEdits      \* bound: edits of release bodies

PagesBranch == "gh-pages"
NoTag == "none"
NoWording == "none"

ASSUME ReleaseAssumption ==
  /\ PagesBranch \notin Tags /\ NoTag \notin Tags
  /\ Pages \in Seq(STRING \ {"log"})
  /\ MaxAttempts \in Nat \ {0} /\ MaxFailures \in Nat /\ MaxEdits \in Nat

VARIABLES released,  \* tags with a release
          treeLog,   \* CHANGELOG.md in the tree of a tag
          relBody,   \* the body of a release
          mainLog,   \* CHANGELOG.md on the default branch
          branches,  \* ChangelogBranch(tag), as the tag, and PagesBranch
          base,      \* CHANGELOG.md where the branch of a tag left main
          ahead,     \* branches of tags with commits that main has not
          content,   \* files by tag and artifact; <<>> where there is none
          pr,        \* the last pull request of the branch of a tag
          recorded,  \* tags with rows in release_docs_state
          job,
          edits, failures,
          quiet      \* edits made while no job was about to write that body

hostVars == <<released, treeLog, relBody, mainLog, branches, base, ahead,
              content, pr, quiet, edits>>
releaseVars == <<hostVars, recorded, job, failures>>

-----------------------------------------------------------------------------
(* Texts.                                                                  *)

Begin == <<"begin">>
End == <<"end">>
User(n) == <<"user", n>>
Notes(w) == <<"notes", w>>

Section(t, w) == <<t, w>>

FirstIndex(body, piece) == SelectInSeq(body, LAMBDA x : x = piece)

\* Mutant: the section is appended each time.
SpliceAppends(original, section) == original \o <<Begin, section, End>>

\* Mutant: what follows the managed section is not kept.
SpliceDropsTail(original, section) ==
  LET b == FirstIndex(original, Begin)
  IN  SubSeq(original, 1, IF b > 0 THEN b - 1 ELSE Len(original)) \o <<Begin, section, End>>

SpliceReleaseBody(original, section) ==
  LET b == FirstIndex(original, Begin)
      e == FirstIndex(original, End)
      managed == b > 0 /\ e > b
      head == IF managed THEN SubSeq(original, 1, b - 1) ELSE original
      tail == IF managed THEN SubSeq(original, e + 1, Len(original)) ELSE <<>>
  IN  head \o <<Begin, section, End>> \o tail

-----------------------------------------------------------------------------
(* Jobs.                                                                   *)

LogSlot(t) == <<t, "log">>
PageSlots(t) == {<<t, a>> : a \in ToSet(Pages)}
Slots == {LogSlot(t) : t \in Tags} \cup UNION {PageSlots(t) : t \in Tags}

\* file: 0 for CHANGELOG.md, i for the i-th page.  got, log and sha are what
\* the attempt has read: the release body, CHANGELOG.md at the tag, and the
\* file it is about to replace or the head it is about to branch from (a SHA
\* stands for the file it is of); each is dropped when it is used.
Fresh(t, n) == [tag |-> t, pc |-> "available", attempt |-> n, wording |-> NoWording,
                file |-> 0, got |-> <<>>, log |-> <<>>, sha |-> <<>>]

Running(j) == job[j].pc \notin {"unused", "available", "done", "skipped", "discarded"}

Slot(j) == IF job[j].file = 0 THEN LogSlot(job[j].tag)
           ELSE <<job[j].tag, Pages[job[j].file]>>

Branch(j) == IF job[j].file = 0 THEN job[j].tag ELSE PagesBranch

\* What Publish writes: a new section before the changelog read at the tag, or
\* one artifact.
Data(j) ==
  LET section == Section(job[j].tag, job[j].wording)
  IN  IF job[j].file = 0 THEN <<section>> \o job[j].log ELSE <<section>>

Init ==
  /\ released = {}
  /\ treeLog = [t \in Tags |-> <<>>]
  /\ relBody = [t \in Tags |-> <<>>]
  /\ mainLog = <<>>
  /\ branches = {}
  /\ base = [t \in Tags |-> <<>>]
  /\ ahead = {}
  /\ content = [s \in Slots |-> <<>>]
  /\ pr = [t \in Tags |-> "none"]
  /\ recorded = {}
  /\ job = [j \in Jobs |-> [Fresh(NoTag, 0) EXCEPT !.pc = "unused"]]
  /\ edits = 0 /\ failures = 0 /\ quiet = {}

Goto(j, pc) == job' = [job EXCEPT ![j].pc = pc]

\* Mutant: one attempt too many.
ErrorOneMore(j) ==
  job' = [job EXCEPT ![j] =
            [Fresh(@.tag, @.attempt) EXCEPT !.pc = IF job[j].attempt <= MaxAttempts
                                                   THEN "available" ELSE "discarded"]]

\* Run returns an error: River makes the job available again, or discards it.
Error(j) ==
  job' = [job EXCEPT ![j] =
            [Fresh(@.tag, @.attempt) EXCEPT !.pc = IF job[j].attempt < MaxAttempts
                                                   THEN "available" ELSE "discarded"]]

\* .cadoo.yaml cannot be fetched at the tag: the base configuration stands in
\* for it, which has release documents disabled.  Run returns no error, and
\* River has completed the job, whatever earlier attempts have left half-way.
Skip(j) ==
  /\ job[j].pc = "available" /\ failures < MaxFailures
  /\ failures' = failures + 1
  /\ job' = [job EXCEPT ![j] = [Fresh(@.tag, 0) EXCEPT !.pc = "skipped"]]
  /\ UNCHANGED <<hostVars, recorded>>

\* Run up to the publishers: with the configuration, the context and the
\* generators only read.
Generate(j) ==
  /\ job[j].pc = "available"
  /\ \E w \in Wordings :
       job' = [job EXCEPT ![j].pc = "getBody", ![j].wording = w, ![j].attempt = @ + 1]
  /\ UNCHANGED <<hostVars, recorded, failures>>

\* releasebody.Publish: GetReleaseByTag ...
GetBody(j) ==
  /\ job[j].pc = "getBody"
  /\ job' = [job EXCEPT ![j].pc = "putBody", ![j].got = relBody[job[j].tag]]
  /\ UNCHANGED <<hostVars, recorded, failures>>

\* ... and UpdateReleaseBody with the whole body, unless it is the same.
PutBody(j) ==
  LET new == SpliceReleaseBody(job[j].got, Notes(job[j].wording))
  IN  /\ job[j].pc = "putBody"
      /\ relBody' = [relBody EXCEPT ![job[j].tag] = IF new = job[j].got THEN @ ELSE new]
      /\ job' = [job EXCEPT ![j].pc = "readLog", ![j].got = <<>>]
      /\ UNCHANGED <<released, treeLog, mainLog, branches, base, content, pr,
                     ahead, quiet, edits, recorded, failures>>

\* Mutant: the changelog is read from the branch it is written to.
ReadLogFromBranch(j) ==
  /\ job[j].pc = "readLog"
  /\ job' = [job EXCEPT ![j].pc = "ref", ![j].log = content[LogSlot(job[j].tag)]]
  /\ UNCHANGED <<hostVars, recorded, failures>>

\* changelogpr.Publish: FetchFileFromRef at the tag; when it fails, the job
\* goes on as if there were no file.
ReadLog(j) ==
  /\ job[j].pc = "readLog"
  /\ \/ /\ job' = [job EXCEPT ![j].pc = "ref", ![j].log = treeLog[job[j].tag]]
        /\ failures' = failures
     \/ /\ failures < MaxFailures
        /\ failures' = failures + 1
        /\ Goto(j, "ref")
  /\ UNCHANGED <<hostVars, recorded>>

\* UpsertFile: does the branch exist?  A call that fails says no.
GetRef(j) ==
  /\ job[j].pc = "ref"
  /\ \/ /\ Goto(j, IF Branch(j) \in branches THEN "sha" ELSE "head")
        /\ failures' = failures
     \/ /\ failures < MaxFailures
        /\ failures' = failures + 1
        /\ Goto(j, "head")
  /\ UNCHANGED <<hostVars, recorded>>

\* GetRef of the default branch: its head ...
GetHead(j) ==
  /\ job[j].pc = "head"
  /\ job' = [job EXCEPT ![j].pc = "make", ![j].sha = mainLog]
  /\ UNCHANGED <<hostVars, recorded, failures>>

\* Mutant: a branch that has appeared since is moved to the head that was read.
CreateRefForces(j) ==
  /\ job[j].pc = "make"
  /\ branches' = branches \cup {Branch(j)}
  /\ IF job[j].file = 0
     THEN /\ base' = [base EXCEPT ![job[j].tag] = job[j].sha]
          /\ content' = [content EXCEPT ![Slot(j)] = job[j].sha]
     ELSE UNCHANGED <<base, content>>
  /\ job' = [job EXCEPT ![j].pc = "sha", ![j].sha = <<>>]
  /\ UNCHANGED <<released, treeLog, relBody, mainLog, ahead, pr, quiet, edits,
                 recorded, failures>>

\* ... and CreateRef there, wherever the default branch is by then; refused
\* when the branch has appeared since.
CreateRef(j) ==
  /\ job[j].pc = "make"
  /\ IF Branch(j) \in branches
     THEN Error(j) /\ UNCHANGED <<branches, base, content>>
     ELSE /\ branches' = branches \cup {Branch(j)}
          /\ IF job[j].file = 0
             THEN /\ base' = [base EXCEPT ![job[j].tag] = job[j].sha]
                  /\ content' = [content EXCEPT ![Slot(j)] = job[j].sha]
             ELSE UNCHANGED <<base, content>>
          /\ job' = [job EXCEPT ![j].pc = "sha", ![j].sha = <<>>]
  /\ UNCHANGED <<released, treeLog, relBody, mainLog, ahead, pr, quiet, edits,
                 recorded, failures>>

\* GetContents: the file's SHA, or no file; none either when the call fails.
GetContents(j) ==
  /\ job[j].pc = "sha"
  /\ \/ /\ job' = [job EXCEPT ![j].pc = "put", ![j].sha = content[Slot(j)]]
        /\ failures' = failures
     \/ /\ failures < MaxFailures
        /\ failures' = failures + 1
        /\ Goto(j, "put")
  /\ UNCHANGED <<hostVars, recorded>>

\* Mutant: the last page is left out.
NextPageEndsEarly(i) == IF i + 1 < Len(Pages) THEN "ref" ELSE "record"

\* Where a job goes when page i is written.
NextPage(i) == IF i < Len(Pages) THEN "ref" ELSE "record"

\* UpdateFile or CreateFile: refused when the branch is gone, or the file is
\* no longer the one the SHA is of.
PutFile(j) ==
  /\ job[j].pc = "put"
  /\ IF Branch(j) \in branches /\ content[Slot(j)] = job[j].sha
     THEN /\ content' = [content EXCEPT ![Slot(j)] = Data(j)]
          /\ IF job[j].file = 0
             THEN /\ ahead' = ahead \cup {job[j].tag}
                  /\ job' = [job EXCEPT ![j].pc = "list", ![j].log = <<>>, ![j].sha = <<>>]
             ELSE /\ ahead' = ahead
                  /\ job' = [job EXCEPT ![j].pc = NextPage(job[j].file), ![j].file = @ + 1,
                                        ![j].sha = <<>>]
     ELSE Error(j) /\ UNCHANGED <<content, ahead>>
  /\ UNCHANGED <<released, treeLog, relBody, mainLog, branches, base, pr,
                 quiet, edits, recorded, failures>>

\* Mutant: the open pull request is not looked for.
ListPRsNever(j) ==
  /\ job[j].pc = "list"
  /\ Goto(j, "create")
  /\ UNCHANGED <<hostVars, recorded, failures>>

\* OpenOrUpdatePR: the open pull request of the branch, or none; then the
\* publisher of pages.
ListPRs(j) ==
  /\ job[j].pc = "list"
  /\ job' = IF pr[job[j].tag] = "open"
            THEN [job EXCEPT ![j].pc = NextPage(0), ![j].file = 1]
            ELSE [job EXCEPT ![j].pc = "create"]
  /\ UNCHANGED <<hostVars, recorded, failures>>

\* PullRequests.Create: refused when the branch has an open one, is gone, or has
\* no commit that the default branch has not.
CreatePR(j) ==
  /\ job[j].pc = "create"
  /\ IF pr[job[j].tag] # "open" /\ job[j].tag \in branches \cap ahead
     THEN /\ pr' = [pr EXCEPT ![job[j].tag] = "open"]
          /\ job' = [job EXCEPT ![j].pc = NextPage(0), ![j].file = 1]
     ELSE Error(j) /\ pr' = pr
  /\ UNCHANGED <<released, treeLog, relBody, mainLog, branches, base, ahead, content,
                 quiet, edits, recorded, failures>>

\* Store.Record for the artifacts; its errors are only logged.
Record(j) ==
  /\ job[j].pc = "record"
  /\ recorded' \in {recorded, recorded \cup {job[j].tag}}
  /\ job' = [job EXCEPT ![j] = [Fresh(@.tag, 0) EXCEPT !.pc = "done"]]
  /\ UNCHANGED <<hostVars, failures>>

\* A call fails, or the worker dies; what the last step has done stays done.
Fail(j) ==
  /\ Running(j) /\ failures < MaxFailures
  /\ failures' = failures + 1
  /\ Error(j)
  /\ UNCHANGED <<hostVars, recorded>>

JobStep(j) ==
  \/ Skip(j) \/ Generate(j) \/ GetBody(j) \/ PutBody(j) \/ ReadLog(j)
  \/ GetRef(j) \/ GetHead(j) \/ CreateRef(j) \/ GetContents(j) \/ PutFile(j)
  \/ ListPRs(j) \/ CreatePR(j) \/ Record(j)

-----------------------------------------------------------------------------
(* The people of the repository.                                           *)

\* A release is published at the head of the default branch.
Release(t) ==
  /\ t \notin released
  /\ released' = released \cup {t}
  /\ treeLog' = [treeLog EXCEPT ![t] = mainLog]
  /\ UNCHANGED <<relBody, mainLog, branches, base, ahead, content, pr, quiet, edits,
                 recorded, job, failures>>

\* The event of a release is delivered, perhaps again, or `cadoo release-docs`
\* is run for its tag.
EnqueueRelease(j, t) ==
  /\ job[j].pc = "unused" /\ t \in released
  /\ job' = [job EXCEPT ![j] = Fresh(t, 0)]
  /\ UNCHANGED <<hostVars, recorded, failures>>

\* The operator adds a text before or after all there is.
EditBody(t) ==
  /\ t \in released /\ edits < MaxEdits
  /\ edits' = edits + 1
  /\ \/ relBody' = [relBody EXCEPT ![t] = <<User(edits)>> \o @]
     \/ relBody' = [relBody EXCEPT ![t] = @ \o <<User(edits)>>]
  /\ quiet' = IF \E j \in Jobs : job[j].tag = t /\ job[j].pc = "putBody"
              THEN quiet ELSE quiet \cup {<<t, edits>>}
  /\ UNCHANGED <<released, treeLog, mainLog, branches, base, ahead, content, pr,
                 recorded, job, failures>>

\* git merges a file when only one side has changed it.
Mergeable(t) == base[t] = mainLog \/ content[LogSlot(t)] \in {base[t], mainLog}

Merged(t) == IF base[t] = mainLog THEN content[LogSlot(t)] ELSE mainLog

\* The branch stays, or is deleted with the merge.
MergePR(t) ==
  /\ pr[t] = "open" /\ Mergeable(t)
  /\ mainLog' = Merged(t)
  /\ pr' = [pr EXCEPT ![t] = "closed"]
  /\ ahead' = ahead \ {t}
  /\ \/ /\ base' = [base EXCEPT ![t] = content[LogSlot(t)]]
        /\ UNCHANGED <<branches, content>>
     \/ /\ branches' = branches \ {t}
        /\ content' = [content EXCEPT ![LogSlot(t)] = <<>>]
        /\ base' = base
  /\ UNCHANGED <<released, treeLog, relBody, quiet, edits, recorded, job, failures>>

ClosePR(t) ==
  /\ pr[t] = "open"
  /\ pr' = [pr EXCEPT ![t] = "closed"]
  /\ UNCHANGED <<released, treeLog, relBody, mainLog, branches, base, ahead, content,
                 quiet, edits, recorded, job, failures>>

People ==
  \E t \in Tags :
    \/ Release(t) \/ EditBody(t) \/ MergePR(t) \/ ClosePR(t)
    \/ \E j \in Jobs : EnqueueRelease(j, t)

Next == People \/ \E j \in Jobs : JobStep(j) \/ Fail(j)

Spec == Init /\ [][Next]_releaseVars

\* River runs the jobs it has, and every call returns; people need not act.
FairSpec == Spec /\ \A j \in Jobs : WF_releaseVars(JobStep(j))

-----------------------------------------------------------------------------
(* Properties.                                                             *)

Sections == Tags \X Wordings
Pieces == {Begin, End} \cup {Notes(w) : w \in Wordings}
          \cup {User(n) : n \in 0..MaxEdits}

Locals == [tag : Tags \cup {NoTag},
           pc : {"unused", "available", "getBody", "putBody", "readLog", "ref", "head",
                 "make", "sha", "put", "list", "create", "record", "done", "skipped",
                 "discarded"},
           attempt : 0..MaxAttempts, wording : Wordings \cup {NoWording},
           file : 0..Len(Pages) + 1, got : Seq(Pieces),
           log : Seq(Sections), sha : Seq(Sections)]

\* The type of the state.
TypeOK ==
  /\ released \subseteq Tags
  /\ treeLog \in [Tags -> Seq(Sections)]
  /\ relBody \in [Tags -> Seq(Pieces)]
  /\ mainLog \in Seq(Sections)
  /\ branches \subseteq Tags \cup {PagesBranch}
  /\ base \in [Tags -> Seq(Sections)]
  /\ ahead \subseteq Tags
  /\ content \in [Slots -> Seq(Sections)]
  /\ pr \in [Tags -> {"none", "open", "closed"}]
  /\ recorded \subseteq Tags
  /\ job \in [Jobs -> Locals]
  /\ edits \in 0..MaxEdits /\ failures \in 0..MaxFailures
  /\ quiet \subseteq Tags \X (0..MaxEdits)

\* At most one managed section, whole, whatever jobs, retries and edits come
\* between the read and the write of a body.
OneManagedSection ==
  \A t \in Tags :
    \/ \A i \in DOMAIN relBody[t] : relBody[t][i][1] = "user"
    \/ \E b \in DOMAIN relBody[t] :
         /\ b + 2 \in DOMAIN relBody[t]
         /\ relBody[t][b] = Begin /\ relBody[t][b + 1][1] = "notes" /\ relBody[t][b + 2] = End
         /\ \A i \in DOMAIN relBody[t] \ {b, b + 1, b + 2} : relBody[t][i][1] = "user"

\* What the operator wrote while no job stood between reading a body and
\* writing it stays there for ever, and once.
QuietEditsSurvive ==
  \A e \in quiet :
    Cardinality({i \in DOMAIN relBody[e[1]] : relBody[e[1]][i] = User(e[2])}) = 1

\* However often a release is published, no CHANGELOG.md, on the default
\* branch or on a branch of Cadoo's, lists it twice.
NoSectionTwice ==
  \A l \in {mainLog} \cup {content[LogSlot(t)] : t \in Tags} :
    \A i, j \in DOMAIN l : l[i][1] = l[j][1] => i = j

\* A pull request that waits for a review adds the section of its release,
\* whatever jobs, retries and merges made, wrote and deleted its branch
\* meanwhile, and from however old a head.
OpenPRHasSection ==
  \A t \in Tags : pr[t] = "open" =>
    t \in branches /\ \E i \in DOMAIN content[LogSlot(t)] : content[LogSlot(t)][i][1] = t

\* Everything about a release is in its places.
Published(t) ==
  /\ \E i \in DOMAIN relBody[t] : relBody[t][i] = Begin
  /\ pr[t] # "none"
  /\ \A s \in PageSlots(t) : content[s] # <<>>

\* A job that had its configuration and ends, or a row in release_docs_state,
\* means that all publishers have done their work: a retry never skips one.
FinishedIsPublished ==
  /\ \A j \in Jobs : job[j].pc = "done" => Published(job[j].tag)
  /\ \A t \in recorded : Published(t)

\* River does not give up a publication that stops half-way, whatever is
\* merged, closed or edited meanwhile: retries lead to its end, or to an attempt
\* that cannot fetch the configuration, and only the writes of another job can
\* use them up.
RetryCompletes ==
  \A j \in Jobs : job[j].pc = "discarded" =>
    \E i \in Jobs \ {j} : job[i].pc # "unused"

\* Merging the changelog of a release keeps the sections of the others ("Prepend
\* the new section to any existing CHANGELOG content").
HistoryKept ==
  [][\A i \in DOMAIN mainLog : \E k \in DOMAIN mainLog' : mainLog'[k][1] = mainLog[i][1]]_mainLog

=============================================================================
