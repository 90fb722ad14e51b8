----------------------------- MODULE Dispatcher -----------------------------
(***************************************************************************)
(* The tool dispatcher (internal/orchestrator/reviewer.go): one process    *)
(* per ToolJob, all of them on one pull request.                           *)
(*                                                                         *)
(* Run is cut at every call that other processes or the PR's author can    *)
(* interleave with: a read or write of the findings store, summaryMu, a    *)
(* call to the hosting service.  What a process read earlier and uses      *)
(* later (the fetched head and description, the rendered comment, the      *)
(* prior findings, the comments left to post) is in loc.                   *)
(*                                                                         *)
(* The model (tool.Run) is an arbitrary choice among the results the tool  *)
(* can return; what only feeds its prompt (linters, trackers, learnings,   *)
(* knowledge base, the packed diff) is therefore left out here.            *)
(*                                                                         *)
(* Processes share a store and a mutex through StoreOf and MuOf: in CI     *)
(* mode the tools of one run share both; two worker processes on one       *)
(* database share the store and not the mutex.                             *)
(***************************************************************************)
EXTENDS PullRequest

CONSTANTS Procs, ToolOf,      \* [Procs -> Tools]
          Stores, StoreOf,    \* [Procs -> Stores]
          Mutexes, MuOf,      \* [Procs -> Mutexes]
          Backend,            \* "mem" or "db"
          ToolResults,        \* [Tools -> sets of Result], what tool.Run returns
          ReportStatus,       \* post check runs at all
          Free                \* the value of a mutex nobody holds

VARIABLES store,   \* findings.Store
          mu,      \* summaryMu: the process that holds it, or Free
          pc, loc

procVars == <<store, mu, pc, loc>>
vars == <<prVars, procVars>>

Check == [name : CheckNames, status : Statuses]

\* tools.Result: summary is Summary # "", edit is EditPRBody # nil.
Result == [summary : BOOLEAN, inline : SUBSET Comment, checks : SUBSET Check,
           edit : BOOLEAN]

ASSUME DispatcherAssumption ==
  /\ Free \notin Procs
  /\ ToolOf \in [Procs -> Tools]
  /\ StoreOf \in [Procs -> Stores]
  /\ MuOf \in [Procs -> Mutexes]
  /\ Backend \in {"mem", "db"}
  /\ DOMAIN ToolResults = Tools
  /\ \A t \in Tools : \A r \in ToolResults[t] : r \in Result
  /\ ReportStatus \in BOOLEAN

NoResult == [summary |-> FALSE, inline |-> {}, checks |-> {}, edit |-> FALSE]
NoSections == [t \in Tools |-> 0]

EmptyLocal ==
  [head |-> 0, user |-> 0, section |-> 0, incr |-> FALSE, chg |-> {},
   res |-> NoResult, prior |-> {}, delta |-> {}, refs |-> {},
   secs |-> NoSections, existing |-> 0]

Rec == [tool : Tools, file : Files, sev : Severities, sk : Keys \cup {NoKey},
        fp : [tool : Tools, comment : Comment] \cup {NoFp}, nt : Titles,
        title : Bodies, eid : ThreadId \cup {NoId}, resolved : BOOLEAN, line : Nat]

PostedFinding == [tool : Tools, file : Files, sev : Severities, title : Bodies,
                  eid : ThreadId \cup {NoId}, sk : Keys \cup {NoKey}]

\* on is Posted.Enabled(); sum the wrapper comment's id, 0 if none; sha the
\* LastReviewedSHA (only a store seeded from the PR has one).
Store == [on : BOOLEAN, recs : SUBSET Rec, secs : [Tools -> Nat], sum : Nat, sha : Nat]

EmptyStore == [on |-> TRUE, recs |-> {}, secs |-> NoSections, sum |-> 0, sha |-> 0]

Local == [head : Nat, user : Nat, section : Nat, incr : BOOLEAN,
          chg : SUBSET Files, res : Result, prior : SUBSET PostedFinding,
          delta : SUBSET Comment,
          refs : SUBSET [comment : Comment, eid : ThreadId \cup {NoId}],
          secs : [Tools -> Nat], existing : Nat]

Working == {"fetch", "diff", "tool", "legacy", "section", "lock", "update",
            "create", "putid", "inline", "filter", "post", "record", "resolve",
            "check", "body"}
Critical == {"update", "create", "putid"}   \* the steps under summaryMu
Finished == {"done", "failed", "empty", "killed"}
PCs == {"idle"} \cup Working \cup Finished

DispatcherTypeOK ==
  /\ PRTypeOK
  /\ store \in [Stores -> Store]
  /\ mu \in [Mutexes -> Procs \cup {Free}]
  /\ pc \in [Procs -> PCs]
  /\ loc \in [Procs -> Local]

St(p) == store[StoreOf[p]]

StoreFails == Backend = "db" /\ "store" \in Faults

\* Mutant: only an identical comment is known.
HasFindingByFingerprint(p, c) ==
  {St(p).on /\ \E r \in St(p).recs : r.fp = Fingerprint(ToolOf[p], c)}

\* The possible answers of Posted.HasFinding, an error counting as "no".
HasFinding(p, c) ==
  CASE ~St(p).on -> {FALSE}
    [] St(p).on /\ Backend = "mem" -> {MemHas(St(p).recs, ToolOf[p], c)}
    [] OTHER -> DBHasAnswers(St(p).recs, ToolOf[p], c)
                \cup (IF StoreFails THEN {FALSE} ELSE {})

Recorded(p, eid, c) ==
  IF Backend = "mem" THEN MemRecord(St(p).recs, ToolOf[p], eid, c)
                     ELSE DBRecord(St(p).recs, ToolOf[p], eid, c)

Goto(p, label) == pc' = [pc EXCEPT ![p] = label]

\* The end of a job: its locals go.
Finish(p, label) ==
  /\ Goto(p, label)
  /\ loc' = [loc EXCEPT ![p] = EmptyLocal]

\* failCheck, for a job whose PR was fetched at head h.
FailCheck(h) ==
  \/ ReportStatus /\ checks' = UpsertCheckRun(CheckRunName, h, "failed")
  \/ ~ReportStatus /\ checks' = checks
  \/ ReportStatus /\ "check" \in Faults /\ checks' = checks

-----------------------------------------------------------------------------
(* Run, up to the tool's answer.                                           *)

\* Mutant: the description is not the fetched one.
FetchWithoutBody(p) ==
  /\ pc[p] = "fetch"
  /\ Goto(p, "diff")
  /\ loc' = [loc EXCEPT ![p] = [EmptyLocal EXCEPT !.head = HeadSHA]]
  /\ UNCHANGED <<prVars, store, mu>>

\* FetchPullRequest and ListChangedFiles.
Fetch(p) ==
  /\ pc[p] = "fetch"
  /\ \/ /\ Goto(p, "diff")
        /\ loc' = [loc EXCEPT ![p] = [EmptyLocal EXCEPT !.head = HeadSHA,
                      !.user = prBody.user, !.section = prBody.cadoo]]
        /\ UNCHANGED checks
     \/ "fetch" \in Faults /\ Finish(p, "failed") /\ UNCHANGED checks
     \/ "list" \in Faults /\ Finish(p, "failed") /\ FailCheck(HeadSHA)
  /\ UNCHANGED <<history, threads, notes, prBody, nextBatch, nextNote, store, mu>>

\* The incremental block: the change set since the last reviewed head.
Diff(p) ==
  /\ pc[p] = "diff"
  /\ Goto(p, "tool")
  /\ \/ /\ St(p).sha = 0
        /\ UNCHANGED loc
     \/ /\ St(p).sha # 0 /\ St(p).sha # loc[p].head
        /\ \/ "diff" \in Faults /\ UNCHANGED loc
           \/ loc' = [loc EXCEPT ![p].incr = TRUE,
                                 ![p].chg = DiffBetween(St(p).sha, loc[p].head)]
     \/ /\ St(p).sha # 0 /\ St(p).sha = loc[p].head
        /\ loc' = [loc EXCEPT ![p].incr = TRUE, ![p].chg = {}]
  /\ UNCHANGED <<prVars, store, mu>>

\* Where applyResult goes first.
AfterTool(p, res) ==
  IF ~res.summary THEN "inline" ELSE IF St(p).on THEN "section" ELSE "legacy"

RunTool(p) ==
  /\ pc[p] = "tool"
  /\ \E res \in ToolResults[ToolOf[p]] :
       /\ Goto(p, AfterTool(p, res))
       /\ loc' = [loc EXCEPT ![p].res = res]
  /\ UNCHANGED <<prVars, store, mu>>

\* The tool returns an error; "empty" is ErrEmptyCompletion.
ToolFails(p) ==
  /\ pc[p] = "tool"
  /\ "tool" \in Faults
  /\ \E label \in {"failed", "empty"} : Finish(p, label)
  /\ FailCheck(loc[p].head)
  /\ UNCHANGED <<history, threads, notes, prBody, nextBatch, nextNote, store, mu>>

-----------------------------------------------------------------------------
(* postSummary.                                                            *)

\* No store: one plain comment per call, without the wrapper marker.
LegacySummary(p) ==
  /\ pc[p] = "legacy"
  /\ Goto(p, "inline")
  /\ \/ /\ notes' = notes \cup {[id |-> nextNote, wrapper |-> FALSE, sha |-> 0,
                                 secs |-> NoSections, live |-> TRUE]}
        /\ nextNote' = nextNote + 1
     \/ "create" \in Faults /\ UNCHANGED <<notes, nextNote>>
  /\ UNCHANGED <<history, threads, prBody, checks, nextBatch, store, mu, loc>>

\* PutSection, before the lock.
PutSection(p) ==
  /\ pc[p] = "section"
  /\ Goto(p, "lock")
  /\ \/ store' = [store EXCEPT ![StoreOf[p]].secs[ToolOf[p]] = loc[p].head]
     \/ StoreFails /\ UNCHANGED store
  /\ UNCHANGED <<prVars, mu, loc>>

\* Mutant: the lock is not taken.
LockSummaryNotTaken(p) ==
  /\ pc[p] = "lock"
  /\ loc' = [loc EXCEPT ![p].secs = St(p).secs, ![p].existing = St(p).sum]
  /\ Goto(p, IF St(p).sum # 0 THEN "update" ELSE "create")
  /\ UNCHANGED <<prVars, store, mu>>

OwnSection(p) == [NoSections EXCEPT ![ToolOf[p]] = loc[p].head]

\* Mutant: the comment is rendered from this tool's section alone.
LockSummaryOwnSection(p) ==
  /\ pc[p] = "lock"
  /\ mu[MuOf[p]] = Free
  /\ mu' = [mu EXCEPT ![MuOf[p]] = p]
  /\ loc' = [loc EXCEPT ![p].secs = OwnSection(p), ![p].existing = St(p).sum]
  /\ Goto(p, IF St(p).sum # 0 THEN "update" ELSE "create")
  /\ UNCHANGED <<prVars, store>>

\* summaryMu.Lock, then AllSections (on an error: this tool's section alone)
\* and SummaryID (on an error: no comment is known).
LockSummary(p) ==
  /\ pc[p] = "lock"
  /\ mu[MuOf[p]] = Free
  /\ mu' = [mu EXCEPT ![MuOf[p]] = p]
  /\ \E secs \in {St(p).secs, OwnSection(p)}, existing \in {St(p).sum, 0} :
       /\ secs # St(p).secs \/ existing # St(p).sum => StoreFails
       /\ loc' = [loc EXCEPT ![p].secs = secs, ![p].existing = existing]
       /\ Goto(p, IF existing # 0 THEN "update" ELSE "create")
  /\ UNCHANGED <<prVars, store>>

\* The deferred Unlock; postSummary returns and its locals go.
Unlock(p) ==
  /\ mu' = [mu EXCEPT ![MuOf[p]] = Free]
  /\ loc' = [loc EXCEPT ![p].secs = NoSections, ![p].existing = 0]

\* UpdateSummaryComment: edits the comment in place, or fails when it was
\* deleted (or, with the "update" fault, for any other reason).
UpdateSummary(p) ==
  /\ pc[p] = "update"
  /\ \/ /\ \E n \in notes :
             /\ n.id = loc[p].existing /\ n.live
             /\ notes' = (notes \ {n}) \cup
                   {[n EXCEPT !.wrapper = TRUE, !.sha = loc[p].head, !.secs = loc[p].secs]}
        /\ Unlock(p)
        /\ Goto(p, "inline")
     \/ /\ \/ \A n \in notes : n.id = loc[p].existing => ~n.live
           \/ "update" \in Faults
        /\ Goto(p, "create")
        /\ UNCHANGED <<notes, mu, loc>>
  /\ UNCHANGED <<history, threads, prBody, checks, nextBatch, nextNote, store>>

\* Mutant: the error path returns without unlocking.
CreateSummaryKeepsLock(p) ==
  /\ pc[p] = "create"
  /\ Goto(p, "inline")
  /\ UNCHANGED <<prVars, store, mu, loc>>

\* PostSummaryComment; its id is remembered until PutSummaryID.
CreateSummary(p) ==
  /\ pc[p] = "create"
  /\ \/ /\ notes' = notes \cup {[id |-> nextNote, wrapper |-> TRUE, sha |-> loc[p].head,
                                 secs |-> loc[p].secs, live |-> TRUE]}
        /\ nextNote' = nextNote + 1
        /\ loc' = [loc EXCEPT ![p].existing = nextNote]
        /\ Goto(p, "putid")
        /\ UNCHANGED mu
     \/ /\ "create" \in Faults
        /\ Unlock(p)
        /\ Goto(p, "inline")
        /\ UNCHANGED <<notes, nextNote>>
  /\ UNCHANGED <<history, threads, prBody, checks, nextBatch, store>>

\* PutSummaryID, then the deferred unlock.
PutSummaryID(p) ==
  /\ pc[p] = "putid"
  /\ \/ store' = [store EXCEPT ![StoreOf[p]].sum = loc[p].existing]
     \/ StoreFails /\ UNCHANGED store
  /\ Unlock(p)
  /\ Goto(p, "inline")
  /\ UNCHANGED prVars

-----------------------------------------------------------------------------
(* postInline and resolveStalePriors.                                      *)

\* The snapshot of the prior findings.
SnapshotPriors(p) ==
  /\ pc[p] = "inline"
  /\ Goto(p, "filter")
  /\ \/ loc' = [loc EXCEPT ![p].prior = ListPostedFindings(St(p).recs)]
     \/ StoreFails /\ UNCHANGED loc
  /\ UNCHANGED <<prVars, store, mu>>

\* The two-stage filter: drop what the store knows, then keep the first of
\* each structural key (which one is first is up to the tool's order).
FilterInline(p) ==
  /\ pc[p] = "filter"
  /\ LET Key(c) == StructuralKey(ToolOf[p], c)
     IN  \E fresh \in SUBSET loc[p].res.inline, delta \in SUBSET loc[p].res.inline :
           /\ \A c \in loc[p].res.inline : (c \notin fresh) \in HasFinding(p, c)
           /\ delta \subseteq fresh
           /\ \A c \in fresh : \E d \in delta : Key(d) = Key(c)
           /\ \A c, d \in delta : Key(c) = Key(d) => c = d
           /\ loc' = [loc EXCEPT ![p].delta = delta]
           /\ Goto(p, IF delta = {} THEN "resolve" ELSE "post")
  /\ UNCHANGED <<prVars, store, mu>>

PostInline(p) ==
  /\ pc[p] = "post"
  /\ \E answer \in PostInlineComments(ToolOf[p], loc[p].delta) :
       /\ threads' = threads \cup answer.created
       /\ loc' = [loc EXCEPT ![p].refs = answer.refs, ![p].delta = {}]
       /\ Goto(p, IF St(p).on /\ answer.refs # {} THEN "record" ELSE "resolve")
  /\ nextBatch' = nextBatch + 1
  /\ UNCHANGED <<history, notes, prBody, checks, nextNote, store, mu>>

\* One RecordFinding of the loop over the refs.
RecordFinding(p) ==
  /\ pc[p] = "record"
  /\ \E ref \in loc[p].refs :
       /\ \/ store' = [store EXCEPT ![StoreOf[p]].recs = Recorded(p, ref.eid, ref.comment)]
          \/ StoreFails /\ UNCHANGED store
       /\ loc' = [loc EXCEPT ![p].refs = @ \ {ref}]
       /\ Goto(p, IF loc[p].refs = {ref} THEN "resolve" ELSE "record")
  /\ UNCHANGED <<prVars, mu>>

\* The key of a prior; a legacy record's is recomputed from its first line.
PriorKey(f) ==
  IF f.sk # NoKey THEN f.sk
  ELSE [tool |-> f.tool, file |-> f.file, sev |-> f.sev, nt |-> normalizeTitle[f.title]]

\* Mutant: no change-set gate.
StalePriorsUngated(p) ==
  {f \in loc[p].prior :
     /\ f.tool = ToolOf[p] /\ f.eid # NoId
     /\ \A c \in loc[p].res.inline : StructuralKey(ToolOf[p], c) # PriorKey(f)}

\* Mutant: what this run reported again is not spared.
StalePriorsAll(p) == {f \in loc[p].prior : f.tool = ToolOf[p] /\ f.eid # NoId}

\* Mutant: the gate applies to full reviews too.
StalePriorsAlwaysGated(p) ==
  {f \in loc[p].prior :
     /\ f.tool = ToolOf[p] /\ f.eid # NoId /\ f.file \in loc[p].chg
     /\ \A c \in loc[p].res.inline : StructuralKey(ToolOf[p], c) # PriorKey(f)}

\* The priors whose threads this run resolves.
StalePriors(p) ==
  {f \in loc[p].prior :
     /\ f.tool = ToolOf[p]
     /\ f.eid # NoId
     /\ loc[p].incr /\ loc[p].chg # {} => f.file \in loc[p].chg
     /\ \A c \in loc[p].res.inline : StructuralKey(ToolOf[p], c) # PriorKey(f)}

\* Where the rest of applyResult starts.
AfterInline(p) ==
  IF ReportStatus /\ loc[p].res.checks # {} THEN "check"
  ELSE IF loc[p].res.edit THEN "body" ELSE "done"

\* One ResolveThread of the loop; an error is logged and the loop goes on.
ResolveStale(p) ==
  /\ pc[p] = "resolve"
  /\ \E f \in StalePriors(p) :
       /\ \/ threads' = ResolveThread(f.eid)
          \/ "resolve" \in Faults /\ UNCHANGED threads
       /\ loc' = [loc EXCEPT ![p].prior = @ \ {f}]
  /\ UNCHANGED <<history, notes, prBody, checks, nextBatch, nextNote, store, mu, pc>>

FinishInline(p) ==
  /\ pc[p] = "resolve"
  /\ StalePriors(p) = {}
  /\ IF AfterInline(p) = "done" THEN Finish(p, "done")
     ELSE Goto(p, AfterInline(p)) /\ UNCHANGED loc
  /\ UNCHANGED <<prVars, store, mu>>

-----------------------------------------------------------------------------
(* The rest of applyResult.                                                *)

\* One UpsertCheckRun of CheckRun and CheckRuns.
ReportCheck(p) ==
  /\ pc[p] = "check"
  /\ \E k \in loc[p].res.checks :
       /\ \/ checks' = UpsertCheckRun(k.name, loc[p].head, k.status)
          \/ "check" \in Faults /\ UNCHANGED checks
       /\ \/ /\ loc[p].res.checks # {k}
             /\ loc' = [loc EXCEPT ![p].res.checks = @ \ {k}]
             /\ UNCHANGED pc
          \/ /\ loc[p].res.checks = {k} /\ loc[p].res.edit
             /\ Goto(p, "body") /\ UNCHANGED loc
          \/ /\ loc[p].res.checks = {k} /\ ~loc[p].res.edit
             /\ Finish(p, "done")
  /\ UNCHANGED <<history, threads, notes, prBody, nextBatch, nextNote, store, mu>>

\* applyPRBody: the section is spliced into the description as fetched, and
\* nothing is sent when that is the section it already holds.
EditBody(p) ==
  /\ pc[p] = "body"
  /\ \/ prBody' = [user |-> loc[p].user, cadoo |-> loc[p].head]
     \/ loc[p].section = loc[p].head /\ UNCHANGED prBody
     \/ "body" \in Faults /\ UNCHANGED prBody
  /\ Finish(p, "done")
  /\ UNCHANGED <<history, threads, notes, checks, nextBatch, nextNote, store, mu>>

-----------------------------------------------------------------------------

DispatchStep(p) ==
  \/ Fetch(p) \/ Diff(p) \/ RunTool(p) \/ ToolFails(p)
  \/ LegacySummary(p) \/ PutSection(p) \/ LockSummary(p) \/ UpdateSummary(p)
  \/ CreateSummary(p) \/ PutSummaryID(p)
  \/ SnapshotPriors(p) \/ FilterInline(p) \/ PostInline(p) \/ RecordFinding(p)
  \/ ResolveStale(p) \/ FinishInline(p) \/ ReportCheck(p) \/ EditBody(p)

DispatcherInit ==
  /\ PRInit
  /\ mu = [m \in Mutexes |-> Free]
  /\ pc = [p \in Procs |-> "idle"]
  /\ loc = [p \in Procs |-> EmptyLocal]

-----------------------------------------------------------------------------
(* What every composition of dispatchers is meant to keep.                 *)

\* "One top-level comment per PR - never multiple" (README.md): two tool
\* goroutines that both find no comment yet must not both create one.
\* postSummary holds summaryMu from the read of the id to its write.
OneWrapperComment == \A m, n \in Wrappers : m = n

\* "Idempotent comments" (README.md): no finding has two threads.
NoTwinThreads == \A a, b \in threads : a.sk = b.sk => a = b

\* th stands for comment c of the tool: same key, similar title, or a resolved
\* thread on c's lines (or one whose line was lost to a later push).
Represents(th, tool, c) ==
  /\ th.tool = tool /\ th.file = c.file /\ th.sev = c.sev
  /\ \/ th.sk = StructuralKey(tool, c)
     \/ SimilarToResolved(normalizeTitle[c.body], th.nt)
     \/ th.state # "open" /\ (th.line = 0 \/ th.line \in c.ls..c.le)

\* When a tool has posted, every finding it reported is on the PR, as the
\* thread just created or as an earlier one of the same tool, file and
\* severity that represents it: deduplication never drops the only copy.
EveryFindingOnPR ==
  \A p \in Procs : pc[p] = "resolve" =>
    \A c \in loc[p].res.inline : \E th \in threads : Represents(th, ToolOf[p], c)

-----------------------------------------------------------------------------
(* Refinement.                                                             *)

\* The state of a finding on the PR: that of its thread.
StateOf(k) ==
  IF \E th \in threads : th.sk = k
  THEN (CHOOSE th \in threads : th.sk = k).state ELSE "absent"

\* The jobs that have their tool's answer, and what it reports.
Answered == {p \in Procs : pc[p] \in Working \ {"fetch", "diff", "tool"}}
Reports(p) == {StructuralKey(ToolOf[p], c) : c \in loc[p].res.inline}

Board == INSTANCE FindingsBoard
         WITH board <- [k \in Keys |-> StateOf(k)],
              found <- [p \in Answered |-> Reports(p)]

\* "Idempotent comments" (README.md): the dispatchers of a PR keep the promise
\* of FindingsBoard, whatever their stores, ids and failures: a finding gets a
\* thread once, after it was reported, and only a tool that no longer reports
\* it, or a reviewer, closes it, for good.
KeepsBoard == Board!BoardSpec

=============================================================================
