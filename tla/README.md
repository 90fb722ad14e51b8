# Verification of Cadoo

Cadoo is a Go program that reviews pull requests with language models. It runs
tools (`/review`, `/describe`, `/improve`, ...) on a PR, posts their results
as comments, threads, check runs and a section of the description, and must
do so *again and again* on the same PR without repeating itself, losing a
finding, closing the wrong thread or overwriting what people wrote. It runs
either as stateless CI jobs (`cadoo ci`) or as a server (webhook, queue,
workers). It also publishes the documents of a release. This directory models
that core in TLA+, checks it with TLC and proves its safety properties and
refinements with TLAPS.

Paths below are relative to `src/`; `reviewer.go` is
`internal/orchestrator/reviewer.go`, `findings.go` is
`internal/findings/findings.go`, `ci.go` is `cmd/cadoo-cli/ci.go`.

## 1. Inventory of the system

| Component | State it keeps | Operations | What makes it correct |
|---|---|---|---|
| Findings store (`internal/findings`) | per PR: records of posted findings, sections, id of the top-level comment, last reviewed head; a JSON file of them | `HasFinding`, `RecordFinding`, `ListPostedFindings`, `PutSection`, `AllSections`, `SummaryID`, `PutSummaryID`, `NewFromPrior`; Postgres, in-memory with a JSON file, or seeded from the PR | a finding is recognised when moved or reworded, is never taken for another one, what reviewers closed stays closed; a crash loses nothing that was saved |
| Dispatcher (`internal/orchestrator`) | `summaryMu`; locals of each job | `Run`, `applyResult`, `postSummary`, `postInline`, `resolveStalePriors`, `applyPRBody`, `failCheck` | one top-level comment showing all sections; findings posted once; only stale threads closed; description preserved |
| Hosting-service adapters (`internal/vcs`) | none (the PR itself) | fetch, diff, post, edit, resolve, read back, check runs | partial failures reported so that the caller can retry |
| CI mode (`ci.go`) | one process per pipeline, nothing persists but the PR | read back, seed a store, run all tools in parallel | convergence over the runs of a PR |
| Webhook (`cmd/cadoo-webhook`) | none | events to tool jobs | every event a PR needs is answered |
| Queues (`internal/riverq`, `internal/jobs`) | jobs | insert, work, retry, rescue | no job is lost, none is retried for ever |
| Worker (`cmd/cadoo-worker`) | goroutines | run jobs through a dispatcher | crashes do not double or lose results |
| Release docs (`internal/releasedocs`) | a managed section of a release body, a branch and a PR for `CHANGELOG.md`, pages on a docs branch, rows in `release_docs_state` | generate, then three publishers in turn; River retries the whole | publishing twice is publishing once; the operator's text and the other releases' sections stay |
| Tools (`internal/tools`) | none | prompt, parse, anchor, filter, verdict | the verdict rests on an answer of the model; comments are on the diff |
| Context engine (`contextengine/compress.go`) | none | pack a diff into a token budget | budget kept, nothing lost in silence |
| LLM client, agent loop (`internal/llm`, `internal/agent`) | attempts, rounds, the dialogue | retry, tool-calling rounds | bounded; only what may pass is retried; each call of a tool is answered |
| Analysis, sandbox, kb, learnings, audit, reports, settings, auth, API, MCP, trackers, Slack, tunnel | rows or nothing | feed the prompt or serve requests | no protocol between them |

**Interactions.** The webhook turns an event into jobs and enqueues them; a
worker (or `cadoo ci`) hands each job to a `Dispatcher`; the dispatcher reads
the PR through an adapter, calls the tool, and writes results through the
adapter and the findings store. Goroutines of one process share the
dispatcher, hence `summaryMu`; processes share only the database and the PR.
The PR is also written by people.

**Hard behaviours.** Goroutines racing for the first comment; a store read
before and written after a call to the hosting service, or not written at all
because the process died; pipelines that overlap; retries of jobs that had
done half their work; posts that fail in part or whose answer is lost; a
description read minutes before it is written back; two notions of "the same
finding" used in one pass; a store file replaced while the process may die; a
release job retried after it had published half; model calls that race their
deadline. `PROJECT.json` lists each as a hazard at its line.

## 2. The modules

| Module | Models |
|---|---|
| `Findings` | identity of a finding (structural key, fingerprint, similarity), the records and their matching, on memory and on Postgres, and the record seeded from the PR |
| `PullRequest` | one PR on the hosting service as the adapters see it: heads, threads, top-level comments, description, check runs; the adapters' calls with their failures; what people do |
| `Dispatcher` | `Dispatcher.Run` and everything below it, one process per job |
| `CIRuns` | runs of `cadoo ci` over the life of a PR (composes `Dispatcher`) |
| `ServerJobs` | webhook, queue, workers, crashes, retries (composes `Dispatcher`) |
| `FindingsBoard` | what Cadoo promises of a PR's findings, without comments, stores and ids (abstract); `CIRuns` and `ServerJobs` implement it |
| `DurableStore` | what a store that is kept across restarts promises, without files (abstract) |
| `FindingsCache` | the in-memory store and its JSON file, one action per file-system call of `persist`; implements `DurableStore` |
| `ReleaseDocs` | release jobs, their three publishers, the repository and its people |
| `ContextBudget` | the packing loop of `contextengine.Compress` |
| `ReviewVerdict` | anchors, filters, comment policy and gate of `/review`, as operators |
| `ToolCall` | one call of `/review`, `/check` or `/deep_review`: packing, requests and retries, answers, tool-calling rounds, result (composes the two above) |
| `MCCIRuns`, `MCServerJobs`, `MCFindingsCache`, `MCReleaseDocs`, `MCToolCall` | instances for TLC |
| `..._proofs` | theorems on `Dispatcher`, `CIRuns`, `ServerJobs`, `FindingsCache`, `ReleaseDocs`, `ContextBudget`, `ReviewVerdict`, `ToolCall` |

`CIRuns` and `ServerJobs` extend `Dispatcher`, which extends `PullRequest`,
which extends `Findings`. `Dispatcher` has no specification of its own: how
processes share stores and locks (`StoreOf`, `MuOf`) is what the two
compositions differ in. `FindingsCache` extends `Findings`; `ToolCall` extends
`ContextBudget` and `ReviewVerdict`. In `CIRuns` and `ServerJobs` the result of
a tool is any member of `ToolResults`; `ToolCall` is where results come from.

### How the model corresponds to the code

*Text is abstracted to what the code tells apart.* A comment body is a value;
`normalizeTitle`, `firstLine` and `tokenize` are constants, so a property
holds for any text functions with their types. A hash is the record of what is
hashed (no collisions). The instances use four titles whose word sets are
0.5, 0.33 and 0 similar, so that both thresholds (0.5 for open, 0.3 for
resolved) separate them, and a body with an equal title and different text.

*A dispatcher is cut where others can interleave.* `pc[p]` is the point of
`Run` reached, `loc[p]` what it has read and not used yet:

| `pc` | code | what is read early and used late |
|---|---|---|
| `fetch`, `diff`, `tool` | `Run` | head, description, change set |
| `legacy` | `postSummary` without a store | |
| `section`, `lock`, `update`, `create`, `putid` | `postSummary`; the last three under `summaryMu` | rendered sections, comment id |
| `inline`, `filter`, `post`, `record` | `postInline`, one `RecordFinding` a step | snapshot of the priors, comments left, answer |
| `resolve` | `resolveStalePriors`, one thread a step | the same snapshot |
| `check`, `body` | rest of `applyResult` | the description as fetched |

The tool is an arbitrary choice from `ToolResults`; whatever only feeds the
prompt (linters, learnings, trackers, packing) is left out of this module.
Stores of kind `"mem"` never fail; of kind `"db"` any query may, and each
caller's reaction to the error is modelled. `HasFinding` is computed for the
whole result in one step: its queries are separate in the code, but no job
of the same tool runs on the PR at the same time except in `server_river`,
where a result holds one finding at most.

*The hosting service is external.* The failures of a call exist only when the
constant `Faults` names them; each run says which it admits. `UpsertCheckRun`
on GitHub lists and then creates; it is one step here. `DiffBetween` is the
set of files whose contents differ; GitHub's own comparison is three-dot,
which can only differ after a rebase. Structural keys lower-case the path
while buckets compare it exactly; paths here are opaque.

*The store of a CI run* (`PriorStore`) is built from `ListCadooArtifacts`;
when that fails the run goes on without a store (`NoStore`). *River* is
modelled from how `riverq` uses it: any free goroutine takes any job, a job
that fails or whose process dies is offered again while it has attempts. The
*memory queue* is a bounded channel with one consumer and no retries.

*The store's file.* `persist` is `MkdirAll`, `WriteFile` to `<path>.tmp` (cut in
two: truncate, then write) and `Rename`, under `memoryStore.mu`; each may fail,
and the failure is ignored. A file is missing, torn or whole. `Load` and
`Marshal` go through the encoded keys (`provider|repo|number`), as the tuple of
their parts: `|` cannot occur in a provider, a repository name or a number. A
process that dies leaves both files as they are; a machine that loses power is
not modelled (the code does not sync), nor is a file edited by hand. In server
mode without a database the webhook process is the only one that writes the
file. This refinement is what lets `server_memory` treat the store as maps.

*Release documents.* A release body is a sequence of pieces (operator text,
the two markers, the managed section), `CHANGELOG.md` a sequence of sections;
white space is abstracted. One action per call of the hosting service:
`UpsertFile` is `GetRef`, `GetHead`, `CreateRef`, `GetContents`, `PutFile`, and
`OpenOrUpdatePR` is `ListPRs`, `CreatePR`, as in the GitHub adapter (the call
before `GetHead` asks for the name of the default branch only, and counts as
read with the head; the failure of any call is `Fail`). A `GetRef` or
`GetContents` that fails is taken by the code for "not there", and so it is
here. `CreateRef` starts the branch at the head `GetHead` read, however far the
default branch has moved since: another job may have opened its pull request
meanwhile, and people merged it and deleted the branch. `base[t]` is the
changelog the branch of `t` was cut from; merging is git's three-way merge of
one file, by a merge commit, and has a conflict when both sides changed the
file. `ahead` has the branches with a commit that the default branch has not
(every write of a file is a commit); GitHub refuses a pull request of any other.
A retry starts from scratch (`Error`), with a new wording. `Skip` is an
attempt whose `.cadoo.yaml` cannot be fetched: `loadCfg` falls back to the base
configuration, in which release documents are off, so `Run` returns no error and
the job is completed with nothing published, or with what an earlier attempt
left half-way; River never retries it. The file itself is taken to enable the
documents and to parse, at every tag: one that does not is `Skip` at each
attempt.

*A tool call.* A patch is a sequence of diff lines of arbitrary lengths, so a
truncated one shows any number of them. An answer of the model is any of: no
content, text without an object, an object cut at the token limit, an object
that parses to any findings, with or without calls of tools. Any JSON object
that parses counts as an answer, an empty one as one without findings, as in
`ExtractJSON`. The context may end at any moment; a request is not sent with
an ended one. `/check` has one conversation per rule, in goroutines that cannot
cancel one another, because their function never returns an error. A finding
has a start and an end line: the tool checks the start, and `GithubLine` and
`GitlabLine` are where the adapters anchor the comment.

*Smaller abstractions.* A hunk header `+0,0`, which `diffanchor.go:59` accepts,
counts as one without a start; no added line can follow it. Rules of `/check`
have names: `check.go:127` leaves one without out of the gates though it ran. A
record seeded from the PR has the title its marker carries; where that is empty
(a title without words, a marker of an older version), `prior.go:36` takes the
first line of the comment instead (`gitlab.go:285`), which is left out. A tool
returns a result or an error, so `Dispatcher` has no step for a tool that returns
neither.

## 3. What is checked

Every passing run is exhaustive within its bounds. Deadlock checking is off:
a run stops when its pushes, pipelines and commands are used up, and the
system is then legitimately at rest.

| Run | Instance | Properties |
|---|---|---|
| `ci_inline` | 2 runs of `/improve`, 2 files, 2 heads, 8 sets of findings, GitHub, reviewers resolve threads; fault `resolve` | `TypeOK`, `NoDuplicateThreads`, `EveryFindingOnPR`, `UntouchedThreadsStayOpen`, `ResolvedStaysGone`, `KeepsBoard` |
| `ci_summary` | 2 tools in parallel, 2 GitLab pipelines, cancellation anywhere, comments deleted; faults `create tool readback` | `OneWrapperComment`, `WrapperShowsAllSections`, `RunsEnd` |
| `ci_gate_body` | `/describe` and `/review` in parallel, 3 runs, 2 heads, one blocking finding in 2 wordings, edits, resolutions; fault `body` | `EditsBeforeRunSurvive`, `RedGateHasThread` |
| `server_memory` | one process, queue of capacity 1, 2 heads, a command or a reopening; fault `enqueue` | `TypeOK`, `NoTwinThreads`, `AbsentFindingClosed`, `KeepsBoard` |
| `server_river` | one worker, 2 goroutines, a crash, 2 attempts, a legacy row; faults `fetch tool inline lost check` | `DroppedIsOnPR` |
| `server_recovery` | one goroutine, a crash, 2 attempts, a legacy row; faults `tool list store create update inline lost` | `DroppedIsOnPR`, `ComesToRest`, `OpenedPRIsReported` |
| `findings_cache` | the same PR on 2 services, 2 goroutines, a comment recorded with and without its id, 1 crash, any call failing | `TypeOK`, `AckedIsSaved`, `SurvivesRestarts` |
| `release_docs` | 2 releases, 2 jobs, 3 attempts, 1 page, 1 failure or dead worker, 1 edit | `TypeOK`, `OneManagedSection`, `QuietEditsSurvive`, `NoSectionTwice`, `OpenPRHasSection`, `FinishedIsPublished`, `RetryCompletes` |
| `tool_call` | 3 files, budget 12, cap 8, 2 rules, 3 attempts, 2 rounds, 3 configurations, 4 sets of findings | `TypeOK`, `WithinBudget`, `NothingLost`, `RequestsBounded`, `GatesRestOnAnswers`, `CommentsStartOnAddedLines`, `DialogueAnswered`, `OnlyTransientRepeated`, `CallEnds` |
| `ci_reworded` (violation) | 2 runs, one finding in two wordings | `RepeatedFindingKeepsThread` |
| `server_partial_post` (violation) | a discussion that cannot be created, then `/review` again | `DroppedIsOnPR` |
| `release_history` (violation) | 2 releases, no failures | `HistoryKept` |

What they show: `findings_cache`, that a file is never read back torn, that
what an operation has returned is in the file unless the file system refused,
and that the next operation writes what was refused. `release_docs`, that a
release body has one managed section whatever jobs, retries and edits come
between the read and the write of it; that no changelog lists a release twice;
that a pull request waiting for a review always adds the section of its release,
though its branch be deleted and made again from a stale head; that a job that
had its configuration and ends has run every publisher; and that only another
job of the release can make River give one up. `tool_call`, that the budget holds up to
one truncation marker; that every file of a diff is accounted for; that a gate
never turns green on a failed, empty or cut answer; that comments start on lines
the diff adds; that the dialogue sent to the gateway is well formed; and that a
call ends, with a bounded number of requests.

**Why the bounds suffice.** Everything Cadoo carries from one run to the next
is on the PR (CI) or in the store (server), so two runs show every relation
between a run and what earlier ones left; the second head makes the second
run incremental. A race over the comment needs two processes. Deduplication
relates a finding to one earlier one, so two findings and two files are
enough for a wrong match; `InlineSets` has a finding, the same one moved,
reworded at both thresholds, in another file, and two at once with equal
titles. `ci_gate_body` has a third run, the first that can find a thread closed
by Cadoo and one closed by a reviewer. A failure that matters happens once; a second attempt shows what the
retry makes of it. The store's file holds one content, so one crash after two
goroutines' operations shows every pair of a file and a temporary file. Two
jobs are the least that race for a branch, a file or a pull request; with two
releases they also meet through the default branch. The run has
one wording; what it checks is also proved, for any number of them. In
`tool_call` the sizes 5 and 9 are below and above the cap of 8, and three files
exhaust a budget of 12 in every way (exactly, by a cut, past it by a marker);
`MCToolCall` lets the diff and the configuration vary for `/review` only, as
nothing else reads them, always has two files with patches, and lets the third
one, with or without a patch, through the path filters.

**Bounds and exclusions to know of.** The CI runs do not overlap: two
pipelines that do create two comments (below). `ci_summary` does not admit the fault
`update`: when an edit fails while the comment exists, `postSummary` falls
through and creates a second comment, so one comment is only promised when an
edit fails because the comment is gone. `server_memory` has no crash: a crash
between a post and its record gives twins when the PR is reviewed again.
`server_recovery` has no fault `enqueue`: the webhook logs the error and
answers 202, and that PR is not reported on; nor `fetch` or `check`, since a
PR that is never read, or a check run that is never stored, is not reported
on either. `ci_gate_body` reviews without
sections, `ci_inline` with the fault `resolve` only: faults of other phases do
not touch what their properties read, and would only multiply states.
`RedGateHasThread` rests on results in which a red verdict comes with the
finding; `/review` itself may send a red one without (below). The thread it
promises is one that this run has not closed, unless the run took the finding
for another one worded like it (the case of `ci_reworded`). `QuietEditsSurvive`
leaves out edits made between the read and the write of a body, which are lost.
`FinishedIsPublished` and `RetryCompletes` say nothing of a job that ends
because an attempt could not fetch `.cadoo.yaml`: it may leave a release
half-published for good, and no check or log above debug level tells.
`OpenPRHasSection` rests on GitHub's refusal of a pull request without commits:
without it, TLC finds one that shows nothing (a job has read the head; another
opens the pull request, fails at the pages, and in its next attempt writes the
file again; the pull request is merged and its branch deleted; the first job
makes the branch anew from the head it had read, and the other, which finds none
open, opens one before the file is written). `CommentsStartOnAddedLines` lets
the service anchor a comment at the answer's end line, wherever that is: the
instance has ends off the diff, and the property without this exception fails in
it, for either service. Comments on a file as a whole are outside it too.

**Fairness.** `FairSpec` of `CIRuns` is weak fairness of each process: Go
schedules every goroutine and every call returns, by an answer or by the
context's end. `FairSpec` of `ServerJobs` adds weak fairness of the webhook's
handlers and of `EndJob`, and strong fairness of `Take`: a goroutine is taken
and freed repeatedly, and a waiting job must get it in the end; both queues
hand jobs out whenever a slot is free. `summaryMu` needs only weak fairness
in these instances, because each process competes for it finitely often.
`ToolCall` has weak fairness of packing, starting, each conversation and the
return: goroutines are scheduled, timers fire, and the client's timeout ends
every request. (A tool call of the loop that reads from the hosting service
also has to return: the GitHub client has a timeout of 30 seconds, the GitLab
client has none but the context's.) Workers are fair only while their process
runs: `runRiver` (`cmd/cadoo-worker/main.go:110`) returns when `q.Start` does,
which blocks according to `riverq/queue.go:148`; if River's `Start` only starts
the loops and returns, as a client that has a `Stop` might, the worker exits at
once and neither liveness property of the River runs says anything. `FairSpec` of
`ReleaseDocs` is weak fairness of each job's steps.
No fairness is assumed of people, of the gateway and the model, of crashes,
cancellation or faults.

**Refinements.** `Dispatcher!KeepsBoard` is `FindingsBoard!BoardSpec`: the place of
a finding (its tool and structural key) is the state of its thread, and what a
job has reported is in force from the tool's answer to the end of the job.
Posting a whole result is one abstract step, closing stale threads one per
thread; everything else a dispatcher does (reading back, sections, records,
checks, retried calls) is a stutter, so none of it may show on the board.

`FindingsCache!SurvivesRestarts` is `DurableStore!DurableSpec`
with the content readers see mapped to the maps (or to what the file would
give while the process is down) and the saved content mapped to what the file
would give. A change must be of one PR and keep its findings (`LegalChange`).

### Findings

The violation runs show where the code does not do what its documents say;
`PROJECT.json` quotes both sides.

1. `ci_reworded`: a reworded finding is recognised and not posted, and its
   thread is closed by the same run, because the two steps use different
   notions of sameness. The finding has no open thread left.
2. `server_partial_post`: the GitLab adapter returns a ref for a comment it
   failed to post; it is recorded, and never posted again.
3. `release_history`: the changelog of a release is written from the file at
   its tag onto a branch cut from the default branch. Publish two releases,
   merge the pull request of one, then let the job of the other run: its
   branch replaces the file by one without the merged section, and merges
   cleanly.

### Where documents and code part, without a run

Met while reading; each follows from a line or two, and no property claims
otherwise.

- Two pipelines of one PR that overlap each create a top-level comment
  (`README.md:73`: "One top-level comment per PR — never multiple"): `summaryMu`
  is per process, the store is read once, at the start, and
  `deploy/github/cadoo-review.yml` sets no concurrency group. `Overlap = TRUE`
  shows it in any instance of `CIRuns`.
- On a re-run of the same head the change set is empty, the gate at
  `reviewer.go:542` is skipped, and all unrepeated findings are closed; the
  comment at `reviewer.go:296` says none are.
- An edit of the description made while `/describe` runs is overwritten
  (`reviewer.go:435`; the comment at 429 promises to preserve it).
- `/review` reports a succeeded check when the comment policy silences its
  findings, blocking ones included (`review.go:113-134`;
  `docs/PRE_MERGE_GATES.md:10`: a failure "if any finding has a severity that
  appears in `review.request_changes_on`"). The other way round, it fails on
  findings that the anchor filter or `max_comments` has dropped, of which no
  comment tells.
- "Drop findings the model placed on context, unchanged, or removed lines"
  (`review.go:193`; `README.md:29`: "inline suggestions anchored to the diff"):
  only `line_start` is checked. `line_end` goes through as the model wrote it
  (`review.go:209`), and both adapters anchor there. GitHub takes or refuses the
  findings of a review as one, so one end line off the diff loses them all, and
  a finding on a file as a whole, which goes to line 1, does the same when line
  1 is not in a hunk; GitLab turns such a comment into a plain note.
- A `.cadoo.yaml` that cannot be read at the tag switches release documents off
  for that job (`releasedocs/dispatcher.go:169`), silently, also in a retry that
  was to finish what is half-published.
- A severity that is none of block, warn and nit ranks as a nit.
- A rule of `/check` whose model call failed is left out of the result: its
  threads of earlier runs are closed as stale, and its check run, which may be
  required, is never posted. The check runs are named `cadoo/check/<rule>`.
- Auto-resolution does not know which files the tool was shown, nor that
  `max_comments` cut its list: a thread is closed because a finding was not
  repeated, though its file was skipped or truncated this time.
- No `JobTimeout` is set (`riverq/queue.go:101`): River's default ends a job's
  context after a minute, and `failCheck` then reports on the ended context.
- An operator's edit between `GetReleaseByTag` and `UpdateReleaseBody` is lost;
  a stray end marker before the begin marker makes every run append a section.
- The base of the changelog's pull request is always `main`
  (`changelogpr.go:122`): elsewhere `CreatePR` fails in every attempt, and pages,
  which come after it, are never published.
- With `trigger: tag`, a tag that has no release fails in `GetReleaseByTag` in
  every attempt.
- "Read the existing CHANGELOG.md from the branch or ToRef"
  (`changelogpr.go:81`): only ToRef is read. A merged or closed pull request is
  not edited on a re-run but followed by a new one.
- A thread Cadoo itself resolved reads back as resolved, and then suppresses
  the finding like one a person closed (`findings.go:583`, `prior.go:52`): a
  finding that comes back after it was fixed is not shown again, and a gate can
  be red with no open thread. `findings.go:56` and `:537` speak of the user
  only; the design of 2026-06-14
  (`docs/superpowers/specs/2026-06-14-cadoo-ci-dedup-convergence-design.md:79`)
  of "the user or Cadoo".
- The similarity of titles without words is 0 (`findings.go:486`, so that a
  missing title dedupes nothing); such a title is then not similar to itself
  either: its thread, once resolved, is recognised by its lines only, and the
  finding is posted again when they have moved.
- `failCheck` posts `cadoo`, not the `cadoo/review` that
  `docs/PRE_MERGE_GATES.md:19` tells people to require, and a later success
  never overwrites it (`reviewer.go:637`).
- An empty completion is meant to be harmless (`ci.go:239-247`), but `Run`
  has posted a failed check by then (`reviewer.go:325`).
- Two River workers have a `summaryMu` each, and two goroutines of one worker
  can both miss a finding: a second comment, or twin threads, are possible in
  server mode.
- A row from before migration 0005 makes the scan in `HasFinding` fail, which
  counts as "not posted": the finding is posted again (modelled, `Legacy`).
- On GitHub the server learns no comment ids, so it closes no threads there.
- The webhook looks at the built-in `auto` defaults, not at the repository's
  `.cadoo.yaml` (`cmd/cadoo-webhook/main.go:314`).
- `RenderReviewedSHA` is written with the summary, before the findings are
  posted and by whichever tool has a summary; a failed `/review` can leave a
  head marked as reviewed, and what that push changed is outside the next
  run's change set.

## 4. What is proved

TLAPS proves the following for every value of the constants (any number of
runs, tools, files, findings, releases, jobs; any text functions; either
hosting service; any set of faults), from the constants' `ASSUME`s only:
`TextAssumption`, `ProviderAssumption`, `DispatcherAssumption`, `CIAssumption`,
`ServerAssumption`, `CacheAssumption`, `BudgetAssumption`, `ToolCallAssumption`,
`ReleaseAssumption`. They give the constants their types, and say that an attempt
is allowed, that names kept for special use are not used, and that keys of
different PRs differ. Where a theorem has a hypothesis of its own, it is named
below with the reason: in each case the code breaks the property without it.

All safety properties that passing runs check are theorems, and so are both
refinements; the four liveness properties are model-checked only (end of this
section).

### The dispatcher (`Dispatcher_proofs`)

- `DispatchStepKeepsType`: each step of a dispatcher keeps `DispatcherTypeOK`, in
  every composition. One lemma per action; the ones about posting rest on what
  the adapters may answer.
- `DispatchStepKeepsLock`: each step keeps `LockHeld`, that a process is in the
  critical section of `postSummary` exactly while it holds its mutex.

- `StepKeepsBoard`: each step of a dispatcher is a step of `FindingsBoard` or a
  stutter, in any composition without twin threads in which what is about to be
  posted was reported and has no thread, and the ids of stale records name
  threads of the tool that it has not reported. `Post` maps to `Post` with the
  findings whose call succeeded (`PushShown`), `ResolveStale` to `CloseStale`.

The rest of the module is what the compositions share: which step changes what
(`WhichStep`, `StepAndMutex`, `LocalsKept`), what a post can answer
(`PostAnswer`), that threads keep their key and only change from open to closed
(`StepThreads`, `ThreadsMove`), how a record stands for a thread.

### CI mode (`CIRuns_proofs`)

| Theorem | Property | Hypotheses | Inductive invariant |
|---|---|---|---|
| `TypeCorrect` | `TypeOK` | | itself |
| `InTurn` | `RunsInTurn` | `Overlap = FALSE` | itself |
| `WrapperIsKept`, `OneComment` | `OneWrapperComment` | `Overlap = FALSE`, no fault `update` | `WrapperInv` |
| `AllSectionsShown` | `WrapperShowsAllSections` | the same | `SectionsInv` |
| `EditsSurvive` | `EditsBeforeRunSurvive` | `Overlap = FALSE` | `DescriptionInv` |
| `ThreadsStayProper` | | | `ThreadsInv` |
| `IdsNameThreads` | | | `IdsInv` |
| `ResolvedFindingStaysGone` | `ResolvedStaysGone` | | `ResolvedInv` |
| `HeadsAreReal` | | | `HeadsInv` |
| `UntouchedThreadsAreKept` | `UntouchedThreadsStayOpen` | no fault `diff` | `ChangeSetInv` |
| `FindingsAreKept`, `NoFindingDropped` | `EveryFindingOnPR` | no fault `inline` | `FindingsInv` |
| `RedGateIsShown` | `RedGateHasThread` | `Overlap = FALSE`, no fault `inline`, `RedIsEarned` | `GateInv` |
| `NoDuplicates` | `NoDuplicateThreads` | `Overlap = FALSE`, `TitlesHaveWords` | `TwinInv` |
| `BoardIsKept` | `KeepsBoard` | the same, no fault `readback` | the ones above |

*The hypotheses.* Pipelines that overlap, and the fall-through of `postSummary`
on a failed edit, each create a second comment; overlapping pipelines also post
a finding twice and write back each other's description. A failing diff makes a
run a full one that closes threads anywhere. A post that fails leaves findings
off the PR, by definition. `RedIsEarned` says that a red `cadoo/review` comes with
a blocking finding in the same result: `ToolCall!GatesRestOnAnswers` and
`ReviewVerdict` show when `/review` keeps that, and section 3 when it does not.
`TitlesHaveWords`: a title without words is not similar to itself. A run that
cannot read the PR back posts every finding again.

*The comment.* That there is at most one wrapper comment says nothing about the
process that is about to create one. `WrapperInv` adds what the code's argument
rests on: comment ids are unique (`NoteIds`); a run starts when earlier ones are
over (`RunsInTurn`), so all processes at work belong to one run; `summaryMu` is
held from the read of the id to its write (`UnderLock`); the store of a run at
work knows every wrapper comment, or a process of that run has just created it
and is about to say so (`StoreKnowsWrapper`); hence who is about to create knows
there is none, who is about to edit has the only one's id (`CriticalKnows`). The
steps outside the lock are handled by one lemma (`QuietStepKeepsInv`).
`SectionsInv` adds what each tool has rendered: a section in the store is either
shown by the comment, or held by the process in the critical section, or its
tool is still on its way to the lock, so the last one to take it shows all.

*Threads.* `ThreadsInv`: ids are unique and old ones are never given again; a
thread's key is the one of what it shows. `IdsInv`: an external id kept in a
record, a snapshot or an answer is the id of the very thread it is kept for.
With that, closing by id closes what was meant, and the four deduplication
properties become statements about records: each thread a reviewer closed
before a run has a resolved record in its store (`ResolvedInv`); each record is
of a thread, and each finding of a result is on the PR or still to be posted
(`FindingsInv`); a tool that has not posted yet knows every thread of its own,
and the keys it is about to post are new (`TwinInv`). `HeadsInv` says that every
head carried around is one the PR had, `ChangeSetInv` that a change set is the
difference of the two heads it was computed for. `GateInv` joins them: from the
filter to the check run, the blocking finding behind a red verdict keeps a
thread the run has not closed. `BoardIsKept` needs no invariant of its own:
`TwinInv` says that what is posted has no thread, and `IdsInv` that a stale id is
the one of the record's own thread, whose key the job has not reported
(`DeltaIsReported`); `StepKeepsBoard` does the rest.

### Server mode (`ServerJobs_proofs`)

| Theorem | Property | Hypotheses | Inductive invariant |
|---|---|---|---|
| `TypeCorrect` | `TypeOK` | | itself |
| `MutualExclusion` | one goroutine of a worker in `postSummary` | | `TypeOK /\ LockHeld` |
| `RecordedIsShown`, `KnownIsOnPR` | `DroppedIsOnPR` | GitHub, or no fault `inline` | `ShownInv` |
| `PostedIsRecorded`, `NoTwins` | `NoTwinThreads` | `NothingLostBetween` | `SavedInv` |
| `ThreadsAreKnown`, `StaleThreadsAreClosed` | `AbsentFindingClosed` | `DiscussionsNamed` | `NamedInv` |
| `IdsNameThreads` | | `NothingLostBetween` | `IdsInv` |
| `BoardIsKept` | `KeepsBoard` | `NothingLostBetween` | the ones above |

`ShownInv` says that every record, and every answer about to be recorded, is of a
thread of the PR; on GitLab a discussion that fails is answered with a ref all
the same (finding 2), hence the hypothesis. `SavedInv` is the converse: each
thread has a record of its key, or the only job at work is about to write it.
`NothingLostBetween` excludes what comes between the PR and the store: a crash,
River's concurrent goroutines, rows of before the upgrade, and on GitHub an
answer that is lost. `NamedInv` adds ids: the store leads to every discussion by
its id, and a job at work to each one of its tool that it does not report again.
`DiscussionsNamed` is `NothingLostBetween` for GitLab with calls that close
threads succeeding; on GitHub the server learns no ids and closes none. For
the refinement, `SavedInv` says that what a job posts has no thread, and
`IdsInv` that an id in a record, a snapshot or an answer is the one of a thread
with the record's key, so that a stale record closes its own thread only
(`StaleIsOwn`).

### The store's file (`FindingsCache_proofs`)

- `TypeCorrect` and `ReturnedIsSaved` (`AckedIsSaved`), from the inductive
  `CacheInv`: a rename only ever moves the maps as they are, because whoever
  persists holds the lock (`RenamesCurrent`), the lock is free while the process
  is down (`HolderIsUp`), and what has returned is in the file.
- `Implements`: `Spec => SurvivesRestarts`, the refinement of `DurableStore`. The
  lemmas below it say that `Load` undoes `Marshal`, that each mutator makes a
  legal change, and which abstract step each concrete one is.

### A tool call (`ContextBudget_proofs`, `ReviewVerdict_proofs`, `ToolCall_proofs`)

- `PackingSound`: the packing loop, alone, keeps the budget and the cap of a file
  up to one marker, loses no file, and takes smaller ones first; by `PackInv`,
  which adds that the files still to come are not smaller than the packed ones.
- `ChangedLinesAreAdded`: the loop of `changedLineRanges` computes exactly the
  lines a diff adds, for a diff of any length. The loop is a fold over the
  sequence of lines; the proof is by induction over the set of lines read, with
  the least line at which it could go wrong.
- `TypeCorrect`, `PackedWithinBudget` (`WithinBudget`), `NoFileLost`
  (`NothingLost`), `BoundedRequests` (`RequestsBounded`) and `FinalIsFinal`
  (`OnlyTransientRepeated`), by the invariant `CallInv`: types, the packing
  invariant, and `RoundBound`, that the requests of earlier rounds and of this one
  each stay below their share.
- `RequestsAreDialogues` (`DialogueAnswered`), `GatesAreEarned`
  (`GatesRestOnAnswers`) and `CommentsAreAnchored` (`CommentsStartOnAddedLines`), by
  `AnswerInv`: the dialogue is a sequence of whole exchanges at the start of each
  round, a conversation that ended well holds an answer of the model, and a
  result is made of these answers by the operators of `ReviewVerdict`.

### Release documents (`ReleaseDocs_proofs`)

- `TypeCorrect`, by `TypeInv`: `TypeOK`, and what a job carries at each step
  (`Sound`): an attempt left while it waits, a wording and a page in range while
  it works.
- `ManagedSectionIsOne` (`OneManagedSection`), by `BodyInv`: not only the bodies
  are whole, also each one a job has read and not written yet. Splicing into a
  whole body keeps what stood around the section, and nothing else
  (`SpliceParts`), so a stale read loses an edit but never doubles a marker.
- `OperatorTextSurvives` (`QuietEditsSurvive`), by `QuietInv`: what was written
  while nobody stood between a read and its write is in the body, and in every
  body that a job has read since.
- `NoReleaseListedTwice` (`NoSectionTwice`), by `LogInv`: every changelog lists
  only releases, each once, and a release is not listed in its own tree, since
  its tag is set before anything can be published for it. This is why the code
  may prepend without looking: it prepends to the file at the tag.
- `DoneIsPublished` (`FinishedIsPublished`), by `ProgressInv`: at each step a job
  that had its configuration has in place what the steps before it publish, and
  nobody takes any of it away again (`Stays`). A job that ends for want of the
  configuration is `skipped`, not `done`, and nothing is claimed of it; but what
  it leaves half-way harms no other job's claim.
- `RetriesSuffice` (`RetryCompletes`), by `AloneInv`, if `2 * MaxFailures <
  MaxAttempts`. A job with no other is refused a call in two ways only: what an
  earlier call of the attempt read is not so, because that call failed unnoticed
  (`Misled`), or the pull request of an earlier attempt has been merged under it
  (`Lost`), and that attempt had failed after opening it. So each failure
  accounts for two errors at most.
- `WaitingPRHasSection` (`OpenPRHasSection`), by `PRInv`, for any number of
  releases and jobs, with no hypothesis: a branch with a commit of its own shows
  the section of its release (`Shown`), since the commits are the sections and
  whoever makes the branch anew finds it without; and an open pull request has
  such a branch, since it is refused without and a merge closes it. The head a
  branch is made from may be arbitrarily old: no step of the argument needs it.

### Only model-checked

Liveness (`RunsEnd`, `ComesToRest`, `OpenedPRIsReported`, `CallEnds`), which is
outside the prover's reach.

## 5. What is not modelled, and the plan

Not modelled on purpose: prompts, linters and their sandbox, knowledge base,
learnings, audit, reports, trackers, Slack, MCP, HTTP routing, signatures,
settings, the API, the tunnel, the CLI's other commands. They feed the prompt,
or read and write independent rows; no property above depends on their state.
The Redoc bundle is vendored, and the VS Code extension is a stub that shows
messages.

Modelled in part: the generators and the change model of release documents,
which only read, are a choice of wordings; release operations are those of
the GitHub adapter; the weekly reporter of the worker; the tools other than
`/review`, `/check` and `/deep_review`, which make one such call and pass on its
text.

Next: a property of `CIRuns` composed with `ReviewVerdict`, that every head marked
as reviewed had its changes reviewed, under the conditions in which it holds.
