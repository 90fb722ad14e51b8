------------------------------- MODULE CIRuns -------------------------------
(***************************************************************************)
(* CI mode (cmd/cadoo-cli/ci.go): every pipeline is one stateless run of   *)
(* `cadoo ci`.  The run rebuilds a findings store from the PR's own        *)
(* comments (ListCadooArtifacts, NewFromPrior) and dispatches all its      *)
(* tools in parallel goroutines that share the store and the dispatcher.   *)
(*                                                                         *)
(* Nothing but the PR survives a run.  The PR's author may push, resolve   *)
(* threads, delete Cadoo's comment and edit the description at any time;   *)
(* a pipeline may be cancelled at any time.                                *)
(***************************************************************************)
EXTENDS Dispatcher

CONSTANTS MaxRuns,      \* bound: pipelines in a behaviour
          MaxHead,      \* bound: heads of the PR
          MaxEdits,     \* bound: edits of the description
          Overlap,      \* may a pipeline start while another is running?
          Cancels,      \* may a pipeline be cancelled?
          Reviewers,    \* do reviewers resolve threads?
          Deletes       \* do reviewers delete Cadoo's comments?

VARIABLE before   \* auxiliary: before[r], what had been done when run r started

Runs == 1..MaxRuns

ASSUME CIAssumption ==
  /\ MaxRuns \in Nat /\ MaxHead \in Nat /\ MaxEdits \in Nat
  /\ Overlap \in BOOLEAN /\ Cancels \in BOOLEAN
  /\ Reviewers \in BOOLEAN /\ Deletes \in BOOLEAN
  /\ Procs = Runs \X Tools
  /\ \A p \in Procs : ToolOf[p] = p[2] /\ StoreOf[p] = p[1] /\ MuOf[p] = p[1]
  /\ Stores = Runs /\ Mutexes = Runs
  /\ Backend = "mem"

ciVars == <<vars, before>>

\* The threads reviewers and Cadoo had resolved, and the description's text.
Before == [resolved : SUBSET ThreadId, closed : SUBSET ThreadId, user : Nat]

ThreadsIn(state) == {th.id : th \in {x \in threads : x.state = state}}

Started(r) == \E t \in Tools : pc[<<r, t>>] # "idle"
RunOver(r) == \A t \in Tools : pc[<<r, t>>] \in Finished

\* priorStore: the store of a run, seeded from the PR; a failed read-back
\* leaves the dispatcher without one.
PriorStore(snap) ==
  [on |-> TRUE, recs |-> {SeedRec(pi) : pi \in snap.inline}, secs |-> NoSections,
   sum |-> snap.sum, sha |-> snap.sha]

NoStore == [EmptyStore EXCEPT !.on = FALSE]

\* ciCmd up to the dispatch of the tools.
StartRun(r) ==
  /\ ~Started(r)
  /\ \A q \in Runs : q < r => Started(q) /\ (Overlap \/ RunOver(q))
  /\ \/ store' = [store EXCEPT ![r] = PriorStore(ListCadooArtifacts)]
     \/ "readback" \in Faults /\ store' = [store EXCEPT ![r] = NoStore]
  /\ pc' = [p \in Procs |-> IF p[1] = r THEN "fetch" ELSE pc[p]]
  /\ before' = [before EXCEPT ![r] =
                  [resolved |-> ThreadsIn("user"), closed |-> ThreadsIn("cadoo"),
                   user |-> prBody.user]]
  /\ UNCHANGED <<prVars, mu, loc>>

\* The pipeline is cancelled: its process ends, mutex and store with it.
Cancel(r) ==
  /\ Cancels
  /\ Started(r) /\ ~RunOver(r)
  /\ pc' = [p \in Procs |-> IF p[1] = r /\ pc[p] \in Working THEN "killed" ELSE pc[p]]
  /\ loc' = [p \in Procs |-> IF p[1] = r THEN EmptyLocal ELSE loc[p]]
  /\ mu' = [mu EXCEPT ![r] = Free]
  /\ UNCHANGED <<prVars, store, before>>

Author ==
  /\ \/ Push(MaxHead)
     \/ Reviewers /\ UserResolves
     \/ Deletes /\ UserDeletesNote
     \/ UserEditsBody(MaxEdits)
  /\ UNCHANGED <<procVars, before>>

ToolStep(p) == DispatchStep(p) /\ UNCHANGED before

Init ==
  /\ DispatcherInit
  /\ store = [r \in Stores |-> EmptyStore]
  /\ before = [r \in Runs |-> [resolved |-> {}, closed |-> {}, user |-> 0]]

Next ==
  \/ \E r \in Runs : StartRun(r) \/ Cancel(r)
  \/ \E p \in Procs : ToolStep(p)
  \/ Author

Spec == Init /\ [][Next]_ciVars

\* The Go scheduler runs every goroutine, and every call returns: an HTTP
\* client or the context ends it.
FairSpec == Spec /\ \A p \in Procs : WF_ciVars(ToolStep(p))

-----------------------------------------------------------------------------
(* Safety.                                                                 *)

\* Every variable has its type: the store of a run only holds records that
\* can be read back, the mutex names a process, locals are well formed.
TypeOK == DispatcherTypeOK /\ before \in [Runs -> Before]

\* Once a run is over and none of its tools was cancelled, the comment it
\* wrote shows the section of every tool that produced one, whatever order
\* the goroutines took the lock in (PutSection comes before the lock).
WrapperShowsAllSections ==
  \A r \in Runs : \A n \in notes :
    (/\ RunOver(r) /\ \A t \in Tools : pc[<<r, t>>] # "killed"
     /\ \A q \in Runs : q > r => ~Started(q)
     /\ store[r].on /\ store[r].secs # NoSections
     /\ n.live /\ n.id = store[r].sum)
    => n.secs = store[r].secs

\* While every run could read the PR back, no finding has two threads: what a
\* run posts is not on the PR already, not even as a resolved thread.
NoDuplicateThreads ==
  (\A r \in Runs : store[r].on) => NoTwinThreads

\* The step that closes a thread, and the process that takes it.
Closes(p, th) ==
  /\ pc[p] = "resolve" /\ loc'[p] # loc[p]
  /\ th \in threads /\ th.state = "open" /\ th \notin threads'

\* A tool closes only threads of its own, and when the reviewed head and the
\* fetched head differ in some file, only threads on files that differ:
\* threads on untouched code stay open (resolveStalePriors' change-set gate).
UntouchedThreadsStayOpen ==
  [][\A p \in Procs : \A th \in threads :
       Closes(p, th) =>
         /\ th.tool = ToolOf[p]
         /\ LET base == store[StoreOf[p]].sha
            IN  base # 0 => LET d == DiffBetween(base, loc[p].head)
                            IN  d # {} => th.file \in d]_ciVars

\* A finding a reviewer had resolved when the run started stays gone: the run
\* opens no thread of the same tool, file and severity whose title is at
\* least 0.3 similar (memoryStore.has, resolved branch).
ResolvedStaysGone ==
  [][\A th \in threads' \ threads : \A p \in Procs :
       (pc[p] = "post" /\ pc'[p] # "post" /\ store[StoreOf[p]].on) =>
         ~ \E old \in threads :
             /\ old.id \in before[p[1]].resolved
             /\ old.tool = th.tool /\ old.file = th.file /\ old.sev = th.sev
             /\ SimilarToResolved(th.nt, old.nt)]_ciVars

\* What people wrote into the description before a run started is still there
\* after its describe job has replaced Cadoo's section.
EditsBeforeRunSurvive ==
  [][\A p \in Procs :
       (pc[p] = "body" /\ pc'[p] = "done") => prBody'.user >= before[p[1]].user]_ciVars

\* When cadoo/review turns red, a blocking finding of /review is on the PR for
\* people to act on: deduplication and auto-resolution, which come first, leave
\* it there.  Its thread is not one that this run has closed, unless the run
\* took the finding for another one that is worded like it.
RedGateHasThread ==
  [][\A k \in checks' \ checks :
       (k.name = ReviewCheckName /\ k.status = "failed") =>
         \E p \in Procs :
           /\ pc[p] = "check" /\ <<pc[p], loc[p]>>' # <<pc[p], loc[p]>>
           /\ \E c \in loc[p].res.inline : \E th \in threads :
                /\ c.sev = "block" /\ Represents(th, "review", c)
                /\ th.sk = StructuralKey("review", c) =>
                     th.state # "cadoo" \/ th.id \in before[p[1]].closed]_ciVars

(* Liveness.                                                               *)

\* A run that started ends: no tool waits for ever for summaryMu, whichever
\* of its siblings failed and wherever.
RunsEnd == \A r \in Runs : Started(r) ~> RunOver(r)

-----------------------------------------------------------------------------
(* What the documentation says and the code does not do.                   *)

\* reviewer.go: postInline auto-resolves "threads whose finding the model
\* didn't repeat this run"; a finding it did repeat, reworded or not, keeps a
\* thread that is open or that a reviewer closed.
RepeatedFindingKeepsThread ==
  \A p \in Procs : pc[p] \in {"check", "body"} =>
    \A c \in loc[p].res.inline :
      \E th \in threads : th.state # "cadoo" /\ Represents(th, ToolOf[p], c)

=============================================================================
