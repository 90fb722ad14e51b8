--------------------------- MODULE CIRuns_proofs ----------------------------
(***************************************************************************)
(* Proofs about CIRuns, for any number of runs, tools, files and findings  *)
(* and any bounds.                                                         *)
(***************************************************************************)
EXTENDS CIRuns, Dispatcher_proofs

-----------------------------------------------------------------------------
(* The type invariant.                                                     *)

\* A finding read back from the PR seeds a record.
LEMMA SeedType ==
  ASSUME NEW th \in Thread
  PROVE  SeedRec(PriorInline(th)) \in Rec
  BY DEF SeedRec, PriorInline, Rec, Thread

\* The store a run starts with.
LEMMA PriorStoreType ==
  ASSUME PRTypeOK
  PROVE  PriorStore(ListCadooArtifacts) \in Store
<1> DEFINE snap == ListCadooArtifacts
<1>1. {SeedRec(pi) : pi \in snap.inline} \subseteq Rec
  BY SeedType DEF PRTypeOK, ListCadooArtifacts
<1>2. snap.sum \in Nat /\ snap.sha \in Nat
  <2>1. ASSUME PickWrapper # {} PROVE Picked.id \in Nat /\ Picked.sha \in Nat
    <3>1. Picked \in PickWrapper
      BY <2>1 DEF Picked
    <3>2. PickWrapper \subseteq Note
      BY DEF PickWrapper, Wrappers, PRTypeOK
    <3> QED
      BY <3>1, <3>2 DEF Note
  <2> QED
    BY <2>1 DEF ListCadooArtifacts
<1>3. NoSections \in [Tools -> Nat]
  BY DEF NoSections
<1> HIDE DEF snap
<1>4. [on |-> TRUE, recs |-> {SeedRec(pi) : pi \in snap.inline}, secs |-> NoSections,
       sum |-> snap.sum, sha |-> snap.sha] \in Store
  BY <1>1, <1>2, <1>3 DEF Store
<1> QED
  BY <1>4 DEF PriorStore, snap

\* A store that knows nothing, switched on or off.
LEMMA EmptyStoreType == EmptyStore \in Store /\ NoStore \in Store
  BY DEF EmptyStore, NoStore, Store, NoSections

\* ciCmd starts a run.
LEMMA StartRunKeepsType ==
  ASSUME NEW r \in Runs, TypeOK, StartRun(r)
  PROVE  TypeOK'
<1>1. store' \in [Stores -> Store]
  BY CIAssumption, PriorStoreType, EmptyStoreType DEF StartRun, TypeOK, DispatcherTypeOK
<1>2. pc' \in [Procs -> PCs]
  BY DEF StartRun, TypeOK, DispatcherTypeOK, PCs, Working
<1>3. before' \in [Runs -> Before]
  <2>1. \A state \in {"user", "cadoo"} : ThreadsIn(state) \subseteq ThreadId
    BY DEF ThreadsIn, TypeOK, DispatcherTypeOK, PRTypeOK, Thread
  <2>2. prBody.user \in Nat
    BY DEF TypeOK, DispatcherTypeOK, PRTypeOK, PRBody
  <2> QED
    BY <2>1, <2>2 DEF StartRun, Before, TypeOK
<1>4. UNCHANGED <<prVars, mu, loc>>
  BY DEF StartRun
<1> QED
  BY <1>1, <1>2, <1>3, <1>4, PRUnchanged DEF TypeOK, DispatcherTypeOK

\* A pipeline is cancelled.
LEMMA CancelKeepsType ==
  ASSUME NEW r \in Runs, TypeOK, Cancel(r)
  PROVE  TypeOK'
<1>1. pc' \in [Procs -> PCs]
  BY DEF Cancel, TypeOK, DispatcherTypeOK, PCs, Finished
<1>2. loc' \in [Procs -> Local]
  BY EmptyLocalType DEF Cancel, TypeOK, DispatcherTypeOK
<1>3. mu' \in [Mutexes -> Procs \cup {Free}]
  BY DEF Cancel, TypeOK, DispatcherTypeOK
<1>4. UNCHANGED <<prVars, store, before>>
  BY DEF Cancel
<1> QED
  BY <1>1, <1>2, <1>3, <1>4, PRUnchanged DEF TypeOK, DispatcherTypeOK

\* The people of the PR do something.
LEMMA AuthorKeepsType ==
  ASSUME TypeOK, Author
  PROVE  TypeOK'
<1>1. PRTypeOK
  BY DEF TypeOK, DispatcherTypeOK
<1>2. PRTypeOK'
  <2>1. CASE Push(MaxHead)
    BY <1>1, <2>1, PushKeepsType
  <2>2. CASE UserResolves
    <3>1. \A th \in Thread : [th EXCEPT !.state = "user"] \in Thread
      BY DEF Thread
    <3>2. threads' \subseteq Thread
      BY <1>1, <2>2, <3>1 DEF UserResolves, PRTypeOK
    <3>3. UNCHANGED <<history, notes, prBody, checks, nextBatch, nextNote>>
      BY <2>2 DEF UserResolves
    <3> QED
      BY <1>1, <3>2, <3>3 DEF PRTypeOK
  <2>3. CASE UserDeletesNote
    <3>1. \A n \in Note : [n EXCEPT !.live = FALSE] \in Note
      BY DEF Note
    <3>2. notes' \subseteq Note
      BY <1>1, <2>3, <3>1 DEF UserDeletesNote, PRTypeOK
    <3>3. UNCHANGED <<history, threads, prBody, checks, nextBatch, nextNote>>
      BY <2>3 DEF UserDeletesNote
    <3> QED
      BY <1>1, <3>2, <3>3 DEF PRTypeOK
  <2>4. CASE UserEditsBody(MaxEdits)
    <3>1. prBody' \in PRBody
      BY <1>1, <2>4 DEF UserEditsBody, PRTypeOK, PRBody
    <3>2. UNCHANGED <<history, threads, notes, checks, nextBatch, nextNote>>
      BY <2>4 DEF UserEditsBody
    <3> QED
      BY <1>1, <3>1, <3>2 DEF PRTypeOK
  <2> QED
    BY <2>1, <2>2, <2>3, <2>4 DEF Author
<1>3. UNCHANGED <<store, mu, pc, loc, before>>
  BY DEF Author, procVars
<1> QED
  BY <1>2, <1>3 DEF TypeOK, DispatcherTypeOK

\* The variables have their types at first.
LEMMA InitType == Init => TypeOK
<1> SUFFICES ASSUME Init PROVE TypeOK
  OBVIOUS
<1>1. PRTypeOK
  <2>1. PICK v \in Versions : history = << [f \in Files |-> v] >>
    BY DEF Init, DispatcherInit, PRInit
  <2>2. [f \in Files |-> v] \in Tree
    BY DEF Tree
  <2>3. history \in Seq(Tree) /\ history # <<>>
    BY <2>1, <2>2
  <2>4. threads = {} /\ notes = {} /\ prBody \in PRBody /\ checks = {}
    BY DEF Init, DispatcherInit, PRInit, PRBody
  <2>5. nextBatch \in Nat /\ nextNote \in Nat \ {0}
    BY DEF Init, DispatcherInit, PRInit
  <2> QED
    BY <2>3, <2>4, <2>5 DEF PRTypeOK
<1>2. store \in [Stores -> Store]
  BY EmptyStoreType DEF Init
<1>3. mu \in [Mutexes -> Procs \cup {Free}]
  BY DEF Init, DispatcherInit
<1>4. pc \in [Procs -> PCs]
  BY DEF Init, DispatcherInit, PCs
<1>5. loc \in [Procs -> Local]
  BY EmptyLocalType DEF Init, DispatcherInit
<1>6. before \in [Runs -> Before]
  BY DEF Init, Before
<1> QED
  BY <1>1, <1>2, <1>3, <1>4, <1>5, <1>6 DEF TypeOK, DispatcherTypeOK

\* One step of anybody keeps the types.
LEMMA NextKeepsType ==
  ASSUME TypeOK, [Next]_ciVars
  PROVE  TypeOK'
<1>1. ASSUME NEW r \in Runs, StartRun(r) PROVE TypeOK'
  BY <1>1, StartRunKeepsType
<1>2. ASSUME NEW r \in Runs, Cancel(r) PROVE TypeOK'
  BY <1>2, CancelKeepsType
<1>3. ASSUME NEW p \in Procs, ToolStep(p) PROVE TypeOK'
  BY <1>3, DispatchStepKeepsType DEF ToolStep, TypeOK
<1>4. CASE Author
  BY <1>4, AuthorKeepsType
<1>5. CASE UNCHANGED ciVars
  BY <1>5, PRUnchanged DEF ciVars, vars, procVars, TypeOK, DispatcherTypeOK
<1> QED
  BY <1>1, <1>2, <1>3, <1>4, <1>5 DEF Next

\* Every variable keeps its type through every behaviour of CI mode: the
\* store of a run holds records of findings only, the mutex of a run is free
\* or names a process, and what a process carries from call to call is
\* well formed.
THEOREM TypeCorrect == Spec => []TypeOK
  BY InitType, NextKeepsType, PTL DEF Spec

-----------------------------------------------------------------------------
(* One top-level comment.                                                  *)
(*                                                                         *)
(* OneWrapperComment alone is not inductive: that a process may create the *)
(* comment follows from what it read under the lock, and that from what    *)
(* the store of its run knows of the comments on the PR.                   *)

\* Comment ids are not used twice.
NoteIds ==
  /\ \A n \in notes : n.id < nextNote
  /\ \A m, n \in notes : m.id = n.id => m = n

\* A run starts when the earlier ones are over.
RunsInTurn ==
  \A p, q \in Procs : p[1] < q[1] /\ pc[q] # "idle" => pc[p] \in Finished

\* postSummary is only entered with a store, and summaryMu is held from the
\* read of the comment's id to its write.
UnderLock ==
  \A p \in Procs :
    /\ pc[p] \in Critical => mu[p[1]] = p
    /\ pc[p] \in Critical \cup {"section", "lock"} => store[p[1]].on

\* While a run that has a store is at work, that store knows of every
\* wrapper comment, or the process that has just created it is about to
\* store its id.
StoreKnowsWrapper ==
  \A p \in Procs : (pc[p] \in Working /\ store[p[1]].on) =>
    \A n \in Wrappers :
      \/ n.id = store[p[1]].sum
      \/ \E q \in Procs : q[1] = p[1] /\ pc[q] = "putid" /\ loc[q].existing = n.id

\* What a process in the critical section may rely on.
CriticalKnows ==
  \A p \in Procs :
    /\ pc[p] = "update" => loc[p].existing = store[p[1]].sum
    /\ pc[p] = "create" => Wrappers = {}
    /\ pc[p] = "putid" => \A n \in Wrappers : n.id = loc[p].existing

\* The inductive invariant.
WrapperInv ==
  /\ TypeOK /\ NoteIds /\ RunsInTurn /\ UnderLock /\ StoreKnowsWrapper /\ CriticalKnows
  /\ OneWrapperComment

\* Processes, runs, and what the constants say of them.
LEMMA ProcsAreRuns ==
  ASSUME NEW p \in Procs
  PROVE  /\ p[1] \in Runs /\ p[1] \in Nat
         /\ StoreOf[p] = p[1] /\ MuOf[p] = p[1] /\ St(p) = store[p[1]]
         /\ ~StoreFails
  BY CIAssumption DEF Runs, St, StoreFails

\* Two processes at work belong to one run.
LEMMA OneRunAtWork ==
  ASSUME RunsInTurn, NEW p \in Procs, NEW q \in Procs,
         pc[p] \in Working, pc[q] \in Working
  PROVE  p[1] = q[1]
<1>1. pc[p] # "idle" /\ pc[q] # "idle" /\ pc[p] \notin Finished /\ pc[q] \notin Finished
  BY DEF Working, Finished
<1>2. p[1] \in Nat /\ q[1] \in Nat
  BY ProcsAreRuns
<1> QED
  BY <1>1, <1>2 DEF RunsInTurn

\* One process at most is in the critical section of postSummary.
LEMMA AloneInCritical ==
  ASSUME RunsInTurn, UnderLock, NEW p \in Procs, NEW q \in Procs,
         pc[p] \in Critical, pc[q] \in Critical
  PROVE  p = q
<1>1. p[1] = q[1]
  BY OneRunAtWork DEF Critical, Working
<1> QED
  BY <1>1 DEF UnderLock

-----------------------------------------------------------------------------

\* A step of p outside the critical section that creates no wrapper comment.
QuietStep(p) ==
  /\ pc[p] \in Working \ Critical
  /\ pc'[p] \in (Working \cup Finished) \ Critical
  /\ pc'[p] \in {"section", "lock"} => store[p[1]].on
  /\ \A q \in Procs \ {p} : pc'[q] = pc[q] /\ loc'[q] = loc[q]
  /\ \A r \in Runs : store'[r].on = store[r].on /\ store'[r].sum = store[r].sum
  /\ UNCHANGED mu
  /\ Wrappers' = Wrappers

\* Such a step keeps the invariant.
LEMMA QuietStepKeepsInv ==
  ASSUME WrapperInv, TypeOK', NoteIds', NEW p \in Procs, QuietStep(p)
  PROVE  WrapperInv'
<1>1. RunsInTurn'
  <2> SUFFICES ASSUME NEW a \in Procs, NEW b \in Procs, a[1] < b[1], pc'[b] # "idle"
               PROVE  pc'[a] \in Finished
    BY DEF RunsInTurn
  <2>1. pc[b] # "idle"
    BY DEF QuietStep, Working
  <2>2. pc[a] \in Finished
    BY <2>1 DEF WrapperInv, RunsInTurn
  <2>3. a # p
    BY <2>2 DEF QuietStep, Working, Finished
  <2> QED
    BY <2>2, <2>3 DEF QuietStep
<1>2. UnderLock'
  <2> SUFFICES ASSUME NEW a \in Procs
               PROVE  /\ pc'[a] \in Critical => mu'[a[1]] = a
                      /\ pc'[a] \in Critical \cup {"section", "lock"} => store'[a[1]].on
    BY DEF UnderLock
  <2>1. store'[a[1]].on = store[a[1]].on /\ mu' = mu
    BY ProcsAreRuns DEF QuietStep
  <2>2. CASE a = p
    BY <2>1, <2>2 DEF QuietStep
  <2>3. CASE a # p
    BY <2>1, <2>3 DEF QuietStep, WrapperInv, UnderLock
  <2> QED
    BY <2>2, <2>3
<1>3. StoreKnowsWrapper'
  <2> SUFFICES ASSUME NEW a \in Procs, pc'[a] \in Working, store'[a[1]].on,
                      NEW n \in Wrappers'
               PROVE  \/ n.id = store'[a[1]].sum
                      \/ \E q \in Procs : q[1] = a[1] /\ pc'[q] = "putid" /\ loc'[q].existing = n.id
    BY DEF StoreKnowsWrapper
  <2>1. pc[a] \in Working /\ store[a[1]].on /\ store'[a[1]].sum = store[a[1]].sum /\ n \in Wrappers
    BY ProcsAreRuns DEF QuietStep
  <2>2. CASE n.id = store[a[1]].sum
    BY <2>1, <2>2
  <2>3. ASSUME NEW q \in Procs, q[1] = a[1], pc[q] = "putid", loc[q].existing = n.id
        PROVE  q[1] = a[1] /\ pc'[q] = "putid" /\ loc'[q].existing = n.id
    BY <2>3 DEF QuietStep, Critical
  <2> QED
    BY <2>1, <2>2, <2>3 DEF WrapperInv, StoreKnowsWrapper
<1>4. CriticalKnows'
  <2> SUFFICES ASSUME NEW a \in Procs, pc'[a] \in Critical
               PROVE  /\ pc'[a] = "update" => loc'[a].existing = store'[a[1]].sum
                      /\ pc'[a] = "create" => Wrappers' = {}
                      /\ pc'[a] = "putid" => \A n \in Wrappers' : n.id = loc'[a].existing
    BY DEF CriticalKnows, Critical
  <2>1. a # p
    BY DEF QuietStep
  <2> QED
    BY <2>1, ProcsAreRuns DEF QuietStep, WrapperInv, CriticalKnows
<1>5. OneWrapperComment'
  BY DEF QuietStep, WrapperInv, OneWrapperComment
<1> QED
  BY <1>1, <1>2, <1>3, <1>4, <1>5 DEF WrapperInv

\* Comment ids are given out once: a step that leaves the comments alone, or
\* adds one under the next id, keeps NoteIds.
LEMMA NewNoteKeepsIds ==
  ASSUME NoteIds, nextNote \in Nat, NEW new, new.id = nextNote,
         \/ notes' = notes \cup {new} /\ nextNote' = nextNote + 1
         \/ UNCHANGED <<notes, nextNote>>,
         notes \subseteq Note
  PROVE  NoteIds'
<1>1. CASE UNCHANGED <<notes, nextNote>>
  BY <1>1 DEF NoteIds
<1>2. CASE notes' = notes \cup {new} /\ nextNote' = nextNote + 1
  <2>1. \A n \in notes : n.id \in Nat /\ n.id < nextNote
    BY DEF Note, NoteIds
  <2>2. \A n \in notes' : n.id < nextNote'
    BY <1>2, <2>1
  <2>3. \A m, n \in notes' : m.id = n.id => m = n
    BY <1>2, <2>1 DEF NoteIds
  <2> QED
    BY <2>2, <2>3 DEF NoteIds
<1> QED
  BY <1>1, <1>2

\* The steps that do not touch the comments.
LEMMA QuietSteps ==
  ASSUME TypeOK, TypeOK', NEW p \in Procs,
         \/ Fetch(p) \/ Diff(p) \/ RunTool(p) \/ ToolFails(p) \/ PutSection(p)
         \/ SnapshotPriors(p) \/ FilterInline(p) \/ PostInline(p) \/ RecordFinding(p)
         \/ ResolveStale(p) \/ FinishInline(p) \/ ReportCheck(p) \/ EditBody(p),
         UnderLock
  PROVE  QuietStep(p) /\ UNCHANGED <<notes, nextNote>>
<1> USE DEF Goto, Finish
<1>0. /\ pc \in [Procs -> PCs] /\ loc \in [Procs -> Local]
      /\ store \in [Runs -> Store] /\ StoreOf[p] = p[1] /\ p[1] \in Runs
      /\ St(p) = store[p[1]] /\ ~StoreFails
  BY CIAssumption, ProcsAreRuns DEF TypeOK, DispatcherTypeOK
<1>1. CASE Fetch(p)
  BY <1>0, <1>1 DEF Fetch, QuietStep, Wrappers, Working, Finished, Critical
<1>2. CASE Diff(p)
  BY <1>0, <1>2 DEF Diff, QuietStep, Wrappers, Working, Finished, Critical, prVars
<1>3. CASE RunTool(p)
  BY <1>0, <1>3 DEF RunTool, AfterTool, QuietStep, Wrappers, Working, Finished, Critical, prVars
<1>4. CASE ToolFails(p)
  BY <1>0, <1>4 DEF ToolFails, QuietStep, Wrappers, Working, Finished, Critical
<1>5. CASE PutSection(p)
  BY <1>0, <1>5 DEF PutSection, QuietStep, Wrappers, Working, Finished, Critical, prVars,
                    UnderLock, Store
<1>6. CASE SnapshotPriors(p)
  BY <1>0, <1>6 DEF SnapshotPriors, QuietStep, Wrappers, Working, Finished, Critical, prVars
<1>7. CASE FilterInline(p)
  BY <1>0, <1>7 DEF FilterInline, QuietStep, Wrappers, Working, Finished, Critical, prVars
<1>8. CASE PostInline(p)
  BY <1>0, <1>8 DEF PostInline, QuietStep, Wrappers, Working, Finished, Critical
<1>9. CASE RecordFinding(p)
  BY <1>0, <1>9, SMTT(30) DEF RecordFinding, QuietStep, Wrappers, Working, Finished, Critical, prVars, Store
<1>10. CASE ResolveStale(p)
  BY <1>0, <1>10 DEF ResolveStale, QuietStep, Wrappers, Working, Finished, Critical
<1>11. CASE FinishInline(p)
  BY <1>0, <1>11 DEF FinishInline, AfterInline, QuietStep, Wrappers, Working, Finished,
                     Critical, prVars
<1>12. CASE ReportCheck(p)
  BY <1>0, <1>12 DEF ReportCheck, QuietStep, Wrappers, Working, Finished, Critical
<1>13. CASE EditBody(p)
  BY <1>0, <1>13 DEF EditBody, QuietStep, Wrappers, Working, Finished, Critical
<1> QED
  BY <1>1, <1>2, <1>3, <1>4, <1>5, <1>6, <1>7, <1>8, <1>9, <1>10, <1>11, <1>12, <1>13

\* The plain comment of a run without a store is no wrapper.
LEMMA LegacySummaryKeepsInv ==
  ASSUME WrapperInv, TypeOK', NEW p \in Procs, LegacySummary(p)
  PROVE  WrapperInv'
<1> DEFINE new == [id |-> nextNote, wrapper |-> FALSE, sha |-> 0,
                   secs |-> NoSections, live |-> TRUE]
<1>1. /\ \/ notes' = notes \cup {new} /\ nextNote' = nextNote + 1
         \/ UNCHANGED <<notes, nextNote>>
      /\ pc[p] = "legacy" /\ Goto(p, "inline") /\ UNCHANGED <<store, mu, loc>>
  BY DEF LegacySummary
<1>2. new.id = nextNote /\ ~new.wrapper
  OBVIOUS
<1> HIDE DEF new
<1>3. Wrappers' = Wrappers
  BY <1>1, <1>2 DEF Wrappers
<1>4. NoteIds'
  BY <1>1, <1>2, NewNoteKeepsIds DEF WrapperInv, TypeOK, DispatcherTypeOK, PRTypeOK
<1>5. QuietStep(p)
  BY <1>1, <1>3 DEF Goto, QuietStep, Working, Finished, Critical, WrapperInv, TypeOK,
                    DispatcherTypeOK
<1> QED
  BY <1>4, <1>5, QuietStepKeepsInv

\* What a step under the lock, or the one that takes it, leaves alone.
LEMMA LockedStep ==
  ASSUME WrapperInv, NEW p \in Procs, pc[p] \in Working, pc'[p] \in Working,
         \A q \in Procs \ {p} : pc'[q] = pc[q]
  PROVE  /\ RunsInTurn'
         /\ \A a \in Procs : pc'[a] \in Working => a[1] = p[1]
<1>1. RunsInTurn'
  <2> SUFFICES ASSUME NEW a \in Procs, NEW b \in Procs, a[1] < b[1], pc'[b] # "idle"
               PROVE  pc'[a] \in Finished
    BY DEF RunsInTurn
  <2>1. pc[a] \in Finished
    BY DEF WrapperInv, RunsInTurn, Working
  <2> QED
    BY <2>1 DEF Working, Finished
<1>2. ASSUME NEW a \in Procs, pc'[a] \in Working PROVE a[1] = p[1]
  BY <1>2, OneRunAtWork DEF WrapperInv
<1> QED
  BY <1>1, <1>2

\* Taking the lock: what is read under it tells whether there is a comment.
LEMMA LockSummaryKeepsInv ==
  ASSUME WrapperInv, TypeOK', NEW p \in Procs, LockSummary(p)
  PROVE  WrapperInv'
<1>0. /\ pc \in [Procs -> PCs] /\ loc \in [Procs -> Local] /\ mu \in [Mutexes -> Procs \cup {Free}]
      /\ notes \subseteq Note /\ Mutexes = Runs
      /\ p[1] \in Runs /\ MuOf[p] = p[1] /\ St(p) = store[p[1]] /\ ~StoreFails
  BY CIAssumption, ProcsAreRuns DEF WrapperInv, TypeOK, DispatcherTypeOK, PRTypeOK
<1>1. /\ pc[p] = "lock" /\ mu[p[1]] = Free /\ mu' = [mu EXCEPT ![p[1]] = p]
      /\ loc' = [loc EXCEPT ![p].secs = store[p[1]].secs, ![p].existing = store[p[1]].sum]
      /\ pc' = [pc EXCEPT ![p] = IF store[p[1]].sum # 0 THEN "update" ELSE "create"]
      /\ UNCHANGED <<notes, nextNote, store>>
  BY <1>0 DEF LockSummary, Goto, prVars
<1>2. /\ pc'[p] \in {"update", "create"} /\ loc'[p].existing = store[p[1]].sum
      /\ \A q \in Procs \ {p} : pc'[q] = pc[q] /\ loc'[q] = loc[q]
  BY <1>0, <1>1 DEF Local
<1>3. \A q \in Procs : pc[q] \notin Critical
  <2> SUFFICES ASSUME NEW q \in Procs, pc[q] \in Critical PROVE FALSE
    OBVIOUS
  <2>1. q[1] = p[1]
    BY <1>1, OneRunAtWork DEF Critical, Working, WrapperInv
  <2>2. mu[p[1]] = q
    BY <2>1 DEF WrapperInv, UnderLock
  <2> QED
    BY <1>1, <2>2, DispatcherAssumption
<1>4. RunsInTurn' /\ \A a \in Procs : pc'[a] \in Working => a[1] = p[1]
  BY <1>1, <1>2, LockedStep DEF Working
<1>5. store[p[1]].on
  BY <1>1 DEF WrapperInv, UnderLock
<1>6. \A n \in Wrappers : n.id = store[p[1]].sum
  BY <1>1, <1>3, <1>5 DEF WrapperInv, StoreKnowsWrapper, Working, Critical
<1>7. Wrappers' = Wrappers /\ NoteIds' /\ OneWrapperComment'
  BY <1>1 DEF Wrappers, NoteIds, OneWrapperComment, WrapperInv
<1>8. UnderLock'
  <2> SUFFICES ASSUME NEW a \in Procs
               PROVE  /\ pc'[a] \in Critical => mu'[a[1]] = a
                      /\ pc'[a] \in Critical \cup {"section", "lock"} => store'[a[1]].on
    BY DEF UnderLock
  <2>1. CASE a = p
    BY <1>0, <1>1, <1>5, <2>1
  <2>2. CASE a # p
    BY <1>1, <1>2, <1>3, <2>2 DEF WrapperInv, UnderLock
  <2> QED
    BY <2>1, <2>2
<1>9. StoreKnowsWrapper'
  BY <1>1, <1>4, <1>6, <1>7 DEF StoreKnowsWrapper
<1>10. CriticalKnows'
  <2>1. pc'[p] = "create" => Wrappers = {}
    <3> SUFFICES ASSUME pc'[p] = "create", NEW n \in Wrappers PROVE FALSE
      OBVIOUS
    <3>1. store[p[1]].sum = 0
      BY <1>0, <1>1
    <3> QED
      BY <1>0, <1>6, <3>1 DEF Wrappers, Note
  <2> QED
    BY <1>1, <1>2, <1>3, <1>7, <2>1 DEF CriticalKnows, Critical
<1> QED
  BY <1>4, <1>7, <1>8, <1>9, <1>10 DEF WrapperInv

\* A step that leaves the critical section, when the store of the run knows
\* every wrapper comment from then on.
LEMMA LeaveCriticalKeepsInv ==
  ASSUME WrapperInv, TypeOK', NoteIds', OneWrapperComment', NEW p \in Procs,
         pc[p] \in Critical, pc'[p] = "inline",
         \A q \in Procs \ {p} : pc'[q] = pc[q],
         \A r \in Runs : store'[r].on = store[r].on,
         \A n \in Wrappers' : n.id = store'[p[1]].sum
  PROVE  WrapperInv'
<1>1. RunsInTurn' /\ \A a \in Procs : pc'[a] \in Working => a[1] = p[1]
  BY LockedStep DEF Working, Critical
<1>2. \A a \in Procs : pc'[a] \notin Critical
  <2> SUFFICES ASSUME NEW a \in Procs, pc'[a] \in Critical PROVE FALSE
    OBVIOUS
  <2>1. a # p
    BY DEF Critical
  <2>2. pc[a] \in Critical
    BY <2>1
  <2> QED
    BY <2>1, <2>2, AloneInCritical DEF WrapperInv
<1>3. UnderLock'
  <2> SUFFICES ASSUME NEW a \in Procs, pc'[a] \in {"section", "lock"}
               PROVE  store'[a[1]].on
    BY <1>2 DEF UnderLock
  <2>1. a # p
    OBVIOUS
  <2> QED
    BY <2>1, ProcsAreRuns DEF WrapperInv, UnderLock
<1>4. StoreKnowsWrapper'
  BY <1>1 DEF StoreKnowsWrapper
<1>5. CriticalKnows'
  BY <1>2 DEF CriticalKnows, Critical
<1> QED
  BY <1>1, <1>3, <1>4, <1>5 DEF WrapperInv

\* Within the critical section the store of the run is known to be on, and
\* no other process holds a comment id back.
LEMMA CriticalStore ==
  ASSUME WrapperInv, NEW p \in Procs, pc[p] \in Critical
  PROVE  /\ store[p[1]].on
         /\ pc[p] # "putid" => \A n \in Wrappers : n.id = store[p[1]].sum
<1>1. store[p[1]].on
  BY DEF WrapperInv, UnderLock
<1>2. ASSUME pc[p] # "putid", NEW n \in Wrappers PROVE n.id = store[p[1]].sum
  <2>1. \A q \in Procs : pc[q] # "putid"
    BY <1>2, AloneInCritical DEF WrapperInv, Critical
  <2> QED
    BY <1>1, <1>2, <2>1 DEF WrapperInv, StoreKnowsWrapper, Critical, Working
<1> QED
  BY <1>1, <1>2

\* Editing the comment: it stays the only one, and a comment that cannot be
\* edited has been deleted.
LEMMA UpdateSummaryKeepsInv ==
  ASSUME WrapperInv, TypeOK', NEW p \in Procs, UpdateSummary(p), "update" \notin Faults
  PROVE  WrapperInv'
<1>0. /\ pc \in [Procs -> PCs] /\ loc \in [Procs -> Local] /\ notes \subseteq Note
      /\ p[1] \in Runs /\ MuOf[p] = p[1]
  BY ProcsAreRuns DEF WrapperInv, TypeOK, DispatcherTypeOK, PRTypeOK
<1>1. /\ pc[p] = "update" /\ pc[p] \in Critical
      /\ loc[p].existing = store[p[1]].sum
      /\ \A n \in Wrappers : n.id = store[p[1]].sum
  BY CriticalStore DEF UpdateSummary, WrapperInv, CriticalKnows, Critical
<1>2. nextNote' = nextNote /\ store' = store
  BY DEF UpdateSummary
<1>3. ASSUME NEW n \in notes, n.id = loc[p].existing, n.live,
             notes' = (notes \ {n}) \cup
                 {[n EXCEPT !.wrapper = TRUE, !.sha = loc[p].head, !.secs = loc[p].secs]},
             Goto(p, "inline")
      PROVE  WrapperInv'
  <2> DEFINE new == [n EXCEPT !.wrapper = TRUE, !.sha = loc[p].head, !.secs = loc[p].secs]
  <2>1. new.id = n.id
    BY <1>0, <1>3 DEF Note
  <2> HIDE DEF new
  <2>2. notes' = (notes \ {n}) \cup {new}
    BY <1>3 DEF new
  <2>3. NoteIds'
    BY <1>2, <1>3, <2>1, <2>2 DEF WrapperInv, NoteIds
  <2>4. \A m \in Wrappers : m = n
    BY <1>1, <1>3 DEF WrapperInv, NoteIds, Wrappers
  <2>5. \A m \in Wrappers' : m = new
    BY <2>2, <2>4 DEF Wrappers
  <2>6. OneWrapperComment' /\ \A m \in Wrappers' : m.id = store'[p[1]].sum
    BY <1>1, <1>2, <1>3, <2>1, <2>5 DEF OneWrapperComment
  <2>7. pc'[p] = "inline" /\ \A q \in Procs \ {p} : pc'[q] = pc[q]
    BY <1>0, <1>3 DEF Goto
  <2> QED
    BY <1>1, <1>2, <2>3, <2>6, <2>7, LeaveCriticalKeepsInv
<1>4. ASSUME \A n \in notes : n.id = loc[p].existing => ~n.live,
             Goto(p, "create"), UNCHANGED <<notes, mu, loc>>
      PROVE  WrapperInv'
  <2>1. Wrappers = {}
    BY <1>1, <1>4 DEF Wrappers
  <2>2. Wrappers' = {} /\ NoteIds' /\ OneWrapperComment'
    BY <1>2, <1>4, <2>1 DEF Wrappers, WrapperInv, NoteIds, OneWrapperComment
  <2>3. pc'[p] = "create" /\ \A q \in Procs \ {p} : pc'[q] = pc[q]
    BY <1>0, <1>4 DEF Goto
  <2>4. RunsInTurn'
    BY <1>1, <2>3, LockedStep DEF Working
  <2>5. UnderLock'
    BY <1>1, <1>2, <1>4, <2>3 DEF WrapperInv, UnderLock
  <2>6. StoreKnowsWrapper'
    BY <2>2 DEF StoreKnowsWrapper
  <2>7. CriticalKnows'
    <3> SUFFICES ASSUME NEW a \in Procs, pc'[a] \in Critical
                 PROVE  a = p
      BY <2>2, <2>3 DEF CriticalKnows, Critical
    <3> QED
      BY <1>1, <2>3, AloneInCritical DEF WrapperInv
  <2> QED
    BY <2>2, <2>4, <2>5, <2>6, <2>7 DEF WrapperInv
<1> QED
  BY <1>3, <1>4 DEF UpdateSummary

\* Creating the comment: there is none, and the lock is kept until its id is
\* stored.
LEMMA CreateSummaryKeepsInv ==
  ASSUME WrapperInv, TypeOK', NEW p \in Procs, CreateSummary(p)
  PROVE  WrapperInv'
<1>0. /\ pc \in [Procs -> PCs] /\ loc \in [Procs -> Local] /\ notes \subseteq Note
      /\ nextNote \in Nat /\ p[1] \in Runs
  BY ProcsAreRuns DEF WrapperInv, TypeOK, DispatcherTypeOK, PRTypeOK
<1>1. pc[p] = "create" /\ pc[p] \in Critical /\ Wrappers = {}
  BY DEF CreateSummary, WrapperInv, CriticalKnows, Critical
<1>2. store' = store
  BY DEF CreateSummary
<1> DEFINE new == [id |-> nextNote, wrapper |-> TRUE, sha |-> loc[p].head,
                   secs |-> loc[p].secs, live |-> TRUE]
<1>3. new.id = nextNote
  OBVIOUS
<1> HIDE DEF new
<1>4. CASE /\ notes' = notes \cup {new} /\ nextNote' = nextNote + 1
           /\ loc' = [loc EXCEPT ![p].existing = nextNote]
           /\ Goto(p, "putid") /\ UNCHANGED mu
  <2>1. NoteIds'
    BY <1>0, <1>3, <1>4, NewNoteKeepsIds DEF WrapperInv
  <2>2. \A n \in Wrappers' : n = new
    BY <1>1, <1>4 DEF Wrappers
  <2>3. OneWrapperComment'
    BY <2>2 DEF OneWrapperComment
  <2>4. /\ pc'[p] = "putid" /\ loc'[p].existing = nextNote
        /\ \A q \in Procs \ {p} : pc'[q] = pc[q]
    BY <1>0, <1>4 DEF Goto, Local
  <2>5. RunsInTurn' /\ \A a \in Procs : pc'[a] \in Working => a[1] = p[1]
    BY <1>1, <2>4, LockedStep DEF Working
  <2>6. UnderLock'
    BY <1>1, <1>2, <1>4, <2>4 DEF WrapperInv, UnderLock
  <2>7. StoreKnowsWrapper'
    BY <1>3, <2>2, <2>4, <2>5 DEF StoreKnowsWrapper
  <2>8. CriticalKnows'
    <3> SUFFICES ASSUME NEW a \in Procs, pc'[a] \in Critical
                 PROVE  a = p
      BY <1>3, <2>2, <2>4 DEF CriticalKnows, Critical
    <3> QED
      BY <1>1, <2>4, AloneInCritical DEF WrapperInv
  <2> QED
    BY <2>1, <2>3, <2>5, <2>6, <2>7, <2>8 DEF WrapperInv
<1>5. CASE Goto(p, "inline") /\ UNCHANGED <<notes, nextNote>>
  <2>1. Wrappers' = {} /\ NoteIds' /\ OneWrapperComment'
    BY <1>1, <1>5 DEF Wrappers, WrapperInv, NoteIds, OneWrapperComment
  <2>2. pc'[p] = "inline" /\ \A q \in Procs \ {p} : pc'[q] = pc[q]
    BY <1>0, <1>5 DEF Goto
  <2> QED
    BY <1>1, <1>2, <2>1, <2>2, LeaveCriticalKeepsInv
<1> QED
  BY <1>4, <1>5 DEF CreateSummary, new

\* Storing the id of the comment.
LEMMA PutSummaryIDKeepsInv ==
  ASSUME WrapperInv, TypeOK', NEW p \in Procs, PutSummaryID(p)
  PROVE  WrapperInv'
<1>0. /\ pc \in [Procs -> PCs] /\ store \in [Runs -> Store]
      /\ p[1] \in Runs /\ StoreOf[p] = p[1] /\ ~StoreFails
  BY CIAssumption, ProcsAreRuns DEF WrapperInv, TypeOK, DispatcherTypeOK
<1>1. /\ pc[p] = "putid" /\ pc[p] \in Critical
      /\ \A n \in Wrappers : n.id = loc[p].existing
  BY DEF PutSummaryID, WrapperInv, CriticalKnows, Critical
<1>2. /\ store' = [store EXCEPT ![p[1]].sum = loc[p].existing]
      /\ pc' = [pc EXCEPT ![p] = "inline"]
      /\ UNCHANGED <<notes, nextNote>>
  BY <1>0 DEF PutSummaryID, Goto, prVars
<1>3. store'[p[1]].sum = loc[p].existing /\ \A r \in Runs : store'[r].on = store[r].on
  BY <1>0, <1>2 DEF Store
<1>4. Wrappers' = Wrappers /\ NoteIds' /\ OneWrapperComment'
  BY <1>2 DEF Wrappers, NoteIds, OneWrapperComment, WrapperInv
<1>5. pc'[p] = "inline" /\ \A q \in Procs \ {p} : pc'[q] = pc[q]
  BY <1>0, <1>2
<1> QED
  BY <1>1, <1>3, <1>4, <1>5, LeaveCriticalKeepsInv

\* Any step of a tool.
LEMMA ToolStepKeepsInv ==
  ASSUME WrapperInv, TypeOK', NEW p \in Procs, ToolStep(p), "update" \notin Faults
  PROVE  WrapperInv'
<1>1. CASE \/ Fetch(p) \/ Diff(p) \/ RunTool(p) \/ ToolFails(p) \/ PutSection(p)
           \/ SnapshotPriors(p) \/ FilterInline(p) \/ PostInline(p) \/ RecordFinding(p)
           \/ ResolveStale(p) \/ FinishInline(p) \/ ReportCheck(p) \/ EditBody(p)
  <2>1. QuietStep(p) /\ UNCHANGED <<notes, nextNote>>
    BY <1>1, QuietSteps DEF WrapperInv
  <2>2. NoteIds'
    BY <2>1 DEF NoteIds, WrapperInv
  <2> QED
    BY <2>1, <2>2, QuietStepKeepsInv
<1>2. CASE LegacySummary(p)
  BY <1>2, LegacySummaryKeepsInv
<1>3. CASE LockSummary(p)
  BY <1>3, LockSummaryKeepsInv
<1>4. CASE UpdateSummary(p)
  BY <1>4, UpdateSummaryKeepsInv
<1>5. CASE CreateSummary(p)
  BY <1>5, CreateSummaryKeepsInv
<1>6. CASE PutSummaryID(p)
  BY <1>6, PutSummaryIDKeepsInv
<1> QED
  BY <1>1, <1>2, <1>3, <1>4, <1>5, <1>6 DEF ToolStep, DispatchStep

\* A run starts: nobody is at work, so what it reads back is the truth.
LEMMA StartRunKeepsInv ==
  ASSUME WrapperInv, TypeOK', NEW r \in Runs, StartRun(r), Overlap = FALSE
  PROVE  WrapperInv'
<1>1. /\ \A p \in Procs : p[1] \in Nat /\ (p[1] = r => pc[p] = "idle")
      /\ \A p \in Procs : p[1] < r => pc[p] \in Finished
  <2>1. \A p \in Procs : p[1] \in Runs /\ p[2] \in Tools /\ p = <<p[1], p[2]>>
    BY CIAssumption
  <2> QED
    BY <2>1, ProcsAreRuns DEF StartRun, Started, RunOver
<1>2. \A p \in Procs : p[1] > r => pc[p] = "idle"
  <2> SUFFICES ASSUME NEW p \in Procs, p[1] > r, pc[p] # "idle" PROVE FALSE
    OBVIOUS
  <2>1. <<r, p[2]>> \in Procs /\ <<r, p[2]>>[1] = r
    BY CIAssumption
  <2>2. pc[<<r, p[2]>>] \in Finished
    BY <2>1 DEF WrapperInv, RunsInTurn, Runs
  <2> QED
    BY <1>1, <2>1, <2>2 DEF Finished
<1>3. /\ \A p \in Procs : pc'[p] = IF p[1] = r THEN "fetch" ELSE pc[p]
      /\ UNCHANGED <<notes, nextNote, mu, loc>>
  BY DEF StartRun, prVars
<1>4. \A p \in Procs : pc'[p] \in Working => p[1] = r /\ pc'[p] = "fetch"
  BY <1>1, <1>2, <1>3, CIAssumption DEF Working, Finished, Runs
<1>5. Wrappers' = Wrappers /\ NoteIds' /\ OneWrapperComment'
  BY <1>3 DEF Wrappers, NoteIds, OneWrapperComment, WrapperInv
<1>6. RunsInTurn'
  BY <1>1, <1>2, <1>3, CIAssumption DEF RunsInTurn, Finished, Runs
<1>7. UnderLock' /\ CriticalKnows'
  BY <1>4 DEF UnderLock, CriticalKnows, Critical, Working
<1>8. store'[r].on => \A n \in Wrappers : n.id = store'[r].sum
  <2> SUFFICES ASSUME store'[r].on, NEW n \in Wrappers PROVE n.id = store'[r].sum
    OBVIOUS
  <2>1. r \in DOMAIN store
    BY CIAssumption DEF WrapperInv, TypeOK, DispatcherTypeOK
  <2>2. store'[r] = PriorStore(ListCadooArtifacts)
    BY <2>1 DEF StartRun, NoStore, EmptyStore
  <2>3. PickWrapper = {n}
    BY DEF PickWrapper, WrapperInv, OneWrapperComment, TypeOK, DispatcherTypeOK, PRTypeOK,
           Wrappers, Note
  <2>4. Picked = n
    BY <2>3 DEF Picked
  <2> QED
    BY <2>2, <2>3, <2>4 DEF PriorStore, ListCadooArtifacts
<1>9. StoreKnowsWrapper'
  BY <1>4, <1>5, <1>8 DEF StoreKnowsWrapper
<1> QED
  BY <1>5, <1>6, <1>7, <1>9 DEF WrapperInv

\* A run is cancelled: none of its processes is at work any more.
LEMMA CancelKeepsInv ==
  ASSUME WrapperInv, TypeOK', NEW r \in Runs, Cancel(r)
  PROVE  WrapperInv'
<1>1. /\ \A p \in Procs : p[1] = r => pc'[p] \notin Working
      /\ \A p \in Procs : p[1] # r => pc'[p] = pc[p] /\ loc'[p] = loc[p] /\ mu'[p[1]] = mu[p[1]]
      /\ \A p \in Procs : pc[p] \in Finished => pc'[p] = pc[p]
      /\ \A p \in Procs : pc[p] = "idle" => pc'[p] = "idle"
      /\ UNCHANGED <<notes, nextNote, store>>
  <2>1. mu \in [Mutexes -> Procs \cup {Free}] /\ Mutexes = Runs /\ \A p \in Procs : p[1] \in Runs
    BY CIAssumption DEF WrapperInv, TypeOK, DispatcherTypeOK
  <2> QED
    BY <2>1 DEF Cancel, Working, Finished, prVars
<1>2. Wrappers' = Wrappers /\ NoteIds' /\ OneWrapperComment'
  BY <1>1 DEF Wrappers, NoteIds, OneWrapperComment, WrapperInv
<1>3. RunsInTurn'
  BY <1>1 DEF RunsInTurn, WrapperInv
<1>4. UnderLock'
  BY <1>1 DEF UnderLock, WrapperInv, Critical, Working
<1>5. StoreKnowsWrapper'
  BY <1>1, <1>2 DEF StoreKnowsWrapper, WrapperInv
<1>6. CriticalKnows'
  BY <1>1, <1>2 DEF CriticalKnows, WrapperInv, Working
<1> QED
  BY <1>2, <1>3, <1>4, <1>5, <1>6 DEF WrapperInv

\* What people do can only take a wrapper comment away.
LEMMA AuthorKeepsInv ==
  ASSUME WrapperInv, TypeOK', Author
  PROVE  WrapperInv'
<1>1. Wrappers' \subseteq Wrappers /\ NoteIds'
  <2>1. CASE UserDeletesNote
    <3>1. PICK n \in notes : notes' = (notes \ {n}) \cup {[n EXCEPT !.live = FALSE]}
      BY <2>1 DEF UserDeletesNote
    <3>2. [n EXCEPT !.live = FALSE].id = n.id /\ ~[n EXCEPT !.live = FALSE].live
      BY DEF WrapperInv, TypeOK, DispatcherTypeOK, PRTypeOK, Note
    <3>3. UNCHANGED nextNote
      BY <2>1 DEF UserDeletesNote
    <3> QED
      BY <3>1, <3>2, <3>3 DEF Wrappers, NoteIds, WrapperInv
  <2>2. CASE UNCHANGED <<notes, nextNote>>
    BY <2>2 DEF Wrappers, NoteIds, WrapperInv
  <2> QED
    BY <2>1, <2>2 DEF Author, Push, UserResolves, UserEditsBody
<1>2. UNCHANGED <<store, mu, pc, loc>>
  BY DEF Author, procVars
<1>3. RunsInTurn' /\ UnderLock'
  BY <1>2 DEF RunsInTurn, UnderLock, WrapperInv
<1>4. StoreKnowsWrapper' /\ CriticalKnows' /\ OneWrapperComment'
  BY <1>1, <1>2 DEF StoreKnowsWrapper, CriticalKnows, OneWrapperComment, WrapperInv
<1> QED
  BY <1>1, <1>3, <1>4 DEF WrapperInv

\* At first there is no comment and nobody is at work.
LEMMA InitInv == Init => WrapperInv
<1> SUFFICES ASSUME Init PROVE WrapperInv
  OBVIOUS
<1>1. notes = {} /\ \A p \in Procs : pc[p] = "idle"
  BY DEF Init, DispatcherInit, PRInit
<1>2. NoteIds /\ OneWrapperComment
  BY <1>1 DEF NoteIds, OneWrapperComment, Wrappers
<1>3. RunsInTurn /\ UnderLock /\ StoreKnowsWrapper /\ CriticalKnows
  BY <1>1 DEF RunsInTurn, UnderLock, StoreKnowsWrapper, CriticalKnows, Critical, Working
<1> QED
  BY <1>2, <1>3, InitType DEF WrapperInv

\* The invariant holds throughout when pipelines do not overlap and an edit of
\* a comment only fails because the comment was deleted.
THEOREM WrapperIsKept ==
  ASSUME Overlap = FALSE, "update" \notin Faults
  PROVE  Spec => []WrapperInv
<1>1. WrapperInv /\ [Next]_ciVars => WrapperInv'
  <2> SUFFICES ASSUME WrapperInv, [Next]_ciVars PROVE WrapperInv'
    OBVIOUS
  <2>1. TypeOK'
    BY NextKeepsType DEF WrapperInv
  <2>2. ASSUME NEW r \in Runs, StartRun(r) PROVE WrapperInv'
    BY <2>1, <2>2, StartRunKeepsInv
  <2>3. ASSUME NEW r \in Runs, Cancel(r) PROVE WrapperInv'
    BY <2>1, <2>3, CancelKeepsInv
  <2>4. ASSUME NEW p \in Procs, ToolStep(p) PROVE WrapperInv'
    BY <2>1, <2>4, ToolStepKeepsInv
  <2>5. CASE Author
    BY <2>1, <2>5, AuthorKeepsInv
  <2>6. CASE UNCHANGED ciVars
    BY <2>1, <2>6 DEF ciVars, vars, prVars, procVars, WrapperInv, NoteIds, RunsInTurn, UnderLock,
                      StoreKnowsWrapper, CriticalKnows, OneWrapperComment, Wrappers
  <2> QED
    BY <2>2, <2>3, <2>4, <2>5, <2>6 DEF Next
<1> QED
  BY InitInv, <1>1, PTL DEF Spec

\* "One top-level comment per PR": when pipelines do not overlap and an edit
\* of a comment only fails because the comment was deleted, the PR never has
\* two live wrapper comments, however many tools of a run race for it, in
\* whatever order, with pipelines cancelled, comments deleted, read-backs and
\* posts failing at any point.
THEOREM OneComment ==
  ASSUME Overlap = FALSE, "update" \notin Faults
  PROVE  Spec => []OneWrapperComment
<1>1. WrapperInv => OneWrapperComment
  BY DEF WrapperInv
<1> QED
  BY <1>1, WrapperIsKept, PTL

-----------------------------------------------------------------------------
(* What the other theorems of CI mode share.                               *)

\* A run that starts was idle, all its tools fetch first, and no other process
\* moves.
LEMMA StartRunIs ==
  ASSUME TypeOK, NEW r \in Runs, StartRun(r)
  PROVE  /\ \A p \in Procs : p[1] = r => pc[p] = "idle" /\ pc'[p] = "fetch"
         /\ \A p \in Procs : p[1] # r => pc'[p] = pc[p]
         /\ \A q \in Runs : q # r => store'[q] = store[q] /\ before'[q] = before[q]
         /\ store'[r] \in {PriorStore(ListCadooArtifacts), NoStore}
         /\ before'[r] = [resolved |-> ThreadsIn("user"), closed |-> ThreadsIn("cadoo"),
                          user |-> prBody.user]
         /\ UNCHANGED <<prVars, mu, loc>>
<1>1. \A p \in Procs : p[1] \in Runs /\ p[2] \in Tools /\ p = <<p[1], p[2]>>
  BY CIAssumption
<1>2. \A p \in Procs : p[1] = r => pc[p] = "idle"
  BY <1>1 DEF StartRun, Started
<1>3. DOMAIN store = Runs /\ DOMAIN before = Runs
  BY CIAssumption DEF TypeOK, DispatcherTypeOK
<1> QED
  BY <1>2, <1>3 DEF StartRun

\* A run that is cancelled: its processes end, the others stay.
LEMMA CancelIs ==
  ASSUME TypeOK, NEW r \in Runs, Cancel(r)
  PROVE  /\ \A p \in Procs : p[1] = r => pc'[p] \notin Working
         /\ \A p \in Procs : pc'[p] \notin Working \/ (pc'[p] = pc[p] /\ loc'[p] = loc[p])
         /\ \A p \in Procs : pc[p] \notin Working => pc'[p] = pc[p]
         /\ \A p \in Procs : pc[p] \in Working => pc'[p] # "idle"
         /\ UNCHANGED <<prVars, store, before>>
<1>1. \A p \in Procs :
        /\ pc'[p] = IF p[1] = r /\ pc[p] \in Working THEN "killed" ELSE pc[p]
        /\ loc'[p] = IF p[1] = r THEN EmptyLocal ELSE loc[p]
  BY DEF Cancel
<1>2. "killed" \notin Working /\ "idle" \notin Working /\ "killed" # "idle"
  BY DEF Working
<1>3. UNCHANGED <<prVars, store, before>>
  BY DEF Cancel
<1>4. \A p \in Procs : p[1] = r => pc'[p] \notin Working
  BY <1>1, <1>2
<1>5. \A p \in Procs : pc'[p] \notin Working \/ (pc'[p] = pc[p] /\ loc'[p] = loc[p])
  <2> SUFFICES ASSUME NEW p \in Procs
               PROVE  pc'[p] \notin Working \/ (pc'[p] = pc[p] /\ loc'[p] = loc[p])
    OBVIOUS
  <2>1. CASE p[1] = r  BY <1>4, <2>1
  <2>2. CASE p[1] # r  BY <1>1, <2>2
  <2> QED
    BY <2>1, <2>2
<1>6. \A p \in Procs : pc[p] \notin Working => pc'[p] = pc[p]
  BY <1>1
<1>7. \A p \in Procs : pc[p] \in Working => pc'[p] # "idle"
  BY <1>1, <1>2
<1> QED
  BY <1>3, <1>4, <1>5, <1>6, <1>7

\* Two tools of one run are two tools: a process is its run and its tool.
LEMMA ToolTells ==
  ASSUME NEW p \in Procs, NEW q \in Procs, p[1] = q[1], ToolOf[p] = ToolOf[q]
  PROVE  p = q
  BY CIAssumption

\* When pipelines do not overlap, they run one after the other.
THEOREM InTurn ==
  ASSUME Overlap = FALSE
  PROVE  Spec => []RunsInTurn
<1>1. Init => RunsInTurn
  BY DEF Init, DispatcherInit, RunsInTurn
<1>2. TypeOK /\ RunsInTurn /\ [Next]_ciVars => RunsInTurn'
  <2> SUFFICES ASSUME TypeOK, RunsInTurn, [Next]_ciVars PROVE RunsInTurn'
    OBVIOUS
  <2>1. ASSUME NEW r \in Runs, StartRun(r) PROVE RunsInTurn'
    <3> SUFFICES ASSUME NEW a \in Procs, NEW b \in Procs, a[1] < b[1], pc'[b] # "idle"
                 PROVE  pc'[a] \in Finished
      BY DEF RunsInTurn
    <3>1. /\ a[1] \in Nat /\ b[1] \in Nat /\ r \in Nat
          /\ a[1] \in Runs /\ a[2] \in Tools /\ a = <<a[1], a[2]>> /\ b[2] \in Tools
      BY CIAssumption DEF Runs
    <3>2. CASE b[1] = r
      BY <2>1, <3>1, <3>2, StartRunIs DEF StartRun, RunOver
    <3>3. CASE b[1] # r
      <4>1. pc[b] # "idle" /\ pc[a] \in Finished
        BY <2>1, <3>3, StartRunIs DEF RunsInTurn
      <4>2. a[1] # r
        BY <2>1, <4>1, StartRunIs DEF Finished
      <4> QED
        BY <2>1, <4>1, <4>2, StartRunIs
    <3> QED
      BY <3>2, <3>3
  <2>2. ASSUME NEW r \in Runs, Cancel(r) PROVE RunsInTurn'
    BY <2>2, CancelIs DEF RunsInTurn, Working, Finished
  <2>3. ASSUME NEW p \in Procs, ToolStep(p) PROVE RunsInTurn'
    <3>1. pc[p] \in Working /\ \A q \in Procs \ {p} : pc'[q] = pc[q]
      BY <2>3, StepAndMutex, OthersStay DEF ToolStep, TypeOK
    <3> QED
      BY <3>1 DEF RunsInTurn, Working, Finished
  <2>4. CASE Author \/ UNCHANGED ciVars
    BY <2>4 DEF RunsInTurn, Author, ciVars, vars, procVars
  <2> QED
    BY <2>1, <2>2, <2>3, <2>4 DEF Next
<1> QED
  BY <1>1, <1>2, TypeCorrect, PTL DEF Spec

-----------------------------------------------------------------------------
(* The description.                                                        *)

\* What people wrote before a run is in the description, and in the copy of
\* it that a tool of the run has fetched.
DescriptionInv ==
  \A p \in Procs : pc[p] \in Working =>
    /\ before[p[1]].user <= prBody.user
    /\ pc[p] # "fetch" => before[p[1]].user <= loc[p].user

LEMMA StepKeepsDescription ==
  ASSUME TypeOK, TypeOK', RunsInTurn, DescriptionInv, NEW p \in Procs, ToolStep(p)
  PROVE  DescriptionInv'
<1>1. /\ pc[p] \in Working /\ UNCHANGED before
      /\ \A q \in Procs \ {p} : pc'[q] = pc[q] /\ loc'[q] = loc[q]
  BY StepAndMutex, OthersStay DEF ToolStep, TypeOK
<1>2. before[p[1]].user <= prBody'.user
  <2>1. CASE pc[p] = "body"
    <3>1. prBody'.user \in {loc[p].user, prBody.user}
      BY <2>1, WhichStep DEF ToolStep, EditBody
    <3> QED
      BY <1>1, <2>1, <3>1 DEF DescriptionInv
  <2>2. CASE pc[p] # "body"
    BY <1>1, <2>2, WhoWrites DEF ToolStep, DescriptionInv
  <2> QED
    BY <2>1, <2>2
<1>3. ASSUME pc'[p] \in Working PROVE before[p[1]].user <= loc'[p].user
  <2>1. CASE pc[p] = "fetch"
    <3>1. loc' = [loc EXCEPT ![p] = [EmptyLocal EXCEPT !.head = HeadSHA,
                      !.user = prBody.user, !.section = prBody.cadoo]]
      BY <1>3, <2>1, WhichStep DEF ToolStep, Fetch, Finish, Goto, Working, Finished, TypeOK,
                                   DispatcherTypeOK
    <3>2. loc'[p].user = prBody.user
      BY <3>1 DEF TypeOK, DispatcherTypeOK, EmptyLocal
    <3> QED
      BY <1>1, <3>2 DEF DescriptionInv
  <2>2. CASE pc[p] # "fetch"
    BY <1>1, <1>3, <2>2, LocalsKept DEF ToolStep, TypeOK, DescriptionInv
  <2> QED
    BY <2>1, <2>2
<1>4. ASSUME NEW q \in Procs, pc'[q] \in Working
      PROVE  /\ before'[q[1]].user <= prBody'.user
             /\ pc'[q] # "fetch" => before'[q[1]].user <= loc'[q].user
  <2>1. CASE q = p
    BY <1>1, <1>2, <1>3, <1>4, <2>1
  <2>2. CASE q # p
    <3>1. pc[q] \in Working /\ q[1] = p[1]
      BY <1>1, <1>4, <2>2, OneRunAtWork
    <3> QED
      BY <1>1, <1>2, <2>2, <3>1 DEF DescriptionInv
  <2> QED
    BY <2>1, <2>2
<1> QED
  BY <1>4 DEF DescriptionInv

\* Edits that were in the description when a run started survive the run: no
\* tool of any run writes the description it fetched over a later one of the
\* run before, whatever fails and whoever is cancelled.
THEOREM EditsSurvive ==
  ASSUME Overlap = FALSE
  PROVE  Spec => EditsBeforeRunSurvive
<1> DEFINE EditsKept == \A p \in Procs :
      (pc[p] = "body" /\ pc'[p] = "done") => prBody'.user >= before[p[1]].user
<1>1. Init => DescriptionInv
  BY DEF Init, DispatcherInit, DescriptionInv, Working
<1>2. TypeOK /\ TypeOK' /\ RunsInTurn /\ DescriptionInv /\ [Next]_ciVars => DescriptionInv'
  <2> SUFFICES ASSUME TypeOK, TypeOK', RunsInTurn, DescriptionInv, [Next]_ciVars
               PROVE  DescriptionInv'
    OBVIOUS
  <2>1. ASSUME NEW r \in Runs, StartRun(r) PROVE DescriptionInv'
    <3> SUFFICES ASSUME NEW p \in Procs, pc'[p] \in Working
                 PROVE  /\ before'[p[1]].user <= prBody'.user
                        /\ pc'[p] # "fetch" => before'[p[1]].user <= loc'[p].user
      BY DEF DescriptionInv
    <3>1. UNCHANGED <<prBody, loc>> /\ prBody.user \in Nat
      BY <2>1, StartRunIs DEF prVars, TypeOK, DispatcherTypeOK, PRTypeOK, PRBody
    <3>2. CASE p[1] = r
      BY <2>1, <3>1, <3>2, StartRunIs
    <3>3. CASE p[1] # r
      BY <2>1, <3>1, <3>3, StartRunIs, ProcsAreRuns DEF DescriptionInv
    <3> QED
      BY <3>2, <3>3
  <2>2. ASSUME NEW r \in Runs, Cancel(r) PROVE DescriptionInv'
    BY <2>2, CancelIs DEF DescriptionInv, prVars
  <2>3. ASSUME NEW p \in Procs, ToolStep(p) PROVE DescriptionInv'
    BY <2>3, StepKeepsDescription
  <2>4. CASE Author
    <3>1. UNCHANGED <<pc, loc, before>> /\ prBody'.user \in {prBody.user, prBody.user + 1}
      BY <2>4 DEF Author, procVars, Push, UserResolves, UserDeletesNote, UserEditsBody, TypeOK,
                  DispatcherTypeOK, PRTypeOK, PRBody
    <3>2. prBody.user \in Nat /\ \A p \in Procs : before[p[1]].user \in Nat
      BY ProcsAreRuns DEF TypeOK, DispatcherTypeOK, PRTypeOK, PRBody, Before
    <3> QED
      BY <3>1, <3>2 DEF DescriptionInv
  <2>5. CASE UNCHANGED ciVars
    BY <2>5 DEF DescriptionInv, ciVars, vars, prVars, procVars
  <2> QED
    BY <2>1, <2>2, <2>3, <2>4, <2>5 DEF Next
<1>3. TypeOK /\ TypeOK' /\ DescriptionInv /\ [Next]_ciVars => EditsKept
  <2> SUFFICES ASSUME TypeOK, TypeOK', DescriptionInv, [Next]_ciVars, NEW p \in Procs,
                      pc[p] = "body", pc'[p] = "done"
               PROVE  prBody'.user >= before[p[1]].user
    OBVIOUS
  <2>0. pc[p] \in Working /\ p[1] \in Runs
    BY ProcsAreRuns DEF Working
  <2>1. ToolStep(p)
    <3>1. ASSUME NEW r \in Runs, StartRun(r) PROVE FALSE
      BY <3>1, StartRunIs
    <3>2. ASSUME NEW r \in Runs, Cancel(r) PROVE FALSE
      BY <3>2 DEF Cancel, Working
    <3>3. ASSUME NEW q \in Procs, ToolStep(q), q # p PROVE FALSE
      BY <3>3, OthersStay DEF ToolStep, TypeOK
    <3>4. CASE Author \/ UNCHANGED ciVars
      BY <3>4 DEF Author, ciVars, vars, procVars
    <3> QED
      BY <3>1, <3>2, <3>3, <3>4 DEF Next
  <2>2. prBody'.user \in {loc[p].user, prBody.user}
    BY <2>1, WhichStep DEF ToolStep, EditBody
  <2>3. before[p[1]].user <= loc[p].user /\ before[p[1]].user <= prBody.user
    BY <2>0 DEF DescriptionInv
  <2>4. before[p[1]].user \in Nat /\ prBody'.user \in Nat
    BY <2>0 DEF TypeOK, DispatcherTypeOK, PRTypeOK, PRBody, Before
  <2> QED
    BY <2>2, <2>3, <2>4
<1> HIDE DEF EditsKept
<1>4. [][EditsKept]_ciVars => EditsBeforeRunSurvive
  BY PTL DEF EditsBeforeRunSurvive, EditsKept
<1> QED
  BY <1>1, <1>2, <1>3, <1>4, TypeCorrect, InTurn, PTL DEF Spec

-----------------------------------------------------------------------------
(* The threads, and what the store of a run knows of them.                 *)

\* Threads are proper, and those a run found closed are older than its posts.
ThreadsInv ==
  /\ ThreadsProper
  /\ \A r \in Runs : \A id \in before[r].resolved \cup before[r].closed :
       id.batch < nextBatch

\* The threads change in place, or a tool posts.
ThreadsMove ==
  /\ \A a \in threads : \E b \in threads' : Becomes(a, b)
  /\ \A b \in threads' :
       \/ \E a \in threads : Becomes(a, b)
       \/ \E p \in Procs, c \in Comment, a \in BOOLEAN :
            /\ pc[p] = "post" /\ ToolStep(p) /\ c \in loc[p].delta
            /\ b = NewThread(ToolOf[p], c, a)

LEMMA ThreadTypes ==
  ASSUME TypeOK
  PROVE  /\ threads \subseteq Thread /\ nextBatch \in Nat
         /\ \A th \in threads : th.id \in ThreadId /\ th.id.batch \in Nat
         /\ \A th \in threads : Becomes(th, th)
         /\ \A p \in Procs : loc[p].delta \subseteq Comment /\ ToolOf[p] \in Tools
  BY StateTypes DEF TypeOK, DispatcherTypeOK, PRTypeOK, Thread, ThreadId, Becomes, Local

\* Any step moves the threads so, and keeps them proper.
LEMMA NextThreads ==
  ASSUME TypeOK, ThreadsProper, [Next]_ciVars
  PROVE  ThreadsMove /\ ThreadsProper' /\ nextBatch' \in {nextBatch, nextBatch + 1}
<1>1. CASE UNCHANGED <<threads, nextBatch>>
  BY <1>1, ThreadTypes DEF ThreadsMove, ThreadsProper
<1>2. ASSUME NEW p \in Procs, ToolStep(p)
      PROVE  ThreadsMove /\ ThreadsProper' /\ nextBatch' \in {nextBatch, nextBatch + 1}
  <2>1. DispatchStep(p) /\ DispatcherTypeOK
    BY <1>2 DEF ToolStep, TypeOK
  <2>2. nextBatch' \in {nextBatch, nextBatch + 1}
    BY <2>1, WhichStep, WhoWrites DEF PostInline
  <2>3. ThreadsMove
    <3>1. \A a \in threads : \E b \in threads' : Becomes(a, b)
      BY <2>1, StepThreads
    <3>2. ASSUME NEW b \in threads'
          PROVE  \/ \E a \in threads : Becomes(a, b)
                 \/ \E q \in Procs, c \in Comment, a \in BOOLEAN :
                      /\ pc[q] = "post" /\ ToolStep(q) /\ c \in loc[q].delta
                      /\ b = NewThread(ToolOf[q], c, a)
      <4>1. CASE \E a \in threads : Becomes(a, b)
        BY <4>1
      <4>2. ASSUME pc[p] = "post", NEW c \in loc[p].delta, NEW a \in BOOLEAN,
                   b = NewThread(ToolOf[p], c, a)
            PROVE  \E q \in Procs, d \in Comment, x \in BOOLEAN :
                     /\ pc[q] = "post" /\ ToolStep(q) /\ d \in loc[q].delta
                     /\ b = NewThread(ToolOf[q], d, x)
        <5>1. c \in Comment
          BY ThreadTypes
        <5> QED
          BY <1>2, <4>2, <5>1
      <4> QED
        BY <2>1, <4>1, <4>2, StepThreads
    <3> QED
      BY <3>1, <3>2 DEF ThreadsMove
  <2> QED
    BY <2>1, <2>2, <2>3, StepThreads
<1>3. CASE Author
  <2>1. UNCHANGED nextBatch /\ PRTypeOK
    BY <1>3 DEF Author, Push, UserResolves, UserDeletesNote, UserEditsBody, TypeOK, DispatcherTypeOK
  <2>2. CASE Push(MaxHead)
    BY <2>1, <2>2, PushThreads DEF ThreadsMove
  <2>3. CASE UserResolves
    BY <2>1, <2>3, UserResolvesThreads DEF ThreadsMove
  <2> QED
    BY <1>1, <1>3, <2>1, <2>2, <2>3 DEF Author, UserDeletesNote, UserEditsBody
<1> QED
  BY <1>1, <1>2, <1>3 DEF Next, StartRun, Cancel, prVars, ciVars, vars

\* Through every behaviour of CI mode.
THEOREM ThreadsStayProper == Spec => []ThreadsInv
<1>1. Init => ThreadsInv
  BY DEF Init, DispatcherInit, PRInit, ThreadsInv, ThreadsProper
<1>2. TypeOK /\ TypeOK' /\ ThreadsInv /\ [Next]_ciVars => ThreadsInv'
  <2> SUFFICES ASSUME TypeOK, TypeOK', ThreadsInv, [Next]_ciVars PROVE ThreadsInv'
    OBVIOUS
  <2>1. ThreadsProper' /\ nextBatch' \in {nextBatch, nextBatch + 1} /\ nextBatch \in Nat
    BY NextThreads, ThreadTypes DEF ThreadsInv
  <2>2. ASSUME NEW r \in Runs, NEW id \in before'[r].resolved \cup before'[r].closed
        PROVE  id.batch < nextBatch'
    <3>1. CASE before'[r] = before[r]
      <4>1. id \in ThreadId /\ id.batch < nextBatch
        BY <2>2, <3>1 DEF ThreadsInv, TypeOK, Before
      <4>2. id.batch \in Nat
        BY <4>1 DEF ThreadId
      <4> QED
        BY <2>1, <4>1, <4>2
    <3>2. CASE StartRun(r)
      <4>1. \E th \in threads : id = th.id
        <5>1. before'[r].resolved = ThreadsIn("user") /\ before'[r].closed = ThreadsIn("cadoo")
          BY <3>2, StartRunIs
        <5> QED
          BY <2>2, <5>1 DEF ThreadsIn
      <4>2. nextBatch' = nextBatch
        BY <3>2 DEF StartRun, prVars
      <4> QED
        BY <4>1, <4>2 DEF ThreadsInv, ThreadsProper
    <3>3. before'[r] = before[r] \/ StartRun(r)
      BY StartRunIs DEF Next, Cancel, ToolStep, Author, ciVars
    <3> QED
      BY <3>1, <3>2, <3>3
  <2> QED
    BY <2>1, <2>2 DEF ThreadsInv
<1> QED
  BY <1>1, <1>2, TypeCorrect, PTL DEF Spec

-----------------------------------------------------------------------------
(* What the store answers and remembers.                                   *)

\* The two-stage filter: what is left to post is unknown to the store and has
\* distinct keys; what is not left is known, or has the key of one that is.
LEMMA FilterIs ==
  ASSUME TypeOK, NEW p \in Procs, FilterInline(p)
  PROVE  /\ loc'[p].delta \subseteq loc[p].res.inline
         /\ store[p[1]].on =>
              \A c \in loc'[p].delta : ~MemHas(store[p[1]].recs, ToolOf[p], c)
         /\ \A c \in loc[p].res.inline :
              \/ (store[p[1]].on /\ MemHas(store[p[1]].recs, ToolOf[p], c))
              \/ \E d \in loc'[p].delta : StructuralKey(ToolOf[p], d) = StructuralKey(ToolOf[p], c)
         /\ \A c, d \in loc'[p].delta :
              StructuralKey(ToolOf[p], c) = StructuralKey(ToolOf[p], d) => c = d
         /\ loc'[p].delta = {} <=> pc'[p] # "post"
<1> DEFINE Key(c) == StructuralKey(ToolOf[p], c)
<1>1. PICK fresh \in SUBSET loc[p].res.inline, delta \in SUBSET loc[p].res.inline :
        /\ \A c \in loc[p].res.inline : (c \notin fresh) \in HasFinding(p, c)
        /\ delta \subseteq fresh
        /\ \A c \in fresh : \E d \in delta : Key(d) = Key(c)
        /\ \A c, d \in delta : Key(c) = Key(d) => c = d
        /\ loc' = [loc EXCEPT ![p].delta = delta]
        /\ Goto(p, IF delta = {} THEN "resolve" ELSE "post")
  BY DEF FilterInline
<1>2. loc'[p].delta = delta /\ pc'[p] = IF delta = {} THEN "resolve" ELSE "post"
  BY <1>1 DEF Goto, TypeOK, DispatcherTypeOK, Local
<1>3. St(p) = store[p[1]] /\ ~StoreFails /\ Backend = "mem" /\ store[p[1]].on \in BOOLEAN
  BY ProcsAreRuns, CIAssumption DEF TypeOK, DispatcherTypeOK, Store
<1>4. \A c : HasFinding(p, c) = IF store[p[1]].on
                                THEN {MemHas(store[p[1]].recs, ToolOf[p], c)} ELSE {FALSE}
  BY <1>3 DEF HasFinding
<1>5. \A c \in loc[p].res.inline :
        c \notin fresh <=> (store[p[1]].on /\ MemHas(store[p[1]].recs, ToolOf[p], c))
  <2> SUFFICES ASSUME NEW c \in loc[p].res.inline
               PROVE  c \notin fresh <=>
                        (store[p[1]].on /\ MemHas(store[p[1]].recs, ToolOf[p], c))
    OBVIOUS
  <2>0. (c \notin fresh) \in HasFinding(p, c)
    BY <1>1
  <2>1. CASE store[p[1]].on
    <3>1. (c \notin fresh) = MemHas(store[p[1]].recs, ToolOf[p], c)
      BY <1>4, <2>0, <2>1
    <3>2. MemHas(store[p[1]].recs, ToolOf[p], c) \in BOOLEAN
      BY DEF MemHas
    <3> QED
      BY <2>1, <3>1, <3>2
  <2>2. CASE ~store[p[1]].on
    <3>1. (c \notin fresh) = FALSE
      BY <1>4, <2>0, <2>2
    <3> QED
      BY <2>2, <3>1
  <2> QED
    BY <2>1, <2>2
<1> HIDE DEF Key
<1>6. \A c \in loc[p].res.inline : c \in fresh => \E d \in delta : Key(d) = Key(c)
  BY <1>1
<1>7. \A c, d \in delta : Key(c) = Key(d) => c = d
  BY <1>1
<1> QED
  BY <1>1, <1>2, <1>5, <1>6, <1>7 DEF Key

\* A record made by RecordFinding is what its fingerprint says.
RecOK(rec) ==
  rec.fp # NoFp =>
    LET tool == rec.fp.tool
        c == rec.fp.comment
    IN  /\ rec.tool = tool /\ rec.file = c.file /\ rec.sev = c.sev
        /\ rec.sk = StructuralKey(tool, c) /\ rec.nt = normalizeTitle[c.body]
        /\ ~rec.resolved

\* The records of a run that has just read the PR back are its threads.
LEMMA SeedsMirror ==
  ASSUME TypeOK, NEW r \in Runs, StartRun(r)
  PROVE  /\ store'[r].on =>
              \A th \in threads : \E rec \in store'[r].recs :
                /\ Mirrors(rec, th) /\ rec.eid = (IF th.anchored THEN th.id ELSE NoId)
                /\ rec.resolved = (th.anchored /\ th.state # "open") /\ rec.line = th.line
         /\ \A rec \in store'[r].recs : \E th \in threads :
              /\ Mirrors(rec, th) /\ rec.eid = (IF th.anchored THEN th.id ELSE NoId)
              /\ rec.resolved = (th.anchored /\ th.state # "open") /\ rec.line = th.line
              /\ rec.fp = NoFp
<1> DEFINE Seed(th) == SeedRec(PriorInline(th))
<1>1. \A th : /\ Mirrors(Seed(th), th)
              /\ Seed(th).eid = IF th.anchored THEN th.id ELSE NoId
              /\ Seed(th).resolved = (th.anchored /\ th.state # "open")
              /\ Seed(th).line = th.line /\ Seed(th).fp = NoFp
  BY SMTT(30) DEF SeedRec, PriorInline, Mirrors
<1>2. CASE store'[r] = PriorStore(ListCadooArtifacts)
  <2>1. store'[r].recs = {Seed(th) : th \in threads}
    BY <1>2 DEF PriorStore, ListCadooArtifacts
  <2> HIDE DEF Seed
  <2> QED
    BY <1>1, <2>1
<1>3. CASE store'[r] = NoStore
  BY <1>3 DEF NoStore, EmptyStore
<1> QED
  BY <1>2, <1>3, StartRunIs

\* What a job knows when its PR has been fetched.
LEMMA FetchedIs ==
  ASSUME TypeOK, NEW p \in Procs, ToolStep(p), pc[p] = "fetch", pc'[p] \in Working
  PROVE  /\ loc'[p].head = HeadSHA
         /\ loc'[p].prior = {} /\ loc'[p].refs = {} /\ loc'[p].delta = {}
         /\ pc'[p] = "diff"
<1>1. /\ loc' = [loc EXCEPT ![p] = [EmptyLocal EXCEPT !.head = HeadSHA,
                    !.user = prBody.user, !.section = prBody.cadoo]]
      /\ Goto(p, "diff")
  BY WhichStep DEF ToolStep, Fetch, Finish, Goto, Working, Finished, TypeOK, DispatcherTypeOK
<1> QED
  BY <1>1 DEF TypeOK, DispatcherTypeOK, EmptyLocal, Goto

\* A tool's step, seen from its run.
LEMMA ToolStepIs ==
  ASSUME TypeOK, NEW p \in Procs, ToolStep(p)
  PROVE  /\ DispatchStep(p) /\ DispatcherTypeOK /\ UNCHANGED before
         /\ pc[p] \in Working
         /\ \A q \in Procs \ {p} : pc'[q] = pc[q] /\ loc'[q] = loc[q]
         /\ \A r \in Runs : r # p[1] => store'[r] = store[r]
         /\ \A r \in Runs : store'[r].on = store[r].on /\ store'[r].sha = store[r].sha
         /\ pc[p] # "record" => \A r \in Runs : store'[r].recs = store[r].recs
<1>1. DispatchStep(p) /\ DispatcherTypeOK /\ UNCHANGED before
  BY DEF ToolStep, TypeOK
<1>2. store \in [Runs -> Store] /\ StoreOf[p] = p[1] /\ p[1] \in Runs
  BY CIAssumption, ProcsAreRuns DEF TypeOK, DispatcherTypeOK
<1>3. /\ pc[p] \in Working
      /\ \A q \in Procs \ {p} : pc'[q] = pc[q] /\ loc'[q] = loc[q]
  BY <1>1, StepAndMutex, OthersStay
<1> DEFINE Only(s) == store' = [store EXCEPT ![p[1]] = s]
<1>4. \/ UNCHANGED store
      \/ \E s : /\ Only(s) /\ s.on = store[p[1]].on /\ s.sha = store[p[1]].sha
                /\ pc[p] # "record" => s.recs = store[p[1]].recs
  <2>0. store[p[1]] \in Store
    BY <1>2
  <2>1. CASE pc[p] = "section"
    <3> DEFINE s == [store[p[1]] EXCEPT !.secs[ToolOf[p]] = loc[p].head]
    <3>1. UNCHANGED store \/ Only(s)
      BY <1>1, <1>2, <2>1, WhichStep DEF PutSection
    <3>2. s.on = store[p[1]].on /\ s.sha = store[p[1]].sha /\ s.recs = store[p[1]].recs
      BY <2>0 DEF Store
    <3> QED
      BY <3>1, <3>2
  <2>2. CASE pc[p] = "putid"
    <3> DEFINE s == [store[p[1]] EXCEPT !.sum = loc[p].existing]
    <3>1. UNCHANGED store \/ Only(s)
      BY <1>1, <1>2, <2>2, WhichStep DEF PutSummaryID
    <3>2. s.on = store[p[1]].on /\ s.sha = store[p[1]].sha /\ s.recs = store[p[1]].recs
      BY <2>0 DEF Store
    <3> QED
      BY <3>1, <3>2
  <2>3. CASE pc[p] = "record"
    <3>0. PICK ref \in loc[p].refs :
            UNCHANGED store
            \/ store' = [store EXCEPT ![p[1]].recs = Recorded(p, ref.eid, ref.comment)]
      BY <1>1, <1>2, <2>3, WhichStep, ZenonT(40) DEF RecordFinding
    <3> DEFINE s == [store[p[1]] EXCEPT !.recs = Recorded(p, ref.eid, ref.comment)]
    <3>1. UNCHANGED store \/ Only(s)
      BY <1>2, <3>0
    <3>2. s.on = store[p[1]].on /\ s.sha = store[p[1]].sha
      BY <2>0 DEF Store
    <3> QED
      BY <2>3, <3>1, <3>2
  <2> QED
    BY <1>1, <2>1, <2>2, <2>3, WhoWrites
<1>5. \A r \in Runs : r # p[1] => store'[r] = store[r]
  BY <1>2, <1>4
<1>6. \A r \in Runs : /\ store'[r].on = store[r].on /\ store'[r].sha = store[r].sha
                      /\ pc[p] # "record" => store'[r].recs = store[r].recs
  BY <1>2, <1>4
<1> QED
  BY <1>1, <1>3, <1>5, <1>6

\* What the loop over the refs does to the records of the run.
LEMMA RecordIs ==
  ASSUME TypeOK, NEW p \in Procs, ToolStep(p), pc[p] = "record"
  PROVE  \E ref \in loc[p].refs :
           /\ ref.comment \in Comment /\ ref.eid \in ThreadId \cup {NoId}
           /\ store'[p[1]].recs =
                MemRecord(store[p[1]].recs, ToolOf[p], ref.eid, ref.comment)
           /\ loc'[p].refs = loc[p].refs \ {ref}
           /\ pc'[p] = IF loc[p].refs = {ref} THEN "resolve" ELSE "record"
           /\ UNCHANGED <<threads, nextBatch>>
<1>1. RecordFinding(p)
  BY WhichStep DEF ToolStep
<1>2. /\ Backend = "mem" /\ St(p) = store[p[1]] /\ ~StoreFails /\ StoreOf[p] = p[1]
      /\ store \in [Runs -> Store] /\ p[1] \in Runs
  BY CIAssumption, ProcsAreRuns DEF TypeOK, DispatcherTypeOK
<1>3. PICK ref \in loc[p].refs :
        /\ store' = [store EXCEPT ![p[1]].recs = Recorded(p, ref.eid, ref.comment)]
        /\ loc' = [loc EXCEPT ![p].refs = @ \ {ref}]
        /\ Goto(p, IF loc[p].refs = {ref} THEN "resolve" ELSE "record")
  BY <1>1, <1>2 DEF RecordFinding
<1>4. ref.comment \in Comment /\ ref.eid \in ThreadId \cup {NoId}
  BY DEF TypeOK, DispatcherTypeOK, Local
<1>5. Recorded(p, ref.eid, ref.comment)
        = MemRecord(store[p[1]].recs, ToolOf[p], ref.eid, ref.comment)
  BY <1>2 DEF Recorded
<1>6. store'[p[1]].recs = Recorded(p, ref.eid, ref.comment)
  BY <1>2, <1>3 DEF Store
<1>7. loc'[p].refs = loc[p].refs \ {ref}
  BY <1>3 DEF TypeOK, DispatcherTypeOK, Local
<1>8. pc'[p] = IF loc[p].refs = {ref} THEN "resolve" ELSE "record"
  BY <1>3 DEF Goto, TypeOK, DispatcherTypeOK
<1>9. UNCHANGED <<threads, nextBatch>>
  BY <1>1 DEF RecordFinding, prVars
<1> QED
  BY <1>4, <1>5, <1>6, <1>7, <1>8, <1>9

-----------------------------------------------------------------------------
(* What an external comment id means.                                      *)

\* The id names no thread but that of a finding of this tool, file and key.
Names(eid, tool, file, sk) ==
  eid # NoId =>
    /\ eid.batch < nextBatch
    /\ \A th \in threads : th.id = eid => th.tool = tool /\ th.file = file /\ th.sk = sk

\* The ids in records, priors and refs mean what they were stored with.
IdsInv ==
  /\ \A r \in Runs : \A rec \in store[r].recs :
       RecOK(rec) /\ Names(rec.eid, rec.tool, rec.file, rec.sk)
  /\ \A p \in Procs :
       /\ \A ref \in loc[p].refs :
            Names(ref.eid, ToolOf[p], ref.comment.file, StructuralKey(ToolOf[p], ref.comment))
       /\ \A f \in loc[p].prior : Names(f.eid, f.tool, f.file, f.sk)

\* They go on meaning that, whatever happens.
LEMMA NamesStay ==
  ASSUME TypeOK, ThreadsInv, [Next]_ciVars, NEW eid \in ThreadId \cup {NoId},
         NEW tool, NEW file, NEW sk, Names(eid, tool, file, sk)
  PROVE  Names(eid, tool, file, sk)'
<1> SUFFICES ASSUME eid # NoId
             PROVE  /\ eid.batch < nextBatch'
                    /\ \A th \in threads' :
                         th.id = eid => th.tool = tool /\ th.file = file /\ th.sk = sk
  BY DEF Names
<1>1. ThreadsMove /\ nextBatch' \in {nextBatch, nextBatch + 1} /\ nextBatch \in Nat
  BY NextThreads, ThreadTypes DEF ThreadsInv
<1>2. eid.batch \in Nat /\ eid.batch < nextBatch
  BY DEF Names, ThreadId
<1>3. ASSUME NEW th \in threads', th.id = eid
      PROVE  th.tool = tool /\ th.file = file /\ th.sk = sk
  <2>1. ASSUME NEW a \in threads, Becomes(a, th)
        PROVE  th.tool = tool /\ th.file = file /\ th.sk = sk
    BY <1>3, <2>1 DEF Becomes, Names
  <2>2. ASSUME NEW p \in Procs, NEW c, NEW a \in BOOLEAN, th = NewThread(ToolOf[p], c, a)
        PROVE  FALSE
    <3>1. th.id.batch = nextBatch
      BY <2>2 DEF NewThread
    <3> QED
      BY <1>1, <1>2, <1>3, <3>1
  <2> QED
    BY <1>1, <2>1, <2>2 DEF ThreadsMove
<1> QED
  BY <1>1, <1>2, <1>3

LEMMA EidTypes ==
  ASSUME TypeOK
  PROVE  /\ \A r \in Runs : store[r].recs \subseteq Rec
         /\ \A r \in Runs : \A rec \in store[r].recs : rec.eid \in ThreadId \cup {NoId}
         /\ \A p \in Procs : \A ref \in loc[p].refs : ref.eid \in ThreadId \cup {NoId}
         /\ \A p \in Procs : \A f \in loc[p].prior : f.eid \in ThreadId \cup {NoId}
<1>1. store \in [Runs -> Store] /\ loc \in [Procs -> Local]
  BY CIAssumption DEF TypeOK, DispatcherTypeOK
<1>2. \A r \in Runs : store[r].recs \subseteq Rec
  BY <1>1 DEF Store
<1>3. \A rec \in Rec : rec.eid \in ThreadId \cup {NoId}
  BY DEF Rec
<1>4. \A p \in Procs :
        /\ loc[p].prior \subseteq PostedFinding
        /\ loc[p].refs \subseteq [comment : Comment, eid : ThreadId \cup {NoId}]
  BY <1>1 DEF Local
<1>5. \A f \in PostedFinding : f.eid \in ThreadId \cup {NoId}
  BY DEF PostedFinding
<1>6. \A f \in [comment : Comment, eid : ThreadId \cup {NoId}] : f.eid \in ThreadId \cup {NoId}
  OBVIOUS
<1> QED
  BY <1>2, <1>3, <1>4, <1>5, <1>6

\* The refs a post answers name the threads it made.
LEMMA PostNames ==
  ASSUME TypeOK, ThreadsInv, NEW p \in Procs, PostInline(p), NEW ref \in loc'[p].refs
  PROVE  Names(ref.eid, ToolOf[p], ref.comment.file, StructuralKey(ToolOf[p], ref.comment))'
<1>1. PICK answer \in PostInlineComments(ToolOf[p], loc[p].delta) :
        /\ threads' = threads \cup answer.created
        /\ loc' = [loc EXCEPT ![p].refs = answer.refs, ![p].delta = {}]
  BY DEF PostInline
<1>2. ref \in answer.refs /\ nextBatch' = nextBatch + 1
  BY <1>1 DEF TypeOK, DispatcherTypeOK, Local, PostInline
<1> SUFFICES ASSUME ref.eid # NoId
             PROVE  /\ ref.eid.batch < nextBatch + 1
                    /\ \A th \in threads \cup answer.created : th.id = ref.eid =>
                         /\ th.tool = ToolOf[p] /\ th.file = ref.comment.file
                         /\ th.sk = StructuralKey(ToolOf[p], ref.comment)
  BY <1>1, <1>2 DEF Names
<1>3. ref.eid = [batch |-> nextBatch, comment |-> ref.comment]
  BY <1>2, PostAnswer
<1>4. ref.eid.batch = nextBatch /\ ref.eid.comment = ref.comment
  BY <1>3
<1>5. \A th \in threads : th.id # ref.eid
  <2> SUFFICES ASSUME NEW th \in threads, th.id = ref.eid PROVE FALSE
    OBVIOUS
  <2>1. th.id.batch \in Nat /\ th.id.batch < nextBatch
    BY ThreadTypes DEF ThreadsInv, ThreadsProper
  <2> QED
    BY <1>4, <2>1
<1>6. ASSUME NEW th \in answer.created, th.id = ref.eid
      PROVE  /\ th.tool = ToolOf[p] /\ th.file = ref.comment.file
             /\ th.sk = StructuralKey(ToolOf[p], ref.comment)
  <2>1. PICK c \in loc[p].delta, a \in BOOLEAN : th = NewThread(ToolOf[p], c, a)
    BY PostAnswer
  <2>2. th.id.comment = c /\ th.tool = ToolOf[p] /\ th.file = c.file
        /\ th.sk = StructuralKey(ToolOf[p], c)
    BY <2>1 DEF NewThread
  <2> QED
    BY <1>4, <1>6, <2>2
<1> QED
  BY <1>4, <1>5, <1>6, ThreadTypes

\* A finding recorded keeps the records in order.
LEMMA RecordNames ==
  ASSUME TypeOK, ThreadsInv, IdsInv, [Next]_ciVars, NEW p \in Procs, ToolStep(p),
         pc[p] = "record", NEW rec \in store'[p[1]].recs
  PROVE  RecOK(rec) /\ Names(rec.eid, rec.tool, rec.file, rec.sk)'
<1>1. PICK ref \in loc[p].refs :
        /\ ref.comment \in Comment /\ ref.eid \in ThreadId \cup {NoId}
        /\ store'[p[1]].recs = MemRecord(store[p[1]].recs, ToolOf[p], ref.eid, ref.comment)
  BY RecordIs
<1> DEFINE tool == ToolOf[p]
           c == ref.comment
<1>2. Names(ref.eid, tool, c.file, StructuralKey(tool, c))
  BY DEF IdsInv, Working
<1>3. tool \in Tools /\ store[p[1]].recs \in SUBSET Rec /\ p[1] \in Runs
  BY EidTypes, ThreadTypes, ProcsAreRuns
<1>4. \/ rec \in store[p[1]].recs
      \/ rec = NewRec(tool, ref.eid, c)
      \/ \E a \in store[p[1]].recs : /\ a.fp = Fingerprint(tool, c) /\ SameFinding(a, rec)
                                     /\ rec.eid = ref.eid
  BY <1>1, <1>3, MemRecordIs
<1>5. CASE rec \in store[p[1]].recs
  BY <1>3, <1>5, EidTypes, NamesStay DEF IdsInv
<1>6. Names(ref.eid, tool, c.file, StructuralKey(tool, c))'
  BY <1>1, <1>2, NamesStay
<1>7. CASE rec = NewRec(tool, ref.eid, c)
  <2>1. /\ rec.eid = ref.eid /\ rec.tool = tool /\ rec.file = c.file
        /\ rec.sk = StructuralKey(tool, c) /\ rec.sev = c.sev
        /\ rec.nt = normalizeTitle[c.body] /\ ~rec.resolved /\ rec.fp = Fingerprint(tool, c)
    BY <1>7 DEF NewRec
  <2> QED
    BY <1>6, <2>1, Markers DEF RecOK
<1>8. ASSUME NEW a \in store[p[1]].recs, a.fp = Fingerprint(tool, c), SameFinding(a, rec),
             rec.eid = ref.eid
      PROVE  RecOK(rec) /\ Names(rec.eid, rec.tool, rec.file, rec.sk)'
  <2>1. RecOK(a)
    BY <1>3 DEF IdsInv
  <2>2. a.fp # NoFp /\ a.fp.tool = tool /\ a.fp.comment = c
    BY <1>8, Markers
  <2>3. a.tool = tool /\ a.file = c.file /\ a.sk = StructuralKey(tool, c)
    BY <2>1, <2>2 DEF RecOK
  <2>4. rec.tool = tool /\ rec.file = c.file /\ rec.sk = StructuralKey(tool, c)
    BY <1>8, <2>3 DEF SameFinding
  <2>5. RecOK(rec)
    BY <1>8, <2>1 DEF RecOK, SameFinding
  <2> QED
    BY <1>6, <1>8, <2>4, <2>5
<1> QED
  BY <1>4, <1>5, <1>7, <1>8

\* A tool that has ended has let go of its locals.
LEMMA EndedIs ==
  ASSUME TypeOK, NEW p \in Procs, ToolStep(p), pc'[p] \notin Working
  PROVE  loc'[p] = EmptyLocal
  BY EndsEmpty DEF TypeOK, ToolStep

\* A step of a tool keeps the ids in order.
LEMMA ToolStepKeepsIds ==
  ASSUME TypeOK, TypeOK', ThreadsInv, IdsInv, [Next]_ciVars, NEW p \in Procs, ToolStep(p)
  PROVE  IdsInv'
<1>1. ASSUME NEW r \in Runs, NEW rec \in store'[r].recs
      PROVE  RecOK(rec) /\ Names(rec.eid, rec.tool, rec.file, rec.sk)'
  <2>1. CASE pc[p] = "record" /\ r = p[1]
    BY <1>1, <2>1, RecordNames
  <2>2. CASE pc[p] # "record" \/ r # p[1]
    <3>1. rec \in store[r].recs
      BY <1>1, <2>2, ToolStepIs
    <3> QED
      BY <3>1, EidTypes, NamesStay DEF IdsInv
  <2> QED
    BY <2>1, <2>2
<1>2. ASSUME NEW q \in Procs, NEW ref \in loc'[q].refs
      PROVE  Names(ref.eid, ToolOf[q], ref.comment.file,
                   StructuralKey(ToolOf[q], ref.comment))'
  <2>0. q = p => pc'[p] \in Working
    BY <1>2, EndedIs DEF EmptyLocal
  <2>1. CASE q = p /\ pc[p] = "post"
    BY <1>2, <2>1, PostNames, WhichStep DEF ToolStep
  <2>2. CASE q = p /\ pc[p] = "fetch"
    BY <1>2, <2>0, <2>2, FetchedIs
  <2>3. CASE ~(q = p /\ pc[p] \in {"fetch", "post"})
    <3>1. ref \in loc[q].refs
      BY <1>2, <2>0, <2>3, ToolStepIs, LocalsKept
    <3>2. Names(ref.eid, ToolOf[q], ref.comment.file, StructuralKey(ToolOf[q], ref.comment))
      BY <3>1 DEF IdsInv
    <3> QED
      BY <3>1, <3>2, EidTypes, NamesStay
  <2> QED
    BY <2>1, <2>2, <2>3
<1>3. ASSUME NEW q \in Procs, NEW f \in loc'[q].prior
      PROVE  Names(f.eid, f.tool, f.file, f.sk)'
  <2>0. q = p => pc'[p] \in Working
    BY <1>3, EndedIs DEF EmptyLocal
  <2>1. CASE q = p /\ pc[p] = "inline" /\ f \notin loc[q].prior
    <3>1. loc' = [loc EXCEPT ![p].prior = ListPostedFindings(St(p).recs)]
      BY <1>3, <2>1, WhichStep DEF ToolStep, SnapshotPriors
    <3>2. f \in ListPostedFindings(store[p[1]].recs)
      BY <1>3, <2>1, <3>1, ProcsAreRuns DEF TypeOK, DispatcherTypeOK, Local
    <3>3. PICK rec \in store[p[1]].recs :
            f.eid = rec.eid /\ f.tool = rec.tool /\ f.file = rec.file /\ f.sk = rec.sk
      BY <3>2 DEF ListPostedFindings, Posted
    <3> QED
      BY <3>3, EidTypes, ProcsAreRuns, NamesStay DEF IdsInv
  <2>2. CASE q = p /\ pc[p] = "fetch"
    BY <1>3, <2>0, <2>2, FetchedIs
  <2>3. CASE f \in loc[q].prior
    BY <2>3, EidTypes, NamesStay DEF IdsInv
  <2> QED
    BY <1>3, <2>0, <2>1, <2>2, <2>3, ToolStepIs, LocalsKept
<1> QED
  BY <1>1, <1>2, <1>3 DEF IdsInv

\* A run that starts reads ids that are right.
LEMMA StartRunKeepsIds ==
  ASSUME TypeOK, TypeOK', ThreadsInv, IdsInv, [Next]_ciVars, NEW r \in Runs, StartRun(r)
  PROVE  IdsInv'
<1>0. UNCHANGED <<threads, nextBatch, loc>>
  BY StartRunIs DEF prVars
<1>1. ASSUME NEW q \in Runs, NEW rec \in store'[q].recs
      PROVE  RecOK(rec) /\ Names(rec.eid, rec.tool, rec.file, rec.sk)'
  <2>1. CASE q = r
    <3>1. PICK th \in threads :
            /\ Mirrors(rec, th) /\ rec.eid = (IF th.anchored THEN th.id ELSE NoId)
            /\ rec.fp = NoFp
      BY <1>1, <2>1, SeedsMirror
    <3>2. RecOK(rec)
      BY <3>1 DEF RecOK
    <3>3. ASSUME rec.eid # NoId
          PROVE  /\ rec.eid.batch < nextBatch
                 /\ \A x \in threads : x.id = rec.eid =>
                      x.tool = rec.tool /\ x.file = rec.file /\ x.sk = rec.sk
      <4>1. rec.eid = th.id
        BY <3>1, <3>3
      <4>2. \A x \in threads : x.id = th.id => x = th
        BY DEF ThreadsInv, ThreadsProper
      <4>3. th.id.batch < nextBatch
        BY DEF ThreadsInv, ThreadsProper
      <4> QED
        BY <3>1, <4>1, <4>2, <4>3 DEF Mirrors
    <3> QED
      BY <1>0, <3>2, <3>3 DEF Names
  <2>2. CASE q # r
    <3>1. rec \in store[q].recs
      BY <1>1, <2>2, StartRunIs
    <3> QED
      BY <3>1, EidTypes, NamesStay DEF IdsInv
  <2> QED
    BY <2>1, <2>2
<1>2. ASSUME NEW p \in Procs
      PROVE  /\ \A ref \in loc[p].refs :
                  Names(ref.eid, ToolOf[p], ref.comment.file,
                        StructuralKey(ToolOf[p], ref.comment))'
             /\ \A f \in loc[p].prior : Names(f.eid, f.tool, f.file, f.sk)'
  BY EidTypes, NamesStay DEF IdsInv
<1> QED
  BY <1>0, <1>1, <1>2 DEF IdsInv

\* Through every behaviour, an external id held anywhere names the thread of
\* its finding.
THEOREM IdsNameThreads == Spec => []IdsInv
<1>1. Init => IdsInv
  BY CIAssumption DEF Init, DispatcherInit, IdsInv, EmptyLocal, EmptyStore
<1>2. TypeOK /\ TypeOK' /\ ThreadsInv /\ IdsInv /\ [Next]_ciVars => IdsInv'
  <2> SUFFICES ASSUME TypeOK, TypeOK', ThreadsInv, IdsInv, [Next]_ciVars PROVE IdsInv'
    OBVIOUS
  <2>1. ASSUME NEW r \in Runs, StartRun(r) PROVE IdsInv'
    BY <2>1, StartRunKeepsIds
  <2>2. ASSUME NEW p \in Procs, ToolStep(p) PROVE IdsInv'
    BY <2>2, ToolStepKeepsIds
  <2>3. CASE (\E r \in Runs : Cancel(r)) \/ Author \/ UNCHANGED ciVars
    <3>1. UNCHANGED store /\ \A p \in Procs : loc'[p] \in {loc[p], EmptyLocal}
      BY <2>3 DEF Cancel, Author, procVars, ciVars, vars
    <3>2. ASSUME NEW r \in Runs, NEW rec \in store[r].recs
          PROVE  RecOK(rec) /\ Names(rec.eid, rec.tool, rec.file, rec.sk)'
      BY EidTypes, NamesStay DEF IdsInv
    <3>3. ASSUME NEW p \in Procs
          PROVE  /\ \A ref \in loc[p].refs :
                      Names(ref.eid, ToolOf[p], ref.comment.file,
                            StructuralKey(ToolOf[p], ref.comment))'
                 /\ \A f \in loc[p].prior : Names(f.eid, f.tool, f.file, f.sk)'
      BY EidTypes, NamesStay DEF IdsInv
    <3>4. ASSUME NEW p \in Procs
          PROVE  /\ \A ref \in loc'[p].refs : ref \in loc[p].refs
                 /\ \A f \in loc'[p].prior : f \in loc[p].prior
      BY <3>1 DEF EmptyLocal
    <3> QED
      BY <3>1, <3>2, <3>3, <3>4 DEF IdsInv
  <2> QED
    BY <2>1, <2>2, <2>3 DEF Next
<1> QED
  BY <1>1, <1>2, TypeCorrect, ThreadsStayProper, PTL DEF Spec

-----------------------------------------------------------------------------
(* A finding a reviewer resolved stays gone.                               *)

\* A run remembers, as resolved, every thread reviewers had resolved; what it
\* is about to post is not like any of them.
ResolvedInv ==
  /\ \A r \in Runs : store[r].on =>
       \A th \in threads : th.id \in before[r].resolved =>
         \E rec \in store[r].recs : Mirrors(rec, th) /\ rec.resolved
  /\ \A p \in Procs : (pc[p] = "post" /\ store[p[1]].on) =>
       \A c \in loc[p].delta, th \in threads :
         (/\ th.id \in before[p[1]].resolved
          /\ th.tool = ToolOf[p] /\ th.file = c.file /\ th.sev = c.sev)
         => ~SimilarToResolved(normalizeTitle[c.body], th.nt)

\* A thread that was there when run r started.
LEMMA OldThread ==
  ASSUME TypeOK, ThreadsInv, [Next]_ciVars, NEW r \in Runs, NEW th \in threads',
         th.id \in before[r].resolved \cup before[r].closed
  PROVE  \E a \in threads : Becomes(a, th)
<1>1. th.id.batch < nextBatch /\ nextBatch \in Nat
  BY ThreadTypes DEF ThreadsInv
<1>2. ASSUME NEW p \in Procs, NEW c \in Comment, NEW a \in BOOLEAN,
             th = NewThread(ToolOf[p], c, a)
      PROVE  FALSE
  <2>1. th.id.batch = nextBatch
    BY <1>2 DEF NewThread
  <2> QED
    BY <1>1, <2>1
<1> QED
  BY <1>2, NextThreads DEF ThreadsMove, ThreadsInv

\* Findings recorded later do not displace what a run has read.
LEMMA RecordsStay ==
  ASSUME TypeOK, NEW p \in Procs, ToolStep(p), NEW r \in Runs, NEW a \in store[r].recs
  PROVE  \E b \in store'[r].recs : SameFinding(a, b)
<1>1. CASE pc[p] = "record" /\ r = p[1]
  <2>1. PICK ref \in loc[p].refs :
          /\ ref.comment \in Comment /\ ref.eid \in ThreadId \cup {NoId}
          /\ store'[p[1]].recs = MemRecord(store[p[1]].recs, ToolOf[p], ref.eid, ref.comment)
    BY <1>1, RecordIs
  <2>2. store[p[1]].recs \in SUBSET Rec /\ ToolOf[p] \in Tools
    BY <1>1, EidTypes, ThreadTypes
  <2> QED
    BY <1>1, <2>1, <2>2, MemRecordIs
<1>2. CASE ~(pc[p] = "record" /\ r = p[1])
  BY <1>2, ToolStepIs DEF SameFinding
<1> QED
  BY <1>1, <1>2

LEMMA ResolvedKept ==
  ASSUME TypeOK, TypeOK', ThreadsInv, ResolvedInv, [Next]_ciVars,
         NEW r \in Runs, store'[r].on, NEW th \in threads', th.id \in before'[r].resolved
  PROVE  \E rec \in store'[r].recs : Mirrors(rec, th) /\ rec.resolved
<1>1. CASE StartRun(r)
  <2>1. th \in threads /\ \E x \in threads : x.id = th.id /\ x.state = "user"
    <3>1. before'[r].resolved = ThreadsIn("user")
      BY <1>1, StartRunIs
    <3>2. threads' = threads
      BY <1>1 DEF StartRun, prVars
    <3> QED
      BY <3>1, <3>2 DEF ThreadsIn
  <2>2. th.state = "user" /\ th.anchored
    BY <2>1 DEF ThreadsInv, ThreadsProper
  <2> QED
    BY <1>1, <2>1, <2>2, SeedsMirror
<1>2. CASE before'[r] = before[r] /\ store'[r].on = store[r].on
           /\ \A a \in store[r].recs : \E b \in store'[r].recs : SameFinding(a, b)
  <2>1. PICK a \in threads : Becomes(a, th)
    BY <1>2, OldThread
  <2>2. a.id \in before[r].resolved
    BY <1>2, <2>1 DEF Becomes
  <2>3. PICK rec \in store[r].recs : Mirrors(rec, a) /\ rec.resolved
    BY <1>2, <2>2 DEF ResolvedInv
  <2>4. PICK new \in store'[r].recs : SameFinding(rec, new)
    BY <1>2, <2>3
  <2> QED
    BY <2>1, <2>3, <2>4 DEF Mirrors, SameFinding, Becomes
<1>3. \A a \in store[r].recs : SameFinding(a, a)
  BY DEF SameFinding
<1>4. ASSUME NEW q \in Runs, StartRun(q), q # r
      PROVE  before'[r] = before[r] /\ store'[r] = store[r]
  BY <1>4, StartRunIs
<1>5. ASSUME NEW q \in Runs, Cancel(q)
      PROVE  before'[r] = before[r] /\ store'[r] = store[r]
  BY <1>5, CancelIs
<1>6. ASSUME NEW p \in Procs, ToolStep(p)
      PROVE  before'[r] = before[r] /\ store'[r].on = store[r].on
             /\ \A a \in store[r].recs : \E b \in store'[r].recs : SameFinding(a, b)
  BY <1>6, ToolStepIs, RecordsStay
<1>7. CASE Author \/ UNCHANGED ciVars
  BY <1>2, <1>3, <1>7 DEF Author, ciVars, vars, procVars
<1> QED
  BY <1>1, <1>2, <1>3, <1>4, <1>5, <1>6, <1>7 DEF Next

LEMMA PostUnlike ==
  ASSUME TypeOK, TypeOK', ThreadsInv, ResolvedInv, [Next]_ciVars,
         NEW p \in Procs, pc'[p] = "post", store'[p[1]].on,
         NEW c \in loc'[p].delta, NEW th \in threads', th.id \in before'[p[1]].resolved,
         th.tool = ToolOf[p], th.file = c.file, th.sev = c.sev
  PROVE  ~SimilarToResolved(normalizeTitle[c.body], th.nt)
<1>0. p[1] \in Runs
  BY ProcsAreRuns
<1>1. CASE ToolStep(p)
  <2>1. pc[p] = "filter" /\ FilterInline(p)
    BY <1>1, WhichStep, CameFrom, ToolStepIs
  <2>2. UNCHANGED <<threads, before>> /\ store'[p[1]] = store[p[1]]
    BY <2>1, <1>1, ToolStepIs DEF FilterInline, prVars
  <2>3. ~MemHas(store[p[1]].recs, ToolOf[p], c)
    BY <2>1, <2>2, FilterIs
  <2>4. PICK rec \in store[p[1]].recs : Mirrors(rec, th) /\ rec.resolved
    BY <1>0, <2>2 DEF ResolvedInv
  <2>5. SameBucket(rec, ToolOf[p], c)
    BY <2>4 DEF Mirrors, SameBucket
  <2>6. ~ResolvedMatch(rec, c)
    BY <2>3, <2>4, <2>5 DEF MemHas
  <2> QED
    BY <2>4, <2>6 DEF ResolvedMatch, Mirrors
<1>2. CASE pc[p] = "post" /\ loc'[p] = loc[p] /\ before'[p[1]] = before[p[1]]
           /\ store'[p[1]].on = store[p[1]].on
  <2>1. PICK a \in threads : Becomes(a, th)
    BY <1>0, <1>2, OldThread
  <2> QED
    BY <1>2, <2>1 DEF ResolvedInv, Becomes
<1>3. ASSUME NEW r \in Runs, StartRun(r)
      PROVE  pc[p] = "post" /\ loc'[p] = loc[p] /\ before'[p[1]] = before[p[1]]
             /\ store'[p[1]].on = store[p[1]].on
  BY <1>0, <1>3, StartRunIs
<1>4. ASSUME NEW r \in Runs, Cancel(r)
      PROVE  pc[p] = "post" /\ loc'[p] = loc[p] /\ before'[p[1]] = before[p[1]]
             /\ store'[p[1]].on = store[p[1]].on
  BY <1>4, CancelIs DEF Working
<1>5. ASSUME NEW q \in Procs, ToolStep(q), q # p
      PROVE  pc[p] = "post" /\ loc'[p] = loc[p] /\ before'[p[1]] = before[p[1]]
             /\ store'[p[1]].on = store[p[1]].on
  BY <1>0, <1>5, ToolStepIs
<1>6. CASE Author \/ UNCHANGED ciVars
  BY <1>2, <1>6 DEF Author, ciVars, vars, procVars
<1> QED
  BY <1>1, <1>2, <1>3, <1>4, <1>5, <1>6 DEF Next

\* A finding a reviewer had resolved when a run started stays gone: that run
\* opens no thread of the same tool, file and severity with a title like it,
\* in any interleaving with its siblings, other pipelines and the author.
THEOREM ResolvedFindingStaysGone == Spec => ResolvedStaysGone
<1> DEFINE StaysGone ==
      \A th \in threads' \ threads : \A p \in Procs :
        (pc[p] = "post" /\ pc'[p] # "post" /\ store[StoreOf[p]].on) =>
          ~ \E old \in threads :
              /\ old.id \in before[p[1]].resolved
              /\ old.tool = th.tool /\ old.file = th.file /\ old.sev = th.sev
              /\ SimilarToResolved(th.nt, old.nt)
<1>1. Init => ResolvedInv
  BY DEF Init, DispatcherInit, PRInit, ResolvedInv
<1>2. TypeOK /\ TypeOK' /\ ThreadsInv /\ ResolvedInv /\ [Next]_ciVars => ResolvedInv'
  BY ResolvedKept, PostUnlike DEF ResolvedInv
<1>3. TypeOK /\ ThreadsInv /\ ResolvedInv /\ [Next]_ciVars => StaysGone
  <2> SUFFICES ASSUME TypeOK, ThreadsInv, ResolvedInv, [Next]_ciVars,
                      NEW th \in threads' \ threads, NEW p \in Procs,
                      pc[p] = "post", pc'[p] # "post", store[StoreOf[p]].on,
                      NEW old \in threads, old.id \in before[p[1]].resolved,
                      old.tool = th.tool, old.file = th.file, old.sev = th.sev
               PROVE  ~SimilarToResolved(th.nt, old.nt)
    OBVIOUS
  <2>1. ToolStep(p)
    <3>1. ASSUME NEW r \in Runs, StartRun(r) PROVE FALSE
      BY <3>1 DEF StartRun, prVars
    <3>2. ASSUME NEW r \in Runs, Cancel(r) PROVE FALSE
      BY <3>2 DEF Cancel, prVars
    <3>3. ASSUME NEW q \in Procs, ToolStep(q), q # p PROVE FALSE
      BY <3>3, ToolStepIs
    <3>4. CASE Author \/ UNCHANGED ciVars
      BY <3>4 DEF Author, ciVars, vars, procVars
    <3> QED
      BY <3>1, <3>2, <3>3, <3>4 DEF Next
  <2>2. PICK answer \in PostInlineComments(ToolOf[p], loc[p].delta) :
          threads' = threads \cup answer.created
    BY <2>1, WhichStep DEF ToolStep, PostInline
  <2>3. PICK c \in loc[p].delta, a \in BOOLEAN : th = NewThread(ToolOf[p], c, a)
    BY <2>2, PostAnswer
  <2>4. /\ th.tool = ToolOf[p] /\ th.file = c.file /\ th.sev = c.sev
        /\ th.nt = normalizeTitle[c.body]
    BY <2>3 DEF NewThread
  <2> QED
    BY <2>4, ProcsAreRuns DEF ResolvedInv
<1> HIDE DEF StaysGone
<1>4. [][StaysGone]_ciVars => ResolvedStaysGone
  BY PTL DEF ResolvedStaysGone, StaysGone
<1> QED
  BY <1>1, <1>2, <1>3, <1>4, TypeCorrect, ThreadsStayProper, PTL DEF Spec

-----------------------------------------------------------------------------
(* Threads on untouched code stay open.                                    *)

\* Every head that is written down is one the PR has had.
HeadsInv ==
  /\ \A n \in notes : n.sha <= Len(history)
  /\ \A r \in Runs : store[r].sha <= Len(history)
  /\ \A p \in Procs : pc[p] \in Working \ {"fetch"} => loc[p].head \in 1..Len(history)

\* The change set of a job that looked at the last reviewed head is what
\* differs between that head and the one it fetched.
ChangeSetInv ==
  \A p \in Procs : pc[p] \in Working \ {"fetch", "diff"} =>
    LET base == store[p[1]].sha
    IN  base # 0 => loc[p].incr /\ loc[p].chg = DiffBetween(base, loc[p].head)

\* Heads are only ever added.
LEMMA HistoryGrows ==
  ASSUME TypeOK, [Next]_ciVars
  PROVE  /\ Len(history) \in Nat \ {0} /\ Len(history') \in Nat
         /\ Len(history) <= Len(history')
         /\ \A i \in 1..Len(history) : history'[i] = history[i]
<1>1. history \in Seq(Tree) /\ history # <<>>
  BY DEF TypeOK, DispatcherTypeOK, PRTypeOK
<1>2. Len(history) \in Nat \ {0}
  BY <1>1, LenProperties, EmptySeq
<1>3. UNCHANGED history \/ \E tree \in Tree : history' = Append(history, tree)
  BY WhoWrites DEF Next, StartRun, Cancel, ToolStep, Author, Push, UserResolves,
     UserDeletesNote, UserEditsBody, ciVars, vars, prVars
<1>4. CASE UNCHANGED history
  BY <1>2, <1>4
<1>5. ASSUME NEW tree \in Tree, history' = Append(history, tree)
      PROVE  /\ Len(history') = Len(history) + 1
             /\ \A i \in 1..Len(history) : history'[i] = history[i]
  BY <1>1, <1>5, AppendProperties
<1> QED
  BY <1>2, <1>3, <1>4, <1>5

\* The head a comment is marked with is the head of the job that wrote it.
LEMMA NotesHeads ==
  ASSUME TypeOK, [Next]_ciVars, NEW n \in notes'
  PROVE  \/ \E m \in notes : m.sha = n.sha
         \/ n.sha = 0
         \/ \E p \in Procs : pc[p] \in Working \ {"fetch"} /\ n.sha = loc[p].head
<1>0. notes \subseteq Note
  BY DEF TypeOK, DispatcherTypeOK, PRTypeOK
<1>1. CASE UNCHANGED notes
  BY <1>1
<1>2. ASSUME NEW p \in Procs, ToolStep(p), n \notin notes
      PROVE  n.sha = 0 \/ (pc[p] \in Working \ {"fetch"} /\ n.sha = loc[p].head)
  <2>1. CASE LegacySummary(p)
    BY <1>2, <2>1 DEF LegacySummary
  <2>2. CASE UpdateSummary(p)
    <3>1. PICK m \in notes :
            notes' = (notes \ {m}) \cup
              {[m EXCEPT !.wrapper = TRUE, !.sha = loc[p].head, !.secs = loc[p].secs]}
      BY <1>2, <2>2 DEF UpdateSummary
    <3>2. n = [m EXCEPT !.wrapper = TRUE, !.sha = loc[p].head, !.secs = loc[p].secs]
      BY <1>2, <3>1
    <3>3. n.sha = loc[p].head
      BY <1>0, <3>2 DEF Note
    <3> QED
      BY <2>2, <3>3 DEF UpdateSummary, Working
  <2>3. CASE CreateSummary(p)
    BY <1>2, <2>3 DEF CreateSummary, Working
  <2> QED
    BY <1>2, <2>1, <2>2, <2>3, WhichStep, WhoWrites DEF ToolStep
<1>3. CASE UserDeletesNote
  <2>1. PICK m \in notes : notes' = (notes \ {m}) \cup {[m EXCEPT !.live = FALSE]}
    BY <1>3 DEF UserDeletesNote
  <2>2. [m EXCEPT !.live = FALSE].sha = m.sha
    BY <1>0 DEF Note
  <2> QED
    BY <2>1, <2>2
<1> QED
  BY <1>1, <1>2, <1>3 DEF Next, StartRun, Cancel, Author, Push, UserResolves, UserEditsBody,
     ciVars, vars, prVars

LEMMA HeadTypes ==
  ASSUME TypeOK
  PROVE  /\ \A n \in notes : n.sha \in Nat
         /\ \A r \in Runs : store[r].sha \in Nat
         /\ \A p \in Procs : loc[p].head \in Nat
         /\ HeadSHA \in Nat
<1>1. notes \subseteq Note /\ store \in [Runs -> Store] /\ loc \in [Procs -> Local]
  BY CIAssumption DEF TypeOK, DispatcherTypeOK, PRTypeOK
<1>2. HeadSHA \in Nat
  BY LenProperties DEF TypeOK, DispatcherTypeOK, PRTypeOK, HeadSHA
<1> QED
  BY <1>1, <1>2 DEF Note, Store, Local

LEMMA NextKeepsHeads ==
  ASSUME TypeOK, TypeOK', HeadsInv, [Next]_ciVars
  PROVE  HeadsInv'
<1>0. /\ Len(history) \in Nat \ {0} /\ Len(history') \in Nat
      /\ Len(history) <= Len(history')
  BY HistoryGrows
<1>1. ASSUME NEW n \in notes' PROVE n.sha <= Len(history')
  <2>1. n.sha \in Nat
    BY HeadTypes DEF TypeOK, DispatcherTypeOK, PRTypeOK, Note
  <2>2. n.sha <= Len(history)
    <3>1. ASSUME NEW m \in notes, m.sha = n.sha PROVE n.sha <= Len(history)
      BY <3>1 DEF HeadsInv
    <3>2. CASE n.sha = 0
      BY <1>0, <3>2
    <3>3. ASSUME NEW p \in Procs, pc[p] \in Working \ {"fetch"}, n.sha = loc[p].head
          PROVE  n.sha <= Len(history)
      BY <1>0, <3>3 DEF HeadsInv
    <3> QED
      BY <3>1, <3>2, <3>3, NotesHeads
  <2> QED
    BY <1>0, <2>1, <2>2
<1>2. ASSUME NEW r \in Runs PROVE store'[r].sha <= Len(history')
  <2>1. \/ store'[r].sha = store[r].sha
        \/ store'[r].sha = 0
        \/ \E n \in notes : store'[r].sha = n.sha
    <3>1. CASE StartRun(r)
      <4>1. PickWrapper # {} => Picked \in notes
        BY DEF Picked, PickWrapper, Wrappers
      <4>2. ListCadooArtifacts.sha = 0 \/ \E n \in notes : ListCadooArtifacts.sha = n.sha
        BY <4>1 DEF ListCadooArtifacts
      <4> QED
        BY <3>1, <4>2, StartRunIs DEF PriorStore, NoStore, EmptyStore
    <3>2. ASSUME NEW q \in Runs, StartRun(q), q # r PROVE store'[r] = store[r]
      BY <3>2, StartRunIs
    <3>3. ASSUME NEW p \in Procs, ToolStep(p) PROVE store'[r].sha = store[r].sha
      BY <3>3, ToolStepIs
    <3> QED
      BY <3>1, <3>2, <3>3 DEF Next, Cancel, Author, ciVars, vars, procVars
  <2>2. store'[r].sha \in Nat /\ store[r].sha \in Nat /\ \A n \in notes : n.sha \in Nat
    <3>1. store' \in [Runs -> Store]
      BY CIAssumption DEF TypeOK, DispatcherTypeOK
    <3> QED
      BY <3>1, HeadTypes DEF Store
  <2> QED
    BY <1>0, <2>1, <2>2 DEF HeadsInv
<1>3. ASSUME NEW p \in Procs, pc'[p] \in Working \ {"fetch"}
      PROVE  loc'[p].head \in 1..Len(history')
  <2>1. CASE ToolStep(p) /\ pc[p] = "fetch"
    <3>1. loc'[p].head = Len(history)
      BY <1>3, <2>1, FetchedIs DEF HeadSHA
    <3> QED
      BY <1>0, <3>1
  <2>2. \/ ToolStep(p) /\ pc[p] = "fetch"
        \/ pc[p] \in Working \ {"fetch"} /\ loc'[p].head = loc[p].head
    <3>1. ASSUME NEW r \in Runs, StartRun(r)
          PROVE  pc[p] \in Working \ {"fetch"} /\ loc'[p].head = loc[p].head
      BY <1>3, <3>1, StartRunIs
    <3>2. ASSUME NEW r \in Runs, Cancel(r)
          PROVE  pc[p] \in Working \ {"fetch"} /\ loc'[p].head = loc[p].head
      BY <1>3, <3>2, CancelIs
    <3>3. ASSUME NEW q \in Procs, ToolStep(q), q # p
          PROVE  pc[p] \in Working \ {"fetch"} /\ loc'[p].head = loc[p].head
      BY <1>3, <3>3, ToolStepIs
    <3>4. ASSUME ToolStep(p), pc[p] # "fetch"
          PROVE  pc[p] \in Working \ {"fetch"} /\ loc'[p].head = loc[p].head
      BY <1>3, <3>4, ToolStepIs, LocalsKept
    <3>5. CASE Author \/ UNCHANGED ciVars
      BY <1>3, <3>5 DEF Author, ciVars, vars, procVars
    <3> QED
      BY <3>1, <3>2, <3>3, <3>4, <3>5 DEF Next
  <2>3. CASE pc[p] \in Working \ {"fetch"} /\ loc'[p].head = loc[p].head
    <3>1. loc[p].head \in 1..Len(history)
      BY <2>3 DEF HeadsInv
    <3> QED
      BY <1>0, <2>3, <3>1
  <2> QED
    BY <2>1, <2>2, <2>3
<1> QED
  BY <1>1, <1>2, <1>3 DEF HeadsInv

THEOREM HeadsAreReal == Spec => []HeadsInv
<1>1. Init => HeadsInv
  <2> SUFFICES ASSUME Init PROVE HeadsInv
    OBVIOUS
  <2>1. Len(history) \in Nat
    BY InitType, LenProperties DEF TypeOK, DispatcherTypeOK, PRTypeOK
  <2>2. \A r \in Runs : store[r].sha = 0
    BY CIAssumption DEF Init, EmptyStore
  <2>3. notes = {} /\ \A p \in Procs : pc[p] = "idle"
    BY DEF Init, DispatcherInit, PRInit
  <2> QED
    BY <2>1, <2>2, <2>3 DEF HeadsInv, Working
<1>2. TypeOK /\ TypeOK' /\ HeadsInv /\ [Next]_ciVars => HeadsInv'
  BY NextKeepsHeads
<1> QED
  BY <1>1, <1>2, TypeCorrect, PTL DEF Spec

LEMMA NextKeepsChangeSet ==
  ASSUME TypeOK, TypeOK', HeadsInv, ChangeSetInv, [Next]_ciVars, "diff" \notin Faults
  PROVE  ChangeSetInv'
<1> SUFFICES ASSUME NEW p \in Procs, pc'[p] \in Working \ {"fetch", "diff"},
                    store'[p[1]].sha # 0
             PROVE  loc'[p].incr /\ loc'[p].chg = DiffBetween(store[p[1]].sha, loc[p].head)'
  BY DEF ChangeSetInv
<1> DEFINE base == store[p[1]].sha
           head == loc[p].head
<1>0. p[1] \in Runs /\ base \in Nat
  BY ProcsAreRuns, HeadTypes
<1>1. \/ /\ pc[p] \in Working \ {"fetch", "diff"} /\ loc'[p].incr = loc[p].incr
         /\ loc'[p].chg = loc[p].chg /\ loc'[p].head = head /\ store'[p[1]].sha = base
      \/ pc[p] = "diff" /\ ToolStep(p)
  <2>1. ASSUME NEW r \in Runs, StartRun(r)
        PROVE  /\ pc[p] \in Working \ {"fetch", "diff"} /\ loc'[p] = loc[p]
               /\ store'[p[1]] = store[p[1]]
    BY <1>0, <2>1, StartRunIs
  <2>2. ASSUME NEW r \in Runs, Cancel(r)
        PROVE  /\ pc[p] \in Working \ {"fetch", "diff"} /\ loc'[p] = loc[p]
               /\ store'[p[1]] = store[p[1]]
    BY <2>2, CancelIs
  <2>3. ASSUME NEW q \in Procs, ToolStep(q), q # p
        PROVE  /\ pc[p] \in Working \ {"fetch", "diff"} /\ loc'[p] = loc[p]
               /\ store'[p[1]].sha = base
    BY <1>0, <2>3, ToolStepIs
  <2>4. ASSUME ToolStep(p), pc[p] # "diff"
        PROVE  /\ pc[p] \in Working \ {"fetch", "diff"} /\ loc'[p].incr = loc[p].incr
               /\ loc'[p].chg = loc[p].chg /\ loc'[p].head = head /\ store'[p[1]].sha = base
    BY <1>0, <2>4, ToolStepIs, LocalsKept, CameFrom, FetchedIs
  <2>5. CASE Author \/ UNCHANGED ciVars
    BY <2>5 DEF Author, ciVars, vars, procVars
  <2> QED
    BY <2>1, <2>2, <2>3, <2>4, <2>5 DEF Next
<1>2. CASE /\ pc[p] \in Working \ {"fetch", "diff"} /\ loc'[p].incr = loc[p].incr
           /\ loc'[p].chg = loc[p].chg /\ loc'[p].head = head /\ store'[p[1]].sha = base
  <2>1. head \in 1..Len(history) /\ base \in 1..Len(history)
    BY <1>0, <1>2, HistoryGrows DEF HeadsInv
  <2>2. loc[p].incr /\ loc[p].chg = DiffBetween(base, head)
    BY <1>2 DEF ChangeSetInv
  <2>3. \A f \in Files : history'[base][f] # history'[head][f] <=> history[base][f] # history[head][f]
    BY <2>1, HistoryGrows
  <2>4. DiffBetween(store[p[1]].sha, loc[p].head)' = DiffBetween(base, head)
    BY <1>2, <2>3 DEF DiffBetween
  <2> QED
    BY <1>2, <2>2, <2>4
<1>3. CASE pc[p] = "diff" /\ ToolStep(p)
  <2>1. Diff(p) /\ St(p) = store[p[1]]
    BY <1>3, WhichStep, ProcsAreRuns DEF ToolStep
  <2>2. UNCHANGED <<history, store>>
    BY <2>1 DEF Diff, prVars
  <2>3. \/ base # head /\ loc' = [loc EXCEPT ![p].incr = TRUE, ![p].chg = DiffBetween(base, head)]
        \/ base = head /\ loc' = [loc EXCEPT ![p].incr = TRUE, ![p].chg = {}]
    BY <2>1, <2>2 DEF Diff
  <2>4. base = head => DiffBetween(base, head) = {}
    BY DEF DiffBetween
  <2>5. loc' = [loc EXCEPT ![p].incr = TRUE, ![p].chg = DiffBetween(base, head)]
    BY <2>3, <2>4
  <2>6. loc'[p].incr /\ loc'[p].chg = DiffBetween(base, head) /\ loc'[p].head = head
    BY <2>5 DEF TypeOK, DispatcherTypeOK, Local
  <2> QED
    BY <2>2, <2>6 DEF DiffBetween
<1> QED
  BY <1>1, <1>2, <1>3

\* A tool closes only threads of its own, and, when the reviewed head and the
\* fetched one differ in some file, only threads on files that differ: if the
\* hosting service answers the diff, nothing else that fails, no push in
\* between and no other pipeline makes it close a thread on untouched code.
THEOREM UntouchedThreadsAreKept ==
  ASSUME "diff" \notin Faults
  PROVE  Spec => UntouchedThreadsStayOpen
<1> DEFINE StayOpen ==
      \A p \in Procs : \A th \in threads :
        Closes(p, th) =>
          /\ th.tool = ToolOf[p]
          /\ LET base == store[StoreOf[p]].sha
             IN  base # 0 => LET d == DiffBetween(base, loc[p].head)
                             IN  d # {} => th.file \in d
<1>1. Init => ChangeSetInv
  BY DEF Init, DispatcherInit, ChangeSetInv, Working
<1>2. TypeOK /\ TypeOK' /\ HeadsInv /\ ChangeSetInv /\ [Next]_ciVars => ChangeSetInv'
  BY NextKeepsChangeSet
<1>3. TypeOK /\ IdsInv /\ ChangeSetInv /\ [Next]_ciVars => StayOpen
  <2> SUFFICES ASSUME TypeOK, IdsInv, ChangeSetInv, [Next]_ciVars,
                      NEW p \in Procs, NEW th \in threads, Closes(p, th)
               PROVE  /\ th.tool = ToolOf[p]
                      /\ store[p[1]].sha # 0 =>
                           LET d == DiffBetween(store[p[1]].sha, loc[p].head)
                           IN  d # {} => th.file \in d
    BY ProcsAreRuns
  <2>1. ToolStep(p)
    <3>1. ASSUME NEW r \in Runs, StartRun(r) PROVE FALSE
      BY <3>1 DEF StartRun, prVars, Closes
    <3>2. ASSUME NEW r \in Runs, Cancel(r) PROVE FALSE
      BY <3>2 DEF Cancel, prVars, Closes
    <3>3. ASSUME NEW q \in Procs, ToolStep(q), q # p PROVE FALSE
      BY <3>3, ToolStepIs DEF Closes
    <3>4. CASE Author \/ UNCHANGED ciVars
      BY <3>4 DEF Author, ciVars, vars, procVars, Closes
    <3> QED
      BY <3>1, <3>2, <3>3, <3>4 DEF Next
  <2>2. PICK f \in StalePriors(p) : threads' = ResolveThread(f.eid)
    BY <2>1, WhichStep DEF ToolStep, Closes, ResolveStale, FinishInline, prVars
  <2>3. th.id = f.eid
    BY <2>2 DEF Closes, ResolveThread
  <2>4. /\ f \in loc[p].prior /\ f.tool = ToolOf[p] /\ f.eid # NoId
        /\ loc[p].incr /\ loc[p].chg # {} => f.file \in loc[p].chg
    BY DEF StalePriors
  <2>5. th.tool = f.tool /\ th.file = f.file
    BY <2>3, <2>4 DEF IdsInv, Names
  <2>6. store[p[1]].sha # 0 =>
          loc[p].incr /\ loc[p].chg = DiffBetween(store[p[1]].sha, loc[p].head)
    BY DEF ChangeSetInv, Closes, Working
  <2> QED
    BY <2>4, <2>5, <2>6
<1> HIDE DEF StayOpen
<1>4. [][StayOpen]_ciVars => UntouchedThreadsStayOpen
  BY PTL DEF UntouchedThreadsStayOpen, StayOpen
<1> QED
  BY <1>1, <1>2, <1>3, <1>4, TypeCorrect, HeadsAreReal, IdsNameThreads, PTL DEF Spec

-----------------------------------------------------------------------------
(* Deduplication never drops the only copy of a finding.                   *)

\* th is what a record stands for; a record of a resolved thread keeps the line
\* the thread had when it was read, which a push may since have taken from it.
Backs(th, rec) ==
  /\ Mirrors(rec, th)
  /\ rec.resolved => th.state # "open" /\ th.line \in {0, rec.line}

\* The records of a run, and the findings it is about to record, are on the
\* PR; a finding a tool reported is, too, or it is about to be posted under
\* its key.
FindingsInv ==
  /\ \A r \in Runs : \A rec \in store[r].recs : \E th \in threads : Backs(th, rec)
  /\ \A p \in Procs : \A ref \in loc[p].refs :
       \E th \in threads : Shows(th, ToolOf[p], ref.comment)
  /\ \A p \in Procs : pc[p] \in {"post", "record", "resolve"} =>
       \A c \in loc[p].res.inline :
         \/ /\ pc[p] = "post"
            /\ \E d \in loc[p].delta :
                 StructuralKey(ToolOf[p], d) = StructuralKey(ToolOf[p], c)
         \/ \E th \in threads : Represents(th, ToolOf[p], c)

\* A comment the store knows has a thread that represents it.
LEMMA KnownIsRepresented ==
  ASSUME TypeOK, NEW r \in Runs, NEW rec \in store[r].recs, NEW th \in threads,
         Backs(th, rec), NEW tool \in Tools, NEW c \in Comment, SameBucket(rec, tool, c),
         IF rec.resolved THEN ResolvedMatch(rec, c) ELSE OpenMatch(rec, tool, c)
  PROVE  Represents(th, tool, c)
<1>1. /\ rec \in Rec /\ rec.nt \in Titles /\ rec.line \in Nat /\ rec.resolved \in BOOLEAN
      /\ normalizeTitle[c.body] \in Titles /\ c.ls \in Nat /\ c.le \in Nat
  BY EidTypes, TextAssumption DEF Rec, Comment
<1>2. /\ th.tool = tool /\ th.file = c.file /\ th.sev = c.sev
      /\ th.sk = rec.sk /\ th.nt = rec.nt
  BY DEF Backs, Mirrors, SameBucket
<1>3. CASE SimilarToResolved(normalizeTitle[c.body], rec.nt) \/ rec.sk = StructuralKey(tool, c)
  BY <1>2, <1>3 DEF Represents
<1>4. CASE rec.resolved /\ c.ls <= rec.line /\ rec.line <= c.le
  <2>1. rec.line \in c.ls..c.le
    BY <1>1, <1>4
  <2>2. th.state # "open" /\ (th.line = 0 \/ th.line = rec.line)
    BY <1>4 DEF Backs
  <2> QED
    BY <1>2, <2>1, <2>2 DEF Represents
<1>5. CASE SimilarTitle(normalizeTitle[c.body], rec.nt)
  BY <1>1, <1>3, <1>5, SimilarEnough
<1> QED
  BY <1>1, <1>3, <1>4, <1>5 DEF ResolvedMatch, OpenMatch

\* What threads become goes on standing for the same.
LEMMA StandingKept ==
  ASSUME NEW a, NEW b, Becomes(a, b)
  PROVE  /\ \A rec : Backs(a, rec) => Backs(b, rec)
         /\ \A tool, c : Shows(a, tool, c) => Shows(b, tool, c)
         /\ \A tool, c : Represents(a, tool, c) => Represents(b, tool, c)
<1>1. b.state # "open" \/ a.state = "open"
  BY DEF Becomes
<1>2. \A rec : Backs(a, rec) => Backs(b, rec)
  BY <1>1 DEF Becomes, Backs, Mirrors
<1>3. \A tool, c : Shows(a, tool, c) => Shows(b, tool, c)
  BY DEF Becomes, Shows
<1>4. \A tool, c : Represents(a, tool, c) => Represents(b, tool, c)
  BY <1>1 DEF Becomes, Represents
<1> QED
  BY <1>2, <1>3, <1>4

\* The records stay backed.
LEMMA RecordsBacked ==
  ASSUME TypeOK, TypeOK', ThreadsInv, FindingsInv, [Next]_ciVars,
         NEW r \in Runs, NEW rec \in store'[r].recs
  PROVE  \E th \in threads' : Backs(th, rec)
<1>0. \A a \in threads : \E b \in threads' : Becomes(a, b)
  BY NextThreads DEF ThreadsInv, ThreadsMove
<1>1. CASE rec \in store[r].recs
  BY <1>0, <1>1, StandingKept DEF FindingsInv
<1>2. ASSUME StartRun(r) PROVE \E th \in threads' : Backs(th, rec)
  <2>1. PICK th \in threads :
          /\ Mirrors(rec, th) /\ rec.resolved = (th.anchored /\ th.state # "open")
          /\ rec.line = th.line
    BY <1>2, SeedsMirror
  <2>2. Backs(th, rec)
    BY <2>1 DEF Backs
  <2> QED
    BY <1>0, <2>2, StandingKept
<1>3. ASSUME NEW p \in Procs, ToolStep(p), r = p[1], pc[p] = "record"
      PROVE  \E th \in threads' : Backs(th, rec)
  <2>1. PICK ref \in loc[p].refs :
          /\ ref.comment \in Comment /\ ref.eid \in ThreadId \cup {NoId}
          /\ store'[p[1]].recs = MemRecord(store[p[1]].recs, ToolOf[p], ref.eid, ref.comment)
    BY <1>3, RecordIs
  <2>2. store[p[1]].recs \in SUBSET Rec /\ ToolOf[p] \in Tools
    BY <1>3, EidTypes, ThreadTypes
  <2>3. \/ rec \in store[r].recs
        \/ rec = NewRec(ToolOf[p], ref.eid, ref.comment)
        \/ \E a \in store[r].recs : SameFinding(a, rec)
    BY <1>3, <2>1, <2>2, MemRecordIs
  <2>4. CASE rec = NewRec(ToolOf[p], ref.eid, ref.comment)
    <3>1. PICK th \in threads : Shows(th, ToolOf[p], ref.comment)
      BY DEF FindingsInv
    <3>2. Backs(th, rec)
      BY <2>4, <3>1 DEF NewRec, Shows, Backs, Mirrors
    <3> QED
      BY <1>0, <3>2, StandingKept
  <2>5. ASSUME NEW a \in store[r].recs, SameFinding(a, rec)
        PROVE  \E th \in threads' : Backs(th, rec)
    <3>1. PICK th \in threads : Backs(th, a)
      BY DEF FindingsInv
    <3>2. Backs(th, rec)
      BY <2>5, <3>1 DEF SameFinding, Backs, Mirrors
    <3> QED
      BY <1>0, <3>2, StandingKept
  <2> QED
    BY <1>1, <2>3, <2>4, <2>5
<1>4. ASSUME NEW p \in Procs, ToolStep(p), ~(r = p[1] /\ pc[p] = "record")
      PROVE  rec \in store[r].recs
  BY <1>4, ToolStepIs
<1>5. ASSUME NEW q \in Runs, StartRun(q), q # r PROVE rec \in store[r].recs
  BY <1>5, StartRunIs
<1>6. ASSUME NEW q \in Runs, Cancel(q) PROVE rec \in store[r].recs
  BY <1>6, CancelIs
<1>7. CASE Author \/ UNCHANGED ciVars
  BY <1>1, <1>7 DEF Author, ciVars, vars, procVars
<1> QED
  BY <1>1, <1>2, <1>3, <1>4, <1>5, <1>6, <1>7 DEF Next

\* What a tool has posted it finds on the PR.
LEMMA RefsShown ==
  ASSUME TypeOK, TypeOK', ThreadsInv, FindingsInv, [Next]_ciVars, "inline" \notin Faults,
         NEW p \in Procs, NEW ref \in loc'[p].refs
  PROVE  \E th \in threads' : Shows(th, ToolOf[p], ref.comment)
<1>0. \A a \in threads : \E b \in threads' : Becomes(a, b)
  BY NextThreads DEF ThreadsInv, ThreadsMove
<1>1. CASE ref \in loc[p].refs
  BY <1>0, <1>1, StandingKept DEF FindingsInv
<1>2. ASSUME ToolStep(p), pc[p] = "post"
      PROVE  \E th \in threads' : Shows(th, ToolOf[p], ref.comment)
  <2>1. PICK answer \in PostInlineComments(ToolOf[p], loc[p].delta) :
          /\ threads' = threads \cup answer.created
          /\ loc' = [loc EXCEPT ![p].refs = answer.refs, ![p].delta = {}]
    BY <1>2, WhichStep DEF ToolStep, PostInline
  <2>2. ref \in answer.refs
    BY <2>1 DEF TypeOK, DispatcherTypeOK, Local
  <2>3. PICK a \in BOOLEAN : NewThread(ToolOf[p], ref.comment, a) \in answer.created
    BY <2>2, PostAnswer
  <2>4. Shows(NewThread(ToolOf[p], ref.comment, a), ToolOf[p], ref.comment)
    BY DEF Shows, NewThread
  <2> QED
    BY <2>1, <2>3, <2>4
<1>3. ASSUME ToolStep(p), pc[p] # "post" PROVE ref \in loc[p].refs
  <2>1. pc'[p] \in Working
    BY <1>3, EndedIs DEF EmptyLocal
  <2> QED
    BY <1>3, <2>1, LocalsKept, FetchedIs DEF ToolStep, TypeOK
<1>4. ASSUME NEW q \in Procs, ToolStep(q), q # p PROVE ref \in loc[p].refs
  BY <1>4, ToolStepIs
<1>5. ASSUME NEW r \in Runs, StartRun(r) PROVE ref \in loc[p].refs
  BY <1>5 DEF StartRun
<1>6. ASSUME NEW r \in Runs, Cancel(r) PROVE ref \in loc[p].refs
  BY <1>6 DEF Cancel, EmptyLocal
<1>7. CASE Author \/ UNCHANGED ciVars
  BY <1>1, <1>7 DEF Author, ciVars, vars, procVars
<1> QED
  BY <1>1, <1>2, <1>3, <1>4, <1>5, <1>6, <1>7 DEF Next

\* A tool's own step keeps what it reported on the PR.
LEMMA ReportedStays ==
  ASSUME TypeOK, TypeOK', ThreadsInv, FindingsInv, [Next]_ciVars, "inline" \notin Faults,
         NEW p \in Procs, ToolStep(p), pc'[p] \in {"post", "record", "resolve"},
         NEW c \in loc'[p].res.inline
  PROVE  \/ /\ pc'[p] = "post"
            /\ \E d \in loc'[p].delta :
                 StructuralKey(ToolOf[p], d) = StructuralKey(ToolOf[p], c)
         \/ \E th \in threads' : Represents(th, ToolOf[p], c)
<1>0. \A a \in threads : \E b \in threads' : Becomes(a, b)
  BY NextThreads DEF ThreadsInv, ThreadsMove
<1>1. /\ p[1] \in Runs /\ ToolOf[p] \in Tools /\ c \in Comment
      /\ c \in loc[p].res.inline /\ DispatchStep(p) /\ DispatcherTypeOK
  <2>1. DispatchStep(p) /\ DispatcherTypeOK /\ p[1] \in Runs /\ ToolOf[p] \in Tools
    BY ToolStepIs, ProcsAreRuns, ThreadTypes
  <2>2. pc[p] \in {"filter", "post", "record", "resolve"} /\ pc'[p] \in Working
    BY <2>1, CameFrom DEF Working
  <2>3. c \in loc[p].res.inline
    BY <2>1, <2>2, LocalsKept
  <2>4. c \in Comment
    BY <2>3 DEF TypeOK, DispatcherTypeOK, Local, Result
  <2> QED
    BY <2>1, <2>3, <2>4
<1>2. pc[p] \in {"filter", "post", "record", "resolve"}
  BY <1>1, CameFrom
<1>3. CASE \E th \in threads : Represents(th, ToolOf[p], c)
  BY <1>0, <1>3, StandingKept
<1>4. CASE pc[p] = "filter"
  <2>1. FilterInline(p)
    BY <1>1, <1>4, WhichStep
  <2>2. CASE store[p[1]].on /\ MemHas(store[p[1]].recs, ToolOf[p], c)
    <3>1. PICK rec \in store[p[1]].recs :
            /\ SameBucket(rec, ToolOf[p], c)
            /\ IF rec.resolved THEN ResolvedMatch(rec, c) ELSE OpenMatch(rec, ToolOf[p], c)
      BY <2>2 DEF MemHas
    <3>2. PICK th \in threads : Backs(th, rec)
      BY <1>1 DEF FindingsInv
    <3> QED
      BY <1>1, <1>3, <3>1, <3>2, KnownIsRepresented
  <2>3. CASE \E d \in loc'[p].delta : StructuralKey(ToolOf[p], d) = StructuralKey(ToolOf[p], c)
    BY <2>1, <2>3, FilterIs
  <2> QED
    BY <1>1, <2>1, <2>2, <2>3, FilterIs
<1>5. CASE pc[p] = "post" /\ ~ \E th \in threads : Represents(th, ToolOf[p], c)
  <2>1. PICK d \in loc[p].delta : StructuralKey(ToolOf[p], d) = StructuralKey(ToolOf[p], c)
    BY <1>1, <1>5 DEF FindingsInv
  <2>2. PICK answer \in PostInlineComments(ToolOf[p], loc[p].delta) :
          threads' = threads \cup answer.created
    BY <1>1, <1>5, WhichStep DEF PostInline
  <2>3. PICK a \in BOOLEAN : NewThread(ToolOf[p], d, a) \in answer.created
    BY PostAnswer
  <2>4. Represents(NewThread(ToolOf[p], d, a), ToolOf[p], c)
    <3>1. d.file = c.file /\ d.sev = c.sev
      BY <2>1 DEF StructuralKey
    <3>2. /\ NewThread(ToolOf[p], d, a).tool = ToolOf[p]
          /\ NewThread(ToolOf[p], d, a).file = d.file
          /\ NewThread(ToolOf[p], d, a).sev = d.sev
          /\ NewThread(ToolOf[p], d, a).sk = StructuralKey(ToolOf[p], d)
      BY DEF NewThread
    <3> QED
      BY <2>1, <3>1, <3>2 DEF Represents
  <2> QED
    BY <2>2, <2>3, <2>4
<1> QED
  BY <1>1, <1>2, <1>3, <1>4, <1>5 DEF FindingsInv

\* The findings are kept so in any interleaving with siblings, other pipelines,
\* pushes and reviewers, unless posting itself fails.
THEOREM FindingsAreKept ==
  ASSUME "inline" \notin Faults
  PROVE  Spec => []FindingsInv
<1>1. Init => FindingsInv
  BY CIAssumption DEF Init, DispatcherInit, FindingsInv, EmptyLocal, EmptyStore
<1>2. TypeOK /\ TypeOK' /\ ThreadsInv /\ FindingsInv /\ [Next]_ciVars => FindingsInv'
  <2> SUFFICES ASSUME TypeOK, TypeOK', ThreadsInv, FindingsInv, [Next]_ciVars
               PROVE  FindingsInv'
    OBVIOUS
  <2> DEFINE Held(p) ==
        pc[p] \in {"post", "record", "resolve"} =>
          \A c \in loc[p].res.inline :
            \/ /\ pc[p] = "post"
               /\ \E d \in loc[p].delta :
                    StructuralKey(ToolOf[p], d) = StructuralKey(ToolOf[p], c)
            \/ \E th \in threads : Represents(th, ToolOf[p], c)
  <2>0. \A a \in threads : \E b \in threads' : Becomes(a, b)
    BY NextThreads DEF ThreadsInv, ThreadsMove
  <2>1. ASSUME NEW p \in Procs PROVE Held(p)'
    <3>1. CASE ToolStep(p)
      BY <3>1, ReportedStays
    <3>2. CASE pc'[p] = pc[p] /\ loc'[p] = loc[p]
      BY <2>0, <3>2, StandingKept DEF FindingsInv
    <3>3. ASSUME NEW q \in Procs, ToolStep(q), q # p PROVE Held(p)'
      BY <3>2, <3>3, ToolStepIs
    <3>4. ASSUME NEW r \in Runs, StartRun(r) PROVE Held(p)'
      <4>1. pc'[p] = "fetch" \/ pc'[p] = pc[p]
        BY <3>4, StartRunIs
      <4>2. loc' = loc
        BY <3>4 DEF StartRun
      <4> QED
        BY <3>2, <4>1, <4>2
    <3>5. ASSUME NEW r \in Runs, Cancel(r) PROVE Held(p)'
      <4>1. pc'[p] \notin Working \/ (pc'[p] = pc[p] /\ loc'[p] = loc[p])
        BY <3>5, CancelIs
      <4> QED
        BY <3>2, <4>1 DEF Working
    <3>6. CASE Author \/ UNCHANGED ciVars
      BY <3>2, <3>6 DEF Author, ciVars, vars, procVars
    <3> QED
      BY <3>1, <3>3, <3>4, <3>5, <3>6 DEF Next
  <2> QED
    BY <2>1, RecordsBacked, RefsShown DEF FindingsInv
<1> QED
  BY <1>1, <1>2, TypeCorrect, ThreadsStayProper, PTL DEF Spec

\* When a tool has posted, every finding it reported is on the PR: one is
\* dropped only for a thread of its tool, file and severity that represents it.
THEOREM NoFindingDropped ==
  ASSUME "inline" \notin Faults
  PROVE  Spec => []EveryFindingOnPR
<1>1. FindingsInv => EveryFindingOnPR
  BY DEF FindingsInv, EveryFindingOnPR
<1> QED
  BY <1>1, FindingsAreKept, PTL

-----------------------------------------------------------------------------
(* A red gate has something to show.                                       *)

\* /review fails its check only for a blocking finding that it reports (the
\* verdict is computed from the findings: internal/tools/review).
RedIsEarned ==
  \A t \in Tools : \A res \in ToolResults[t] : \A k \in res.checks :
    (k.name = ReviewCheckName /\ k.status = "failed") =>
      t = "review" /\ \E c \in res.inline : c.sev = "block"

\* th represents c, and the run of p did not close it as if c were gone.
Stands(p, th, c) ==
  /\ Represents(th, ToolOf[p], c)
  /\ th.sk = StructuralKey(ToolOf[p], c) =>
       th.state # "cadoo" \/ th.id \in before[p[1]].closed

\* The steps after which a tool may have closed threads.
Resolving == {"resolve", "check", "body"}

\* Before a tool starts to resolve, Cadoo has closed no thread of its that was
\* open when the run started; from then on what it reported still stands.
GateInv ==
  /\ \A p \in Procs : pc[p] \in Working \ Resolving =>
       \A th \in threads : (th.tool = ToolOf[p] /\ th.state = "cadoo") =>
         th.id \in before[p[1]].closed
  /\ \A p \in Procs : pc[p] \in {"resolve", "check"} =>
       \A c \in loc[p].res.inline : \E th \in threads : Stands(p, th, c)
  /\ \A p \in Procs : pc[p] \in Working \ {"fetch", "diff", "tool"} =>
       \A k \in loc[p].res.checks :
         (k.name = ReviewCheckName /\ k.status = "failed") =>
           ToolOf[p] = "review" /\ \E c \in loc[p].res.inline : c.sev = "block"

\* Cadoo's closing of a thread: a tool of the thread's name takes it for stale.
LEMMA ClosedByOwn ==
  ASSUME TypeOK, ThreadsInv, IdsInv, [Next]_ciVars,
         NEW a \in threads, NEW b \in threads', Becomes(a, b),
         b.state = "cadoo", a.state # "cadoo"
  PROVE  \E q \in Procs :
           /\ ToolStep(q) /\ pc[q] = "resolve" /\ ToolOf[q] = a.tool
           /\ \A c \in loc[q].res.inline : StructuralKey(ToolOf[q], c) # a.sk
<1>0. /\ threads \subseteq Thread /\ a \in Thread
      /\ \A x, y \in threads : x.id = y.id => x = y
  BY ThreadTypes DEF ThreadsInv, ThreadsProper
<1>1. \A x \in threads : x.id = b.id => x = a
  BY <1>0 DEF Becomes
<1>2. CASE UNCHANGED threads
  BY <1>1, <1>2
<1>3. CASE Author
  <2>1. CASE Push(MaxHead)
    <3>1. PICK x \in threads : b = x \/ b = [x EXCEPT !.line = 0]
      BY <2>1 DEF Push
    <3>2. b.id = x.id /\ b.state = x.state
      BY <1>0, <3>1 DEF Thread
    <3> QED
      BY <1>1, <3>2
  <2>2. CASE UserResolves
    <3>1. PICK x \in threads : b = x \/ b = [x EXCEPT !.state = "user"]
      BY <2>2 DEF UserResolves
    <3>2. b = x \/ b.state = "user"
      BY <1>0, <3>1 DEF Thread
    <3> QED
      BY <1>1, <3>2
  <2> QED
    BY <1>2, <1>3, <2>1, <2>2 DEF Author, UserDeletesNote, UserEditsBody
<1>4. ASSUME NEW q \in Procs, ToolStep(q), ~UNCHANGED threads
      PROVE  /\ pc[q] = "resolve" /\ ToolOf[q] = a.tool
             /\ \A c \in loc[q].res.inline : StructuralKey(ToolOf[q], c) # a.sk
  <2>1. pc[q] \in {"post", "resolve"} /\ DispatchStep(q)
    BY <1>4, ToolStepIs, WhoWrites
  <2>2. CASE pc[q] = "post"
    <3>1. PICK answer \in PostInlineComments(ToolOf[q], loc[q].delta) :
            threads' = threads \cup answer.created
      BY <2>1, <2>2, WhichStep DEF PostInline
    <3>2. \A th \in answer.created : th.state = "open"
      BY PostAnswer DEF NewThread
    <3> QED
      BY <1>1, <3>1, <3>2
  <2>3. CASE pc[q] = "resolve"
    <3>1. PICK f \in StalePriors(q) : threads' = ResolveThread(f.eid)
      BY <1>4, <2>1, <2>3, WhichStep DEF ResolveStale, FinishInline, prVars
    <3>2. PICK x \in threads :
            b = IF x.id = f.eid /\ x.anchored /\ x.state = "open"
                THEN [x EXCEPT !.state = "cadoo"] ELSE x
      BY <3>1 DEF ResolveThread
    <3>3. b.id = x.id
      BY <1>0, <3>2 DEF Thread
    <3>4. x = a
      BY <1>1, <3>3
    <3>5. a.id = f.eid
      BY <3>2, <3>4
    <3>6. /\ f \in loc[q].prior /\ f.tool = ToolOf[q] /\ f.eid # NoId
          /\ \A c \in loc[q].res.inline : StructuralKey(ToolOf[q], c) # PriorKey(f)
      BY DEF StalePriors
    <3>7. a.tool = f.tool /\ a.sk = f.sk
      BY <2>3, <3>5, <3>6 DEF IdsInv, Names, Working
    <3>8. a.sk # NoKey
      <4>1. a.sk = [tool |-> a.tool, file |-> a.file, sev |-> a.sev, nt |-> a.nt]
        BY DEF ThreadsInv, ThreadsProper
      <4> QED
        BY <4>1 DEF NoKey
    <3> QED
      BY <2>3, <3>6, <3>7, <3>8 DEF PriorKey
  <2> QED
    BY <2>1, <2>2, <2>3
<1> QED
  BY <1>2, <1>3, <1>4 DEF Next, StartRun, Cancel, prVars, ciVars, vars

\* A thread of p's tool that Cadoo closes is closed by p itself.
LEMMA ClosedByP ==
  ASSUME TypeOK, ThreadsInv, IdsInv, RunsInTurn, [Next]_ciVars,
         NEW p \in Procs, pc[p] \in Working,
         NEW a \in threads, NEW b \in threads', Becomes(a, b), a.tool = ToolOf[p],
         b.state = "cadoo", a.state # "cadoo"
  PROVE  /\ ToolStep(p) /\ pc[p] = "resolve"
         /\ \A c \in loc[p].res.inline : StructuralKey(ToolOf[p], c) # a.sk
<1>1. PICK q \in Procs :
        /\ ToolStep(q) /\ pc[q] = "resolve" /\ ToolOf[q] = a.tool
        /\ \A c \in loc[q].res.inline : StructuralKey(ToolOf[q], c) # a.sk
  BY ClosedByOwn
<1>2. q = p
  BY <1>1, OneRunAtWork, ToolTells DEF Working
<1> QED
  BY <1>1, <1>2

\* What a run knows of its start does not change while it is at work.
LEMMA BeforeStays ==
  ASSUME TypeOK, [Next]_ciVars, NEW p \in Procs, pc[p] \in Working
  PROVE  before'[p[1]] = before[p[1]]
<1>1. ASSUME NEW r \in Runs, StartRun(r) PROVE before'[p[1]] = before[p[1]]
  BY <1>1, StartRunIs, ProcsAreRuns DEF Working
<1> QED
  BY <1>1 DEF Next, Cancel, ToolStep, Author, ciVars

\* What stands goes on standing.
LEMMA StandsStays ==
  ASSUME TypeOK, ThreadsInv, IdsInv, RunsInTurn, [Next]_ciVars,
         NEW p \in Procs, pc[p] \in Working, NEW c \in loc[p].res.inline,
         NEW a \in threads, Stands(p, a, c)
  PROVE  \E b \in threads' : Stands(p, b, c)'
<1>1. PICK b \in threads' : Becomes(a, b)
  BY NextThreads DEF ThreadsInv, ThreadsMove
<1>2. Represents(b, ToolOf[p], c)
  BY <1>1, StandingKept DEF Stands
<1>3. ASSUME b.sk = StructuralKey(ToolOf[p], c), b.state = "cadoo"
      PROVE  b.id \in before'[p[1]].closed
  <2>1. a.sk = b.sk /\ a.id = b.id /\ a.tool = ToolOf[p]
    BY <1>1 DEF Becomes, Stands, Represents
  <2>2. a.state = "cadoo"
    BY <1>1, <1>3, <2>1, ClosedByP
  <2> QED
    BY <1>3, <2>1, <2>2, BeforeStays DEF Stands
<1> QED
  BY <1>2, <1>3 DEF Stands

\* The first part of GateInv.
LEMMA NoneClosedYet ==
  ASSUME TypeOK, TypeOK', ThreadsInv, IdsInv, RunsInTurn, GateInv, [Next]_ciVars,
         NEW p \in Procs, NEW b \in threads', b.tool = ToolOf[p], b.state = "cadoo",
         \/ pc'[p] \in Working \ Resolving
         \/ pc[p] \in Working \ Resolving
  PROVE  b.id \in before'[p[1]].closed
<1>1. CASE pc[p] \in Working \ Resolving
  <2>1. ASSUME NEW a \in threads, Becomes(a, b) PROVE b.id \in before'[p[1]].closed
    <3>1. a.id = b.id /\ a.tool = ToolOf[p]
      BY <2>1 DEF Becomes
    <3>2. a.state = "cadoo"
      BY <1>1, <2>1, <3>1, ClosedByP DEF Resolving
    <3> QED
      BY <1>1, <3>1, <3>2, BeforeStays DEF GateInv
  <2>2. ASSUME NEW q \in Procs, NEW c \in Comment, NEW a \in BOOLEAN,
               b = NewThread(ToolOf[q], c, a)
        PROVE  FALSE
    BY <2>2 DEF NewThread
  <2> QED
    BY <2>1, <2>2, NextThreads DEF ThreadsInv, ThreadsMove
<1>2. ASSUME pc[p] \notin Working \ Resolving, pc'[p] \in Working \ Resolving
      PROVE  b.id \in before'[p[1]].closed
  <2>1. ASSUME NEW r \in Runs, StartRun(r) PROVE b.id \in before'[p[1]].closed
    <3>1. p[1] = r
      BY <1>2, <2>1, StartRunIs
    <3>2. before'[r].closed = ThreadsIn("cadoo") /\ threads' = threads
      BY <2>1, StartRunIs DEF prVars
    <3> QED
      BY <3>1, <3>2 DEF ThreadsIn
  <2>2. ASSUME NEW r \in Runs, Cancel(r) PROVE FALSE
    BY <1>2, <2>2, CancelIs
  <2>3. ASSUME ToolStep(p) PROVE FALSE
    BY <1>2, <2>3, ToolStepIs, CameFrom DEF Working, Resolving
  <2>4. ASSUME NEW q \in Procs, ToolStep(q), q # p PROVE FALSE
    BY <1>2, <2>4, ToolStepIs
  <2>5. CASE Author \/ UNCHANGED ciVars
    BY <1>2, <2>5 DEF Author, ciVars, vars, procVars
  <2> QED
    BY <2>1, <2>2, <2>3, <2>4, <2>5 DEF Next
<1> QED
  BY <1>1, <1>2

\* The second part.
LEMMA ReportedStands ==
  ASSUME TypeOK, TypeOK', ThreadsInv, IdsInv, RunsInTurn, GateInv, FindingsInv',
         [Next]_ciVars, NEW p \in Procs, pc'[p] \in {"resolve", "check"},
         NEW c \in loc'[p].res.inline
  PROVE  \E th \in threads' : Stands(p, th, c)'
<1>1. CASE pc[p] \in {"resolve", "check"} /\ loc'[p].res.inline = loc[p].res.inline
  <2>1. pc[p] \in Working /\ c \in loc[p].res.inline
    BY <1>1 DEF Working
  <2>2. PICK th \in threads : Stands(p, th, c)
    BY <1>1, <2>1 DEF GateInv
  <2> QED
    BY <2>1, <2>2, StandsStays
<1>2. CASE pc[p] \in Working \ Resolving /\ pc'[p] = "resolve"
  <2>1. PICK th \in threads' : Represents(th, ToolOf[p], c)
    BY <1>2 DEF FindingsInv
  <2>2. th.state = "cadoo" => th.id \in before'[p[1]].closed
    BY <1>2, <2>1, NoneClosedYet DEF Represents
  <2> QED
    BY <2>1, <2>2 DEF Stands
<1>3. ASSUME ToolStep(p)
      PROVE  \/ pc[p] \in {"resolve", "check"} /\ loc'[p].res.inline = loc[p].res.inline
             \/ pc[p] \in Working \ Resolving /\ pc'[p] = "resolve"
  <2>1. DispatchStep(p) /\ DispatcherTypeOK /\ pc[p] \in Working /\ pc'[p] \in Working
    BY <1>3, ToolStepIs DEF Working
  <2>2. pc[p] \in {"resolve", "check", "filter", "post", "record"}
        /\ (pc'[p] = "check" => pc[p] \in {"resolve", "check"})
    BY <2>1, CameFrom
  <2>3. loc'[p].res.inline = loc[p].res.inline
    BY <2>1, <2>2, LocalsKept
  <2> QED
    BY <2>1, <2>2, <2>3 DEF Resolving
<1>4. ASSUME NEW q \in Procs, ToolStep(q), q # p
      PROVE  pc[p] \in {"resolve", "check"} /\ loc'[p].res.inline = loc[p].res.inline
  BY <1>4, ToolStepIs
<1>5. ASSUME NEW r \in Runs, StartRun(r)
      PROVE  pc[p] \in {"resolve", "check"} /\ loc'[p].res.inline = loc[p].res.inline
  BY <1>5, StartRunIs
<1>6. ASSUME NEW r \in Runs, Cancel(r)
      PROVE  pc[p] \in {"resolve", "check"} /\ loc'[p].res.inline = loc[p].res.inline
  BY <1>6, CancelIs DEF Working
<1>7. CASE Author \/ UNCHANGED ciVars
  BY <1>1, <1>7 DEF Author, ciVars, vars, procVars
<1> QED
  BY <1>1, <1>2, <1>3, <1>4, <1>5, <1>6, <1>7 DEF Next

\* The third.
LEMMA ChecksEarned ==
  ASSUME TypeOK, TypeOK', GateInv, RedIsEarned, [Next]_ciVars, NEW p \in Procs,
         pc'[p] \in Working \ {"fetch", "diff", "tool"}, NEW k \in loc'[p].res.checks,
         k.name = ReviewCheckName, k.status = "failed"
  PROVE  ToolOf[p] = "review" /\ \E c \in loc'[p].res.inline : c.sev = "block"
<1>1. CASE /\ pc[p] \in Working \ {"fetch", "diff", "tool"}
           /\ loc'[p].res.inline = loc[p].res.inline
           /\ loc'[p].res.checks \subseteq loc[p].res.checks
  BY <1>1 DEF GateInv
<1>2. CASE ToolStep(p) /\ pc[p] = "tool"
  <2>1. RunTool(p)
    BY <1>2, WhichStep DEF ToolStep, ToolFails, Finish, Goto, Working, TypeOK,
                           DispatcherTypeOK
  <2>2. PICK res \in ToolResults[ToolOf[p]] : loc' = [loc EXCEPT ![p].res = res]
    BY <2>1 DEF RunTool
  <2>3. loc'[p].res = res
    BY <2>2 DEF TypeOK, DispatcherTypeOK, Local
  <2> QED
    BY <2>3, ThreadTypes DEF RedIsEarned
<1>3. ASSUME ToolStep(p), pc[p] # "tool"
      PROVE  /\ pc[p] \in Working \ {"fetch", "diff", "tool"}
             /\ loc'[p].res.inline = loc[p].res.inline
             /\ loc'[p].res.checks \subseteq loc[p].res.checks
  <2>1. DispatchStep(p) /\ DispatcherTypeOK /\ pc[p] \in Working /\ pc'[p] \in Working
    BY <1>3, ToolStepIs
  <2>2. pc[p] # "fetch"
    BY <1>3, FetchedIs
  <2>3. pc[p] # "diff"
    BY <2>1, WhichStep DEF Diff, Goto, DispatcherTypeOK
  <2> QED
    BY <1>3, <2>1, <2>2, <2>3, LocalsKept
<1>4. ASSUME NEW q \in Procs, ToolStep(q), q # p
      PROVE  pc[p] \in Working \ {"fetch", "diff", "tool"} /\ loc'[p] = loc[p]
  BY <1>4, ToolStepIs
<1>5. ASSUME NEW r \in Runs, StartRun(r)
      PROVE  pc[p] \in Working \ {"fetch", "diff", "tool"} /\ loc'[p] = loc[p]
  BY <1>5, StartRunIs
<1>6. ASSUME NEW r \in Runs, Cancel(r)
      PROVE  pc[p] \in Working \ {"fetch", "diff", "tool"} /\ loc'[p] = loc[p]
  BY <1>6, CancelIs
<1>7. CASE Author \/ UNCHANGED ciVars
  BY <1>1, <1>7 DEF Author, ciVars, vars, procVars
<1> QED
  BY <1>1, <1>2, <1>3, <1>4, <1>5, <1>6, <1>7 DEF Next

\* When cadoo/review turns red there is a blocking finding of /review on the PR
\* whose thread this run has not closed, or which it took for another worded
\* like it: the run's own auto-resolution, its sibling tools, pushes and
\* reviewers in between take nothing of that away.
THEOREM RedGateIsShown ==
  ASSUME Overlap = FALSE, "inline" \notin Faults, RedIsEarned
  PROVE  Spec => RedGateHasThread
<1> DEFINE Shown ==
      \A k \in checks' \ checks :
        (k.name = ReviewCheckName /\ k.status = "failed") =>
          \E p \in Procs :
            /\ pc[p] = "check" /\ <<pc[p], loc[p]>>' # <<pc[p], loc[p]>>
            /\ \E c \in loc[p].res.inline : \E th \in threads :
                 /\ c.sev = "block" /\ Represents(th, "review", c)
                 /\ th.sk = StructuralKey("review", c) =>
                      th.state # "cadoo" \/ th.id \in before[p[1]].closed
<1>1. Init => GateInv
  BY DEF Init, DispatcherInit, GateInv, Working
<1>2. /\ TypeOK /\ TypeOK' /\ ThreadsInv /\ IdsInv /\ RunsInTurn /\ FindingsInv' /\ GateInv
      /\ [Next]_ciVars
      => GateInv'
  BY NoneClosedYet, ReportedStands, ChecksEarned DEF GateInv
<1>3. TypeOK /\ GateInv /\ [Next]_ciVars => Shown
  <2> SUFFICES ASSUME TypeOK, GateInv, [Next]_ciVars, NEW k \in checks' \ checks,
                      k.name = ReviewCheckName, k.status = "failed"
               PROVE  \E p \in Procs :
                        /\ pc[p] = "check" /\ <<pc[p], loc[p]>>' # <<pc[p], loc[p]>>
                        /\ \E c \in loc[p].res.inline : \E th \in threads :
                             /\ c.sev = "block" /\ Represents(th, "review", c)
                             /\ th.sk = StructuralKey("review", c) =>
                                  th.state # "cadoo" \/ th.id \in before[p[1]].closed
    OBVIOUS
  <2>1. PICK p \in Procs : ToolStep(p)
    <3>1. ASSUME NEW r \in Runs, StartRun(r) PROVE FALSE
      BY <3>1 DEF StartRun, prVars
    <3>2. ASSUME NEW r \in Runs, Cancel(r) PROVE FALSE
      BY <3>2 DEF Cancel, prVars
    <3>3. CASE Author
      BY <3>3 DEF Author, Push, UserResolves, UserDeletesNote, UserEditsBody
    <3>4. CASE UNCHANGED ciVars
      BY <3>4 DEF ciVars, vars, prVars
    <3> QED
      BY <3>1, <3>2, <3>3, <3>4 DEF Next
  <2>2. ASSUME NEW h, FailCheck(h) PROVE FALSE
    BY <2>2 DEF FailCheck, UpsertCheckRun, CheckRunName, ReviewCheckName
  <2>3. ReportCheck(p)
    <3>1. pc[p] \in {"fetch", "tool", "check"}
      BY <2>1, WhoWrites DEF ToolStep
    <3>2. CASE pc[p] = "fetch"
      BY <2>1, <2>2, <3>2, WhichStep DEF ToolStep, Fetch
    <3>3. CASE pc[p] = "tool"
      BY <2>1, <2>2, <3>3, WhichStep DEF ToolStep, RunTool, ToolFails, prVars
    <3> QED
      BY <2>1, <3>1, <3>2, <3>3, WhichStep DEF ToolStep
  <2>4. PICK j \in loc[p].res.checks :
          /\ checks' = UpsertCheckRun(j.name, loc[p].head, j.status) \/ UNCHANGED checks
          /\ \/ /\ loc[p].res.checks # {j}
                /\ loc' = [loc EXCEPT ![p].res.checks = @ \ {j}]
             \/ Goto(p, "body")
             \/ Finish(p, "done")
    BY <2>3 DEF ReportCheck
  <2>5. j.name = ReviewCheckName /\ j.status = "failed"
    BY <2>4 DEF UpsertCheckRun
  <2>6. pc[p] = "check" /\ pc[p] \in Working
    BY <2>3 DEF ReportCheck, Working
  <2>7. <<pc[p], loc[p]>>' # <<pc[p], loc[p]>>
    <3>1. CASE Goto(p, "body") \/ Finish(p, "done")
      BY <2>6, <3>1 DEF Goto, Finish, TypeOK, DispatcherTypeOK
    <3>2. CASE loc' = [loc EXCEPT ![p].res.checks = @ \ {j}]
      <4> DEFINE res == [loc[p].res EXCEPT !.checks = loc[p].res.checks \ {j}]
      <4>1. res.checks # loc[p].res.checks
        BY DEF TypeOK, DispatcherTypeOK, Local, Result
      <4>2. loc' = [loc EXCEPT ![p] = [loc[p] EXCEPT !.res = res]]
        BY <3>2
      <4> HIDE DEF res
      <4>3. loc'[p].res = res
        BY <4>2 DEF TypeOK, DispatcherTypeOK, Local
      <4> QED
        BY <4>1, <4>3
    <3> QED
      BY <2>4, <3>1, <3>2
  <2>8. ToolOf[p] = "review" /\ \E c \in loc[p].res.inline : c.sev = "block"
    BY <2>5, <2>6 DEF GateInv
  <2>9. PICK c \in loc[p].res.inline : c.sev = "block"
    BY <2>8
  <2>10. PICK th \in threads : Stands(p, th, c)
    BY <2>6 DEF GateInv
  <2> QED
    BY <2>6, <2>7, <2>8, <2>9, <2>10 DEF Stands
<1> HIDE DEF Shown
<1>4. [][Shown]_ciVars => RedGateHasThread
  BY PTL DEF RedGateHasThread, Shown
<1> QED
  BY <1>1, <1>2, <1>3, <1>4, TypeCorrect, ThreadsStayProper, IdsNameThreads, InTurn,
     FindingsAreKept, PTL DEF Spec

-----------------------------------------------------------------------------
(* No finding has two threads.                                             *)

\* Every normalized title has a word.  One without any (stop words only, a
\* comment that is one code fence) is similar to nothing, itself included: its
\* thread, once resolved, is not recognised, and the finding is posted again.
TitlesHaveWords == \A t \in Titles : tokenize[t] # {}

AllReadBack == \A r \in Runs : store[r].on

\* The steps of a tool that come after its post.
AfterPost == {"record", "resolve", "check", "body"}

\* The store of a tool that has not posted yet knows every thread of the tool;
\* what the tool is about to post has keys of its own.
TwinInv ==
  /\ NoTwinThreads
  /\ \A p \in Procs : pc[p] \in Working \ AfterPost =>
       \A th \in threads : th.tool = ToolOf[p] =>
         \E rec \in store[p[1]].recs : Mirrors(rec, th)
  /\ \A p \in Procs : pc[p] = "post" =>
       /\ \A c \in loc[p].delta, th \in threads : th.sk # StructuralKey(ToolOf[p], c)
       /\ \A c, d \in loc[p].delta :
            StructuralKey(ToolOf[p], c) = StructuralKey(ToolOf[p], d) => c = d

\* A run that has not started has not failed to read the PR back.
IdleOn == \A p \in Procs : pc[p] = "idle" => store[p[1]].on

\* A title with a word is similar to itself.
LEMMA SimilarToSelf ==
  ASSUME NEW t \in Titles, tokenize[t] # {}
  PROVE  SimilarToResolved(t, t)
<1>1. IsFiniteSet(tokenize[t])
  BY TextAssumption
<1>2. Cardinality(tokenize[t]) \in Nat
  BY <1>1, FS_CardinalityType
<1>3. 10 * Cardinality(tokenize[t]) >= 3 * Cardinality(tokenize[t])
  BY <1>2
<1>4. tokenize[t] \cap tokenize[t] = tokenize[t] /\ tokenize[t] \cup tokenize[t] = tokenize[t]
  OBVIOUS
<1> QED
  BY <1>3, <1>4 DEF SimilarToResolved, SimilarAtLeast

\* A key tells tool, file, severity and title.
LEMMA KeyTells ==
  ASSUME ThreadsInv, NEW th \in threads, NEW tool, NEW c, th.sk = StructuralKey(tool, c)
  PROVE  /\ th.tool = tool /\ th.file = c.file /\ th.sev = c.sev
         /\ th.nt = normalizeTitle[c.body]
<1>1. th.sk = [tool |-> th.tool, file |-> th.file, sev |-> th.sev, nt |-> th.nt]
  BY DEF ThreadsInv, ThreadsProper
<1> QED
  BY <1>1 DEF StructuralKey

\* Whether the runs could read the PR back is settled when they start.
LEMMA ReadBackStays ==
  ASSUME TypeOK, IdleOn, [Next]_ciVars, Procs # {}
  PROVE  /\ AllReadBack' => AllReadBack
         /\ IdleOn'
<1>1. ASSUME NEW r \in Runs, StartRun(r)
      PROVE  (AllReadBack' => AllReadBack) /\ IdleOn'
  <2>1. store[r].on
    <3>1. PICK p \in Procs : TRUE
      OBVIOUS
    <3>2. <<r, p[2]>> \in Procs /\ <<r, p[2]>>[1] = r
      BY CIAssumption
    <3> QED
      BY <1>1, <3>2, StartRunIs DEF IdleOn
  <2>2. AllReadBack' => AllReadBack
    BY <1>1, <2>1, StartRunIs DEF AllReadBack
  <2>3. ASSUME NEW p \in Procs, pc'[p] = "idle" PROVE store'[p[1]].on
    BY <1>1, <2>3, StartRunIs, ProcsAreRuns DEF IdleOn
  <2> QED
    BY <2>2, <2>3 DEF IdleOn
<1>2. ASSUME NEW r \in Runs, Cancel(r) PROVE (AllReadBack' => AllReadBack) /\ IdleOn'
  BY <1>2, CancelIs DEF AllReadBack, IdleOn
<1>3. ASSUME NEW p \in Procs, ToolStep(p) PROVE (AllReadBack' => AllReadBack) /\ IdleOn'
  <2>1. pc'[p] # "idle" /\ \A r \in Runs : store'[r].on = store[r].on
    BY <1>3, ToolStepIs, CameFrom
  <2> QED
    BY <1>3, <2>1, ToolStepIs, ProcsAreRuns DEF AllReadBack, IdleOn
<1>4. CASE Author \/ UNCHANGED ciVars
  BY <1>4 DEF Author, ciVars, vars, procVars, AllReadBack, IdleOn
<1> QED
  BY <1>1, <1>2, <1>3, <1>4 DEF Next

\* A new thread of p's tool, while p is at work, is posted by p.
LEMMA PostedByP ==
  ASSUME TypeOK, ThreadsInv, RunsInTurn, [Next]_ciVars,
         NEW p \in Procs, pc[p] \in Working,
         NEW b \in threads', b.tool = ToolOf[p], ~ \E a \in threads : Becomes(a, b)
  PROVE  pc[p] = "post" /\ ToolStep(p)
<1>1. PICK q \in Procs, c \in Comment, x \in BOOLEAN :
        pc[q] = "post" /\ ToolStep(q) /\ b = NewThread(ToolOf[q], c, x)
  BY NextThreads DEF ThreadsInv, ThreadsMove
<1>2. ToolOf[q] = ToolOf[p]
  BY <1>1 DEF NewThread
<1>3. q = p
  BY <1>1, <1>2, OneRunAtWork, ToolTells DEF Working
<1> QED
  BY <1>1, <1>3

\* The second part of TwinInv.
LEMMA ThreadsKnown ==
  ASSUME TypeOK, TypeOK', ThreadsInv, RunsInTurn, TwinInv, AllReadBack', [Next]_ciVars,
         NEW p \in Procs, pc'[p] \in Working \ AfterPost, NEW b \in threads', b.tool = ToolOf[p]
  PROVE  \E rec \in store'[p[1]].recs : Mirrors(rec, b)
<1>0. p[1] \in Runs
  BY ProcsAreRuns
<1>a. pc'[p] = pc[p] => ~(pc[p] = "post" /\ ToolStep(p))
  BY WhichStep, ZenonT(40) DEF ToolStep, PostInline, Goto, TypeOK, DispatcherTypeOK
<1>1. CASE pc[p] \in Working \ AfterPost /\ ~(pc[p] = "post" /\ ToolStep(p))
  <2>1. PICK a \in threads : Becomes(a, b)
    BY <1>1, PostedByP
  <2>2. a.tool = ToolOf[p]
    BY <2>1 DEF Becomes
  <2>3. PICK rec \in store[p[1]].recs : Mirrors(rec, a)
    BY <1>1, <2>2 DEF TwinInv
  <2>4. \E new \in store'[p[1]].recs : SameFinding(rec, new)
    <3>1. ASSUME NEW r \in Runs, StartRun(r) PROVE store'[p[1]] = store[p[1]]
      BY <1>0, <1>1, <3>1, StartRunIs DEF Working
    <3>2. ASSUME NEW r \in Runs, Cancel(r) PROVE store'[p[1]] = store[p[1]]
      BY <3>2, CancelIs
    <3>3. CASE Author \/ UNCHANGED ciVars
      BY <3>3 DEF Author, ciVars, vars, procVars, SameFinding
    <3>4. SameFinding(rec, rec)
      BY DEF SameFinding
    <3>5. ASSUME NEW q \in Procs, ToolStep(q)
          PROVE  \E new \in store'[p[1]].recs : SameFinding(rec, new)
      BY <1>0, <3>5, RecordsStay
    <3> QED
      BY <3>1, <3>2, <3>3, <3>4, <3>5 DEF Next
  <2> QED
    BY <2>1, <2>3, <2>4 DEF Mirrors, SameFinding, Becomes
<1>2. ASSUME NEW r \in Runs, StartRun(r), p[1] = r
      PROVE  \E rec \in store'[p[1]].recs : Mirrors(rec, b)
  <2>1. threads' = threads
    BY <1>2 DEF StartRun, prVars
  <2>2. store'[r].on
    BY DEF AllReadBack
  <2> QED
    BY <1>2, <2>1, <2>2, SeedsMirror
<1>3. ASSUME NEW r \in Runs, StartRun(r), p[1] # r
      PROVE  pc[p] \in Working \ AfterPost /\ ~(pc[p] = "post" /\ ToolStep(p))
  <2>1. UNCHANGED loc /\ pc[p] = pc'[p]
    BY <1>3, StartRunIs
  <2>2. ~(pc[p] = "post" /\ ToolStep(p))
    BY <1>a, <2>1
  <2> QED
    BY <2>1, <2>2
<1>4. ASSUME NEW r \in Runs, Cancel(r)
      PROVE  pc[p] \in Working \ AfterPost /\ ~(pc[p] = "post" /\ ToolStep(p))
  <2>1. pc[p] = pc'[p]
    BY <1>4, CancelIs
  <2>2. ~(pc[p] = "post" /\ ToolStep(p))
    BY <1>a, <2>1
  <2> QED
    BY <2>1, <2>2
<1>5. ASSUME ToolStep(p)
      PROVE  pc[p] \in Working \ AfterPost /\ ~(pc[p] = "post" /\ ToolStep(p))
  <2>1. pc[p] \in Working \ AfterPost
    BY <1>5, ToolStepIs, CameFrom DEF Working, AfterPost
  <2>2. pc[p] # "post"
    <3>1. DispatchStep(p) /\ pc \in [Procs -> PCs]
      BY <1>5 DEF ToolStep, TypeOK, DispatcherTypeOK
    <3>2. pc[p] = "post" => PostInline(p)
      BY <3>1, WhichStep
    <3>3. PostInline(p) => pc'[p] \in AfterPost
      BY <3>1 DEF PostInline, Goto, AfterPost
    <3> QED
      BY <3>2, <3>3
  <2> QED
    BY <2>1, <2>2
<1>6. ASSUME NEW q \in Procs, ToolStep(q), q # p
      PROVE  pc[p] \in Working \ AfterPost /\ ~(pc[p] = "post" /\ ToolStep(p))
  <2>1. pc[p] = pc'[p]
    BY <1>6, ToolStepIs
  <2>2. ~(pc[p] = "post" /\ ToolStep(p))
    BY <1>a, <2>1
  <2> QED
    BY <2>1, <2>2
<1>7. CASE Author \/ UNCHANGED ciVars
  <2>1. pc[p] = pc'[p]
    BY <1>7 DEF Author, ciVars, vars, procVars
  <2>2. ~(pc[p] = "post" /\ ToolStep(p))
    BY <1>a, <2>1
  <2> QED
    BY <1>1, <2>1, <2>2
<1> QED
  BY <1>1, <1>2, <1>3, <1>4, <1>5, <1>6, <1>7 DEF Next

\* The third.
LEMMA DeltaIsNew ==
  ASSUME TypeOK, TypeOK', ThreadsInv, RunsInTurn, TwinInv, AllReadBack, TitlesHaveWords,
         [Next]_ciVars, NEW p \in Procs, pc'[p] = "post"
  PROVE  /\ \A c \in loc'[p].delta, th \in threads' : th.sk # StructuralKey(ToolOf[p], c)
         /\ \A c, d \in loc'[p].delta :
              StructuralKey(ToolOf[p], c) = StructuralKey(ToolOf[p], d) => c = d
<1>1. CASE ToolStep(p)
  <2>1. pc[p] = "filter" /\ FilterInline(p)
    BY <1>1, WhichStep, CameFrom, ToolStepIs
  <2>2. threads' = threads /\ pc[p] \in Working \ AfterPost /\ store[p[1]].on
    BY <2>1, ProcsAreRuns DEF FilterInline, prVars, Working, AfterPost, AllReadBack
  <2>3. ASSUME NEW c \in loc'[p].delta, NEW th \in threads, th.sk = StructuralKey(ToolOf[p], c)
        PROVE  FALSE
    <3>1. /\ th.tool = ToolOf[p] /\ th.file = c.file /\ th.sev = c.sev
          /\ th.nt = normalizeTitle[c.body]
      BY <2>3, KeyTells
    <3>2. PICK rec \in store[p[1]].recs : Mirrors(rec, th)
      BY <2>2, <3>1 DEF TwinInv
    <3>3. ~MemHas(store[p[1]].recs, ToolOf[p], c)
      BY <2>1, <2>2, FilterIs
    <3>4. SameBucket(rec, ToolOf[p], c)
      BY <3>1, <3>2 DEF SameBucket, Mirrors
    <3>5. rec.sk = StructuralKey(ToolOf[p], c) /\ rec.nt = th.nt
      BY <2>3, <3>2 DEF Mirrors
    <3>6. th.nt \in Titles
      BY ThreadTypes DEF Thread
    <3>7. SimilarToResolved(normalizeTitle[c.body], rec.nt)
      BY <3>1, <3>5, <3>6, SimilarToSelf DEF TitlesHaveWords
    <3>8. OpenMatch(rec, ToolOf[p], c) /\ ResolvedMatch(rec, c)
      BY <3>5, <3>7 DEF OpenMatch, ResolvedMatch
    <3> QED
      BY <3>3, <3>4, <3>8 DEF MemHas
  <2> QED
    BY <2>1, <2>2, <2>3, FilterIs
<1>2. CASE pc[p] = "post" /\ loc'[p] = loc[p] /\ ~ToolStep(p)
  <2>1. ASSUME NEW c \in loc[p].delta, NEW b \in threads', b.sk = StructuralKey(ToolOf[p], c)
        PROVE  FALSE
    <3>1. CASE \E a \in threads : Becomes(a, b)
      <4>1. PICK a \in threads : Becomes(a, b)
        BY <3>1
      <4>2. a.sk = StructuralKey(ToolOf[p], c)
        BY <2>1, <4>1 DEF Becomes
      <4>3. \A d \in loc[p].delta, th \in threads : th.sk # StructuralKey(ToolOf[p], d)
        BY <1>2 DEF TwinInv
      <4> QED
        BY <2>1, <4>2, <4>3
    <3>2. CASE ~ \E a \in threads : Becomes(a, b)
      <4>1. PICK q \in Procs, d \in Comment, x \in BOOLEAN : b = NewThread(ToolOf[q], d, x)
        BY <3>2, NextThreads DEF ThreadsInv, ThreadsMove
      <4>2. b.tool = ToolOf[q] /\ b.sk = StructuralKey(ToolOf[q], d)
        BY <4>1 DEF NewThread
      <4>3. b.tool = ToolOf[p]
        BY <2>1, <4>2 DEF StructuralKey
      <4> QED
        BY <1>2, <3>2, <4>3, PostedByP DEF Working
    <3> QED
      BY <3>1, <3>2
  <2> QED
    BY <1>2, <2>1 DEF TwinInv
<1>3. ASSUME NEW q \in Procs, ToolStep(q), q # p PROVE pc[p] = "post" /\ loc'[p] = loc[p]
  BY <1>3, ToolStepIs
<1>4. ASSUME NEW r \in Runs, StartRun(r) PROVE pc[p] = "post" /\ loc'[p] = loc[p]
  BY <1>4, StartRunIs
<1>5. ASSUME NEW r \in Runs, Cancel(r) PROVE pc[p] = "post" /\ loc'[p] = loc[p]
  BY <1>5, CancelIs DEF Working
<1>6. CASE Author \/ UNCHANGED ciVars
  BY <1>1, <1>2, <1>6 DEF Author, ciVars, vars, procVars
<1> QED
  BY <1>1, <1>2, <1>3, <1>4, <1>5, <1>6 DEF Next

\* The first.
LEMMA NoNewTwins ==
  ASSUME TypeOK, ThreadsInv, ThreadsInv', TwinInv, [Next]_ciVars,
         NEW a \in threads', NEW b \in threads', a.sk = b.sk
  PROVE  a = b
<1>0. \A x, y \in threads' : x.id = y.id => x = y
  BY DEF ThreadsInv, ThreadsProper
<1>1. ASSUME NEW x \in threads, Becomes(x, a), NEW y \in threads, Becomes(y, b)
      PROVE  a = b
  <2>1. x = y
    BY <1>1 DEF Becomes, TwinInv, NoTwinThreads
  <2> QED
    BY <1>0, <1>1, <2>1 DEF Becomes
<1>2. ASSUME NEW x \in threads', NEW y \in threads', x.sk = y.sk, x # y,
             ~ \E z \in threads : Becomes(z, y)
      PROVE  FALSE
  <2>1. PICK p \in Procs, c \in Comment, an \in BOOLEAN :
          /\ pc[p] = "post" /\ ToolStep(p) /\ c \in loc[p].delta
          /\ y = NewThread(ToolOf[p], c, an)
    BY <1>2, NextThreads DEF ThreadsInv, ThreadsMove
  <2>2. y.sk = StructuralKey(ToolOf[p], c)
    BY <2>1 DEF NewThread
  <2>3. PICK answer \in PostInlineComments(ToolOf[p], loc[p].delta) :
          threads' = threads \cup answer.created
    BY <2>1, WhichStep DEF ToolStep, PostInline
  <2>4. CASE x \in threads
    BY <1>2, <2>1, <2>2, <2>4 DEF TwinInv
  <2>5. CASE x \in answer.created
    <3>1. PICK d \in loc[p].delta, bn \in BOOLEAN : x = NewThread(ToolOf[p], d, bn)
      BY <2>5, PostAnswer
    <3>2. x.sk = StructuralKey(ToolOf[p], d)
      BY <3>1 DEF NewThread
    <3>3. d = c
      BY <1>2, <2>1, <2>2, <3>2 DEF TwinInv
    <3>4. x.id = y.id
      BY <2>1, <3>1, <3>3 DEF NewThread
    <3> QED
      BY <1>0, <1>2, <3>4
  <2> QED
    BY <1>2, <2>3, <2>4, <2>5
<1> QED
  BY <1>1, <1>2

\* TwinInv holds as long as every run could read the PR back.
ReadBackInv ==
  /\ AllReadBack => TwinInv
  /\ IdleOn
  /\ Procs = {} => threads = {}

THEOREM TwinsNever ==
  ASSUME Overlap = FALSE, TitlesHaveWords
  PROVE  Spec => []ReadBackInv
<1> USE DEF ReadBackInv
<1>1. Init => ReadBackInv
  <2> SUFFICES ASSUME Init PROVE ReadBackInv
    OBVIOUS
  <2>1. threads = {} /\ \A p \in Procs : pc[p] = "idle"
    BY DEF Init, DispatcherInit, PRInit
  <2>2. IdleOn
    BY ProcsAreRuns, CIAssumption DEF Init, IdleOn, EmptyStore
  <2> QED
    BY <2>1, <2>2 DEF TwinInv, NoTwinThreads, Working
<1>2. /\ TypeOK /\ TypeOK' /\ ThreadsInv /\ ThreadsInv' /\ RunsInTurn /\ ReadBackInv
      /\ [Next]_ciVars
      => ReadBackInv'
  <2> SUFFICES ASSUME TypeOK, TypeOK', ThreadsInv, ThreadsInv', RunsInTurn, ReadBackInv,
                      [Next]_ciVars
               PROVE  ReadBackInv'
    OBVIOUS
  <2>1. CASE Procs = {}
    <3>1. threads' = {}
      BY <2>1, NextThreads DEF ThreadsMove, ThreadsInv
    <3> QED
      BY <2>1, <3>1 DEF TwinInv, NoTwinThreads, IdleOn
  <2>2. CASE Procs # {}
    <3>1. IdleOn' /\ (AllReadBack' => AllReadBack)
      BY <2>2, ReadBackStays
    <3>2. ASSUME AllReadBack' PROVE TwinInv'
      <4>1. AllReadBack /\ TwinInv
        BY <3>1, <3>2
      <4>2. NoTwinThreads'
        BY <4>1, NoNewTwins DEF NoTwinThreads
      <4>3. \A p \in Procs : pc'[p] \in Working \ AfterPost =>
              \A th \in threads' : th.tool = ToolOf[p] =>
                \E rec \in store'[p[1]].recs : Mirrors(rec, th)
        BY <3>2, <4>1, ThreadsKnown
      <4>4. \A p \in Procs : pc'[p] = "post" =>
              /\ \A c \in loc'[p].delta, th \in threads' :
                   th.sk # StructuralKey(ToolOf[p], c)
              /\ \A c, d \in loc'[p].delta :
                   StructuralKey(ToolOf[p], c) = StructuralKey(ToolOf[p], d) => c = d
        BY <4>1, DeltaIsNew
      <4> QED
        BY <4>2, <4>3, <4>4 DEF TwinInv
    <3> QED
      BY <2>2, <3>1, <3>2
  <2> QED
    BY <2>1, <2>2
<1> QED
  BY <1>1, <1>2, TypeCorrect, ThreadsStayProper, InTurn, PTL DEF Spec

\* As long as every run could read the PR back, no finding has two threads,
\* whatever else fails and whoever pushes, resolves or cancels.
THEOREM NoDuplicates ==
  ASSUME Overlap = FALSE, TitlesHaveWords
  PROVE  Spec => []NoDuplicateThreads
<1>1. ReadBackInv => NoDuplicateThreads
  BY DEF ReadBackInv, NoDuplicateThreads, AllReadBack, TwinInv
<1> QED
  BY <1>1, TwinsNever, PTL

-----------------------------------------------------------------------------
(* The comment of the last run shows every section.                        *)

\* r is the last run to have started, and none of its tools was cancelled.
Current(r) ==
  /\ \E p \in Procs : p[1] = r /\ pc[p] # "idle"
  /\ \A p \in Procs : p[1] > r => pc[p] = "idle"
  /\ \A p \in Procs : p[1] = r => pc[p] # "killed"

\* A tool of the run will still render all its sections, or has done so.
Pending(r) ==
  \E p \in Procs : p[1] = r /\ (pc[p] = "lock" \/ (pc[p] \in Critical /\ loc[p].secs = store[r].secs))

\* What is rendered under the lock are all the sections, unless a sibling that
\* has written its own since is waiting for the lock.
SectionsInv ==
  /\ \A r \in Runs : Current(r) /\ store[r].secs # NoSections =>
       \A n \in notes : n.live /\ n.id = store[r].sum =>
         n.secs = store[r].secs \/ Pending(r)
  /\ \A p \in Procs : pc[p] \in Critical =>
       \/ loc[p].secs = store[p[1]].secs
       \/ \E q \in Procs : q[1] = p[1] /\ pc[q] = "lock"
  /\ \A p \in Procs : pc[p] = "create" =>
       \A n \in notes : n.id = store[p[1]].sum => ~n.live
  /\ \A p \in Procs : pc[p] = "putid" =>
       /\ loc[p].existing < nextNote
       /\ \A n \in notes : n.id = loc[p].existing => n.secs = loc[p].secs
  /\ \A r \in Runs : store[r].sum < nextNote

\* What a step does to the sections and the comment id of a store.
LEMMA StoreSummary ==
  ASSUME TypeOK, NEW p \in Procs, ToolStep(p), NEW r \in Runs
  PROVE  /\ ~(pc[p] = "section" /\ r = p[1]) => store'[r].secs = store[r].secs
         /\ ~(pc[p] = "putid" /\ r = p[1]) => store'[r].sum = store[r].sum
         /\ pc[p] = "putid" /\ r = p[1] => store'[r].sum = loc[p].existing
<1>0. /\ store \in [Runs -> Store] /\ store[r] \in Store /\ DispatchStep(p)
      /\ StoreOf[p] = p[1] /\ p[1] \in Runs /\ ~StoreFails
  BY CIAssumption, ProcsAreRuns DEF TypeOK, DispatcherTypeOK, ToolStep
<1>1. CASE pc[p] = "section"
  <2>1. PutSection(p)
    BY <1>0, <1>1, WhichStep
  <2> DEFINE s == [store[p[1]] EXCEPT !.secs[ToolOf[p]] = loc[p].head]
  <2>2. store' = [store EXCEPT ![p[1]] = s]
    BY <1>0, <2>1 DEF PutSection
  <2>3. s.sum = store[p[1]].sum
    BY <1>0 DEF Store
  <2> HIDE DEF s
  <2> QED
    BY <1>0, <1>1, <2>2, <2>3
<1>2. CASE pc[p] = "putid"
  <2>1. PutSummaryID(p)
    BY <1>0, <1>2, WhichStep
  <2>2. store' = [store EXCEPT ![p[1]].sum = loc[p].existing]
    BY <1>0, <2>1 DEF PutSummaryID
  <2> QED
    BY <1>0, <1>2, <2>2 DEF Store
<1>3. CASE pc[p] = "record"
  <2>0. RecordFinding(p)
    BY <1>0, <1>3, WhichStep
  <2>1. PICK ref \in loc[p].refs :
          store' = [store EXCEPT ![p[1]].recs = Recorded(p, ref.eid, ref.comment)]
    BY <1>0, <2>0 DEF RecordFinding
  <2> QED
    BY <1>0, <1>3, <2>1 DEF Store
<1>4. CASE pc[p] \notin {"section", "putid", "record"}
  BY <1>0, <1>4, WhoWrites
<1> QED
  BY <1>1, <1>2, <1>3, <1>4

\* The four steps of postSummary that touch the comment.
LEMMA SummarySteps ==
  ASSUME TypeOK, NEW p \in Procs, ToolStep(p)
  PROVE  /\ pc[p] = "lock" =>
              /\ loc'[p].secs = store[p[1]].secs /\ loc'[p].existing = store[p[1]].sum
              /\ pc'[p] = IF store[p[1]].sum # 0 THEN "update" ELSE "create"
              /\ mu[p[1]] = Free /\ UNCHANGED <<notes, nextNote>>
         /\ pc[p] = "update" =>
              \/ /\ pc'[p] = "inline" /\ UNCHANGED nextNote
                 /\ \E n \in notes : \E m :
                      /\ notes' = (notes \ {n}) \cup {m}
                      /\ n.id = loc[p].existing /\ m.id = n.id /\ m.secs = loc[p].secs
              \/ /\ pc'[p] = "create" /\ loc'[p] = loc[p] /\ UNCHANGED <<notes, nextNote>>
                 /\ "update" \notin Faults => \A n \in notes : n.id = loc[p].existing => ~n.live
         /\ pc[p] = "create" =>
              \/ /\ pc'[p] = "putid" /\ nextNote' = nextNote + 1
                 /\ loc'[p].secs = loc[p].secs /\ loc'[p].existing = nextNote
                 /\ \E m : /\ notes' = notes \cup {m} /\ m.id = nextNote /\ m.secs = loc[p].secs
              \/ pc'[p] = "inline" /\ UNCHANGED <<notes, nextNote>>
         /\ pc[p] = "putid" => pc'[p] = "inline" /\ UNCHANGED <<notes, nextNote>>
         /\ pc[p] = "legacy" =>
              /\ pc'[p] = "inline" /\ nextNote' \in {nextNote, nextNote + 1}
              /\ \A n \in notes' \ notes : n.id = nextNote /\ nextNote' = nextNote + 1
<1>0. /\ pc \in [Procs -> PCs] /\ loc \in [Procs -> Local] /\ notes \subseteq Note
      /\ DispatchStep(p) /\ StoreOf[p] = p[1] /\ MuOf[p] = p[1] /\ St(p) = store[p[1]]
      /\ ~StoreFails
  BY CIAssumption, ProcsAreRuns DEF TypeOK, DispatcherTypeOK, PRTypeOK, ToolStep
<1>1. ASSUME pc[p] = "lock"
      PROVE  /\ loc'[p].secs = store[p[1]].secs /\ loc'[p].existing = store[p[1]].sum
             /\ pc'[p] = IF store[p[1]].sum # 0 THEN "update" ELSE "create"
             /\ mu[p[1]] = Free /\ UNCHANGED <<notes, nextNote>>
  <2>1. LockSummary(p)
    BY <1>0, <1>1, WhichStep
  <2>2. /\ loc' = [loc EXCEPT ![p].secs = store[p[1]].secs, ![p].existing = store[p[1]].sum]
        /\ Goto(p, IF store[p[1]].sum # 0 THEN "update" ELSE "create")
        /\ mu[p[1]] = Free /\ UNCHANGED <<notes, nextNote>>
    BY <1>0, <2>1 DEF LockSummary, prVars
  <2> QED
    BY <1>0, <2>2 DEF Goto, Local
<1>2. ASSUME pc[p] = "update"
      PROVE  \/ /\ pc'[p] = "inline" /\ UNCHANGED nextNote
                /\ \E n \in notes : \E m :
                     /\ notes' = (notes \ {n}) \cup {m}
                     /\ n.id = loc[p].existing /\ m.id = n.id /\ m.secs = loc[p].secs
             \/ /\ pc'[p] = "create" /\ loc'[p] = loc[p] /\ UNCHANGED <<notes, nextNote>>
                /\ "update" \notin Faults => \A n \in notes : n.id = loc[p].existing => ~n.live
  <2>1. UpdateSummary(p)
    BY <1>0, <1>2, WhichStep
  <2>2. CASE Goto(p, "create") /\ UNCHANGED <<notes, mu, loc>>
             /\ ("update" \in Faults \/ \A n \in notes : n.id = loc[p].existing => ~n.live)
    BY <1>0, <2>1, <2>2 DEF Goto, UpdateSummary
  <2>3. ASSUME Goto(p, "inline"), NEW n \in notes, n.id = loc[p].existing,
               notes' = (notes \ {n}) \cup
                   {[n EXCEPT !.wrapper = TRUE, !.sha = loc[p].head, !.secs = loc[p].secs]}
        PROVE  /\ pc'[p] = "inline" /\ UNCHANGED nextNote
               /\ \E m : /\ notes' = (notes \ {n}) \cup {m}
                         /\ m.id = n.id /\ m.secs = loc[p].secs
    <3> DEFINE m == [n EXCEPT !.wrapper = TRUE, !.sha = loc[p].head, !.secs = loc[p].secs]
    <3>1. m.id = n.id /\ m.secs = loc[p].secs
      BY <1>0 DEF Note
    <3>2. pc'[p] = "inline" /\ UNCHANGED nextNote
      BY <1>0, <2>1, <2>3 DEF Goto, UpdateSummary
    <3>3. notes' = (notes \ {n}) \cup {m}
      BY <2>3
    <3> HIDE DEF m
    <3> QED
      BY <3>1, <3>2, <3>3
  <2> QED
    BY <2>1, <2>2, <2>3 DEF UpdateSummary
<1>3. ASSUME pc[p] = "create"
      PROVE  \/ /\ pc'[p] = "putid" /\ nextNote' = nextNote + 1
                /\ loc'[p].secs = loc[p].secs /\ loc'[p].existing = nextNote
                /\ \E m : /\ notes' = notes \cup {m} /\ m.id = nextNote /\ m.secs = loc[p].secs
             \/ pc'[p] = "inline" /\ UNCHANGED <<notes, nextNote>>
  <2>1. CreateSummary(p)
    BY <1>0, <1>3, WhichStep
  <2>2. CASE Goto(p, "inline") /\ UNCHANGED <<notes, nextNote>>
    BY <1>0, <2>2 DEF Goto
  <2>3. CASE /\ notes' = notes \cup {[id |-> nextNote, wrapper |-> TRUE, sha |-> loc[p].head,
                                      secs |-> loc[p].secs, live |-> TRUE]}
             /\ nextNote' = nextNote + 1
             /\ loc' = [loc EXCEPT ![p].existing = nextNote]
             /\ Goto(p, "putid")
    <3>1. pc'[p] = "putid" /\ loc'[p].secs = loc[p].secs /\ loc'[p].existing = nextNote
      BY <1>0, <2>3 DEF Goto, Local
    <3> DEFINE m == [id |-> nextNote, wrapper |-> TRUE, sha |-> loc[p].head,
                     secs |-> loc[p].secs, live |-> TRUE]
    <3>2. m.id = nextNote /\ m.secs = loc[p].secs
      OBVIOUS
    <3>3. notes' = notes \cup {m} /\ nextNote' = nextNote + 1
      BY <2>3
    <3> HIDE DEF m
    <3> QED
      BY <3>1, <3>2, <3>3
  <2>4. \/ Goto(p, "inline") /\ UNCHANGED <<notes, nextNote>>
        \/ /\ notes' = notes \cup {[id |-> nextNote, wrapper |-> TRUE, sha |-> loc[p].head,
                                    secs |-> loc[p].secs, live |-> TRUE]}
           /\ nextNote' = nextNote + 1
           /\ loc' = [loc EXCEPT ![p].existing = nextNote]
           /\ Goto(p, "putid")
    BY <2>1 DEF CreateSummary
  <2> QED
    BY <2>2, <2>3, <2>4
<1>4. pc[p] = "putid" => pc'[p] = "inline" /\ UNCHANGED <<notes, nextNote>>
  BY <1>0, WhichStep DEF PutSummaryID, Goto, prVars
<1>5. ASSUME pc[p] = "legacy"
      PROVE  /\ pc'[p] = "inline" /\ nextNote' \in {nextNote, nextNote + 1}
             /\ \A n \in notes' \ notes : n.id = nextNote /\ nextNote' = nextNote + 1
  BY <1>0, <1>5, WhichStep DEF LegacySummary, Goto
<1> QED
  BY <1>1, <1>2, <1>3, <1>4, <1>5

\* Nobody takes the lock or goes on under it while another is in the critical
\* section.
LEMMA Excluded ==
  ASSUME WrapperInv, NEW p \in Procs, ToolStep(p), NEW q \in Procs \ {p}, pc[q] \in Critical
  PROVE  pc[p] \notin Critical \cup {"lock"} /\ q[1] = p[1] /\ pc'[q] = pc[q] /\ loc'[q] = loc[q]
<1>1. /\ RunsInTurn /\ UnderLock /\ TypeOK
      /\ pc[p] \in Working /\ pc'[q] = pc[q] /\ loc'[q] = loc[q]
  BY ToolStepIs DEF WrapperInv
<1>2. q[1] = p[1]
  BY <1>1, OneRunAtWork DEF Critical, Working
<1>3. pc[p] \notin Critical
  BY <1>1, AloneInCritical
<1>4. ASSUME pc[p] = "lock" PROVE FALSE
  <2>1. mu[q[1]] = Free /\ mu[q[1]] = q
    BY <1>1, <1>2, <1>4, SummarySteps DEF UnderLock
  <2> QED
    BY <2>1, DispatcherAssumption
<1> QED
  BY <1>1, <1>2, <1>3, <1>4

\* Outside postSummary the notes only get one that is no run's comment.
LEMMA OtherNotes ==
  ASSUME WrapperInv, NEW p \in Procs, ToolStep(p), pc[p] \notin Critical
  PROVE  /\ \A n \in notes' : n \in notes \/ (n.id = nextNote /\ nextNote' = nextNote + 1)
         /\ nextNote' \in {nextNote, nextNote + 1}
<1>1. CASE pc[p] = "legacy"
  BY <1>1, SummarySteps DEF WrapperInv
<1>2. CASE pc[p] # "legacy"
  BY <1>2, WhoWrites DEF ToolStep, Critical
<1> QED
  BY <1>1, <1>2

\* The only run that can be the last one is the one at work.
LEMMA CurrentIsAtWork ==
  ASSUME WrapperInv, NEW p \in Procs, ToolStep(p), NEW r \in Runs, Current(r)'
  PROVE  r = p[1] /\ Current(r)
<1>1. /\ RunsInTurn /\ pc[p] \in Working /\ pc'[p] # "idle"
      /\ \A q \in Procs \ {p} : pc'[q] = pc[q]
  BY ToolStepIs, CameFrom DEF WrapperInv
<1>2. pc[p] \notin {"idle", "killed"} /\ pc[p] \notin Finished
  BY <1>1 DEF Working, Finished
<1>3. Current(r)
  BY <1>1, <1>2 DEF Current
<1>4. r \in Nat /\ p[1] \in Nat
  BY ProcsAreRuns DEF Runs
<1>5. ~(p[1] > r)
  BY <1>2, <1>3 DEF Current
<1>6. ~(p[1] < r)
  BY <1>1, <1>2, <1>3 DEF Current, RunsInTurn
<1> QED
  BY <1>3, <1>4, <1>5, <1>6

\* The comment of a step in postSummary.
LEMMA CriticalSections ==
  ASSUME WrapperInv, TypeOK', SectionsInv, "update" \notin Faults,
         NEW p \in Procs, ToolStep(p), pc[p] \in Critical,
         NEW n \in notes', n.live, n.id = store'[p[1]].sum,
         store[p[1]].secs # NoSections, Current(p[1])
  PROVE  n.secs = store'[p[1]].secs \/ Pending(p[1])'
<1> DEFINE r == p[1]
<1>0. /\ TypeOK /\ r \in Runs /\ nextNote \in Nat /\ store[r].sum \in Nat
      /\ store'[r].secs = store[r].secs
      /\ pc[p] # "putid" => store'[r].sum = store[r].sum
      /\ \A q \in Procs \ {p} : pc'[q] = pc[q] /\ loc'[q] = loc[q]
  <2>1. TypeOK /\ r \in Runs
    BY ProcsAreRuns DEF WrapperInv
  <2>2. nextNote \in Nat /\ store[r].sum \in Nat
    BY <2>1, CIAssumption DEF TypeOK, DispatcherTypeOK, PRTypeOK, Store
  <2> QED
    BY <2>1, <2>2, ToolStepIs, StoreSummary DEF Critical
<1>1. \/ loc[p].secs = store[r].secs
      \/ \E q \in Procs : q[1] = r /\ pc[q] = "lock" /\ q # p
  BY DEF SectionsInv, Critical
<1>2. ASSUME n.secs = loc[p].secs PROVE n.secs = store'[r].secs \/ Pending(r)'
  BY <1>0, <1>1, <1>2 DEF Pending
<1>3. \A a, b \in notes : a.id = b.id => a = b
  BY DEF WrapperInv, NoteIds
<1>4. ASSUME n \in notes, n.id = store[r].sum,
             pc'[p] \in Critical, loc'[p].secs = loc[p].secs
      PROVE  n.secs = store'[r].secs \/ Pending(r)'
  <2>1. n.secs = store[r].secs \/ Pending(r)
    BY <1>0, <1>4 DEF SectionsInv
  <2>2. ASSUME NEW q \in Procs, q[1] = r,
               pc[q] = "lock" \/ (pc[q] \in Critical /\ loc[q].secs = store[r].secs)
        PROVE  Pending(r)'
    <3>1. CASE q = p
      BY <1>0, <1>4, <2>2, <3>1 DEF Pending, Critical
    <3>2. CASE q # p
      BY <1>0, <2>2, <3>2 DEF Pending
    <3> QED
      BY <3>1, <3>2
  <2> QED
    BY <1>0, <2>1, <2>2 DEF Pending
<1>5. CASE pc[p] = "update"
  <2>1. loc[p].existing = store[r].sum
    BY <1>5 DEF WrapperInv, CriticalKnows
  <2>2. ASSUME NEW a \in notes, NEW m, notes' = (notes \ {a}) \cup {m},
               a.id = loc[p].existing, m.secs = loc[p].secs
        PROVE  n.secs = loc[p].secs
    BY <1>0, <1>3, <1>5, <2>1, <2>2
  <2>3. CASE pc'[p] = "create" /\ loc'[p] = loc[p] /\ UNCHANGED notes
    BY <1>0, <1>4, <1>5, <2>3 DEF Critical
  <2> QED
    BY <1>0, <1>2, <1>5, <2>2, <2>3, SummarySteps
<1>6. CASE pc[p] = "create"
  <2>1. \A a \in notes : a.id = store[r].sum => ~a.live
    BY <1>6 DEF SectionsInv
  <2>2. store[r].sum < nextNote
    BY <1>0 DEF SectionsInv
  <2>3. \A m : m \in notes' => m \in notes \/ m.id = nextNote
    BY <1>0, <1>6, SummarySteps
  <2>4. n \in notes \/ n.id = nextNote
    BY <2>3
  <2>5. n.id # nextNote
    BY <1>0, <1>6, <2>2
  <2> QED
    BY <1>0, <1>6, <2>1, <2>4, <2>5
<1>7. CASE pc[p] = "putid"
  <2>1. n \in notes /\ n.id = loc[p].existing
    BY <1>0, <1>7, SummarySteps, StoreSummary
  <2>2. n.secs = loc[p].secs
    BY <1>7, <2>1 DEF SectionsInv
  <2> QED
    BY <1>2, <2>2
<1> QED
  BY <1>5, <1>6, <1>7 DEF Critical

\* A tool's step keeps the first part.
LEMMA StepShows ==
  ASSUME WrapperInv, TypeOK', SectionsInv, "update" \notin Faults,
         NEW p \in Procs, ToolStep(p),
         NEW r \in Runs, Current(r)', store'[r].secs # NoSections,
         NEW n \in notes', n.live, n.id = store'[r].sum
  PROVE  n.secs = store'[r].secs \/ Pending(r)'
<1>0. /\ r = p[1] /\ Current(r) /\ TypeOK
      /\ \A q \in Procs \ {p} : pc'[q] = pc[q] /\ loc'[q] = loc[q]
  BY CurrentIsAtWork, ToolStepIs DEF WrapperInv
<1>1. CASE pc[p] = "section"
  <2>1. pc'[p] = "lock"
    BY <1>0, <1>1, WhichStep DEF ToolStep, PutSection, Goto, TypeOK, DispatcherTypeOK
  <2> QED
    BY <1>0, <2>1 DEF Pending
<1>2. CASE pc[p] = "lock"
  <2>1. pc'[p] \in Critical /\ loc'[p].secs = store[r].secs /\ store'[r].secs = store[r].secs
    BY <1>0, <1>2, SummarySteps, StoreSummary DEF Critical
  <2> QED
    BY <1>0, <2>1 DEF Pending
<1>3. CASE pc[p] \in Critical
  <2>1. store'[r].secs = store[r].secs
    BY <1>0, <1>3, StoreSummary DEF Critical
  <2> QED
    BY <1>0, <1>3, <2>1, CriticalSections
<1>4. CASE pc[p] \notin Critical \cup {"section", "lock"}
  <2>1. store'[r].secs = store[r].secs /\ store'[r].sum = store[r].sum
    BY <1>0, <1>4, StoreSummary DEF Critical
  <2>2. n \in notes
    <3>1. store[r].sum < nextNote
      BY DEF SectionsInv
    <3>2. nextNote \in Nat
      BY <1>0 DEF TypeOK, DispatcherTypeOK, PRTypeOK
    <3>3. n.id # nextNote
      BY <2>1, <3>1, <3>2
    <3> QED
      BY <1>4, <3>3, OtherNotes
  <2>3. n.secs = store[r].secs \/ Pending(r)
    BY <1>0, <2>1, <2>2 DEF SectionsInv
  <2>4. Pending(r) => Pending(r)'
    BY <1>0, <1>4, <2>1 DEF Pending
  <2> QED
    BY <2>1, <2>3, <2>4
<1> QED
  BY <1>1, <1>2, <1>3, <1>4

\* It keeps the others.
LEMMA StepKeepsFresh ==
  ASSUME WrapperInv, TypeOK', SectionsInv, NEW p \in Procs, ToolStep(p),
         NEW q \in Procs, pc'[q] \in Critical
  PROVE  \/ loc'[q].secs = store'[q[1]].secs
         \/ \E x \in Procs : x[1] = q[1] /\ pc'[x] = "lock"
<1>0. /\ TypeOK /\ q[1] \in Runs
      /\ \A x \in Procs \ {p} : pc'[x] = pc[x] /\ loc'[x] = loc[x]
  BY ToolStepIs, ProcsAreRuns DEF WrapperInv
<1>1. CASE q = p /\ pc[p] = "lock"
  BY <1>0, <1>1, SummarySteps, StoreSummary
<1>2. CASE q = p /\ pc[p] # "lock"
  <2>1. pc[p] \in {"update", "create"} /\ loc'[p].secs = loc[p].secs
    BY <1>0, <1>2, CameFrom, ToolStepIs, SummarySteps DEF Critical
  <2>2. store'[q[1]].secs = store[q[1]].secs
    BY <1>0, <1>2, <2>1, StoreSummary
  <2>3. \/ loc[p].secs = store[p[1]].secs
        \/ \E x \in Procs : x[1] = p[1] /\ pc[x] = "lock" /\ x # p
    BY <2>1 DEF SectionsInv, Critical
  <2> QED
    BY <1>0, <1>2, <2>1, <2>2, <2>3
<1>3. CASE q # p
  <2>1. pc[q] \in Critical /\ loc'[q] = loc[q]
    BY <1>0, <1>3
  <2>2. pc[p] \notin Critical \cup {"lock"} /\ q[1] = p[1]
    BY <1>3, <2>1, Excluded
  <2>3. CASE pc[p] = "section"
    <3>1. pc'[p] = "lock"
      BY <1>0, <2>3, WhichStep DEF ToolStep, PutSection, Goto, TypeOK, DispatcherTypeOK
    <3> QED
      BY <2>2, <3>1
  <2>4. CASE pc[p] # "section"
    <3>1. store'[q[1]].secs = store[q[1]].secs
      BY <1>0, <2>4, StoreSummary
    <3>2. \/ loc[q].secs = store[q[1]].secs
          \/ \E x \in Procs : x[1] = q[1] /\ pc[x] = "lock" /\ x # p
      BY <2>1, <2>2 DEF SectionsInv
    <3> QED
      BY <1>0, <2>1, <3>1, <3>2
  <2> QED
    BY <2>3, <2>4
<1> QED
  BY <1>1, <1>2, <1>3

LEMMA StepKeepsIds ==
  ASSUME WrapperInv, TypeOK', SectionsInv, "update" \notin Faults, NEW p \in Procs, ToolStep(p)
  PROVE  /\ \A q \in Procs : pc'[q] = "create" =>
              \A n \in notes' : n.id = store'[q[1]].sum => ~n.live
         /\ \A q \in Procs : pc'[q] = "putid" =>
              /\ loc'[q].existing < nextNote'
              /\ \A n \in notes' : n.id = loc'[q].existing => n.secs = loc'[q].secs
         /\ \A r \in Runs : store'[r].sum < nextNote'
<1>0. /\ TypeOK /\ nextNote \in Nat /\ p[1] \in Runs
      /\ \A r \in Runs : store[r].sum \in Nat
      /\ \A q \in Procs : loc[q].existing \in Nat /\ q[1] \in Runs
      /\ \A n \in notes : n.id \in Nat \ {0} /\ n.id < nextNote
      /\ \A x \in Procs \ {p} : pc'[x] = pc[x] /\ loc'[x] = loc[x]
  <2>1. TypeOK /\ NoteIds /\ p[1] \in Runs
    BY ProcsAreRuns DEF WrapperInv
  <2>2. nextNote \in Nat /\ \A n \in notes : n.id \in Nat \ {0}
    BY <2>1 DEF TypeOK, DispatcherTypeOK, PRTypeOK, Note
  <2>3. \A r \in Runs : store[r].sum \in Nat
    BY <2>1, CIAssumption DEF TypeOK, DispatcherTypeOK, Store
  <2>4. \A q \in Procs : loc[q].existing \in Nat
    BY <2>1 DEF TypeOK, DispatcherTypeOK, Local
  <2> QED
    BY <2>1, <2>2, <2>3, <2>4, ToolStepIs, ProcsAreRuns DEF NoteIds
<1>1. nextNote' \in {nextNote, nextNote + 1}
  BY <1>0, OtherNotes, SummarySteps DEF Critical
<1>2. ASSUME NEW r \in Runs PROVE store'[r].sum < nextNote'
  <2>1. store[r].sum < nextNote /\ (pc[p] = "putid" => loc[p].existing < nextNote)
    BY DEF SectionsInv
  <2>2. store'[r].sum = store[r].sum \/ (pc[p] = "putid" /\ store'[r].sum = loc[p].existing)
    BY <1>0, StoreSummary
  <2> QED
    BY <1>0, <1>1, <2>1, <2>2
<1>3. ASSUME NEW q \in Procs, pc'[q] = "putid"
      PROVE  /\ loc'[q].existing < nextNote'
             /\ \A n \in notes' : n.id = loc'[q].existing => n.secs = loc'[q].secs
  <2>1. CASE q = p
    <3>1. pc[p] = "create"
      BY <1>0, <1>3, <2>1, CameFrom, ToolStepIs
    <3>2. PICK m : /\ nextNote' = nextNote + 1
                   /\ loc'[p].secs = loc[p].secs /\ loc'[p].existing = nextNote
                   /\ notes' = notes \cup {m} /\ m.secs = loc[p].secs
      BY <1>0, <1>3, <2>1, <3>1, SummarySteps
    <3>3. \A n \in notes : n.id # nextNote
      BY <1>0
    <3>4. nextNote < nextNote + 1
      BY <1>0
    <3> QED
      BY <2>1, <3>2, <3>3, <3>4
  <2>2. CASE q # p
    <3>1. pc[q] = "putid" /\ loc'[q] = loc[q]
      BY <1>0, <1>3, <2>2
    <3>2. pc[p] \notin Critical
      BY <2>2, <3>1, Excluded DEF Critical
    <3>3. loc[q].existing < nextNote
          /\ \A n \in notes : n.id = loc[q].existing => n.secs = loc[q].secs
      BY <3>1 DEF SectionsInv
    <3>4. loc[q].existing # nextNote /\ loc[q].existing < nextNote'
      BY <1>0, <1>1, <3>3
    <3> QED
      BY <3>1, <3>2, <3>3, <3>4, OtherNotes
  <2> QED
    BY <2>1, <2>2
<1>4. ASSUME NEW q \in Procs, pc'[q] = "create", NEW n \in notes', n.id = store'[q[1]].sum
      PROVE  ~n.live
  <2>1. CASE q = p /\ pc[p] = "lock"
    <3>1. store[p[1]].sum = 0 /\ notes' = notes
      BY <1>0, <1>4, <2>1, SummarySteps
    <3>2. store'[p[1]].sum = store[p[1]].sum
      BY <1>0, <2>1, StoreSummary
    <3> QED
      BY <1>0, <1>4, <2>1, <3>1, <3>2
  <2>2. CASE q = p /\ pc[p] = "update"
    <3>1. notes' = notes /\ \A x \in notes : x.id = loc[p].existing => ~x.live
      BY <1>0, <1>4, <2>2, SummarySteps
    <3>2. store'[p[1]].sum = store[p[1]].sum /\ loc[p].existing = store[p[1]].sum
      BY <1>0, <2>2, StoreSummary DEF WrapperInv, CriticalKnows
    <3> QED
      BY <1>4, <2>2, <3>1, <3>2
  <2>3. CASE q # p
    <3>1. pc[q] = "create"
      BY <1>0, <1>4, <2>3
    <3>2. pc[p] \notin Critical
      BY <2>3, <3>1, Excluded DEF Critical
    <3>3. store'[q[1]].sum = store[q[1]].sum
      BY <1>0, <3>2, StoreSummary DEF Critical
    <3>4. n.id # nextNote
      <4>1. store[q[1]].sum < nextNote /\ store[q[1]].sum \in Nat
        BY <1>0 DEF SectionsInv
      <4> QED
        BY <1>0, <1>4, <3>3, <4>1
    <3>5. n \in notes
      BY <3>2, <3>4, OtherNotes
    <3> QED
      BY <1>4, <3>1, <3>3, <3>5 DEF SectionsInv
  <2> QED
    BY <1>0, <1>4, <2>1, <2>2, <2>3, CameFrom, ToolStepIs
<1> QED
  BY <1>2, <1>3, <1>4

\* A run that starts has no sections yet, and a comment id that exists or none.
LEMMA StartRunKeepsSections ==
  ASSUME WrapperInv, SectionsInv, NEW r \in Runs, StartRun(r)
  PROVE  SectionsInv'
<1>0. /\ TypeOK /\ UNCHANGED <<notes, nextNote, loc>>
      /\ \A p \in Procs : p[1] = r => pc'[p] = "fetch"
      /\ \A p \in Procs : p[1] # r => pc'[p] = pc[p]
      /\ \A q \in Runs : q # r => store'[q] = store[q]
      /\ store'[r] \in {PriorStore(ListCadooArtifacts), NoStore}
      /\ "fetch" \notin Critical
  BY StartRunIs DEF WrapperInv, prVars, Critical
<1>1. store'[r].secs = NoSections
  BY <1>0 DEF PriorStore, NoStore, EmptyStore
<1>2. store'[r].sum < nextNote
  <2>1. nextNote \in Nat \ {0}
    BY <1>0 DEF TypeOK, DispatcherTypeOK, PRTypeOK
  <2>2. ASSUME PickWrapper # {} PROVE Picked.id < nextNote
    <3>1. Picked \in notes
      BY <2>2 DEF Picked, PickWrapper, Wrappers
    <3> QED
      BY <3>1 DEF WrapperInv, NoteIds
  <2>3. store'[r].sum = 0 \/ (PickWrapper # {} /\ store'[r].sum = Picked.id)
    BY <1>0 DEF PriorStore, ListCadooArtifacts, NoStore, EmptyStore
  <2>4. 0 < nextNote
    BY <2>1
  <2> QED
    BY <2>2, <2>3, <2>4
<1>3. ASSUME NEW q \in Runs, Current(q)', store'[q].secs # NoSections,
             NEW n \in notes, n.live, n.id = store'[q].sum
      PROVE  n.secs = store'[q].secs \/ Pending(q)'
  <2>1. q # r /\ store'[q] = store[q]
    BY <1>0, <1>1, <1>3
  <2>2. Current(q)
    <3>1. ASSUME NEW p \in Procs, p[1] > q PROVE pc[p] = "idle"
      BY <1>0, <1>3, <3>1 DEF Current
    <3>2. \A p \in Procs : p[1] = q => pc'[p] = pc[p]
      BY <1>0, <2>1
    <3> QED
      BY <1>3, <3>1, <3>2 DEF Current
  <2>3. n.secs = store[q].secs \/ Pending(q)
    BY <1>3, <2>1, <2>2 DEF SectionsInv
  <2>4. Pending(q) => Pending(q)'
    BY <1>0, <2>1 DEF Pending
  <2> QED
    BY <2>1, <2>3, <2>4
<1>4. ASSUME NEW p \in Procs, pc'[p] \in Critical
      PROVE  pc[p] = pc'[p] /\ store'[p[1]] = store[p[1]] /\ p[1] # r
  BY <1>0, <1>4, ProcsAreRuns
<1>5. ASSUME NEW p \in Procs, pc'[p] \in Critical
      PROVE  \/ loc[p].secs = store'[p[1]].secs
             \/ \E q \in Procs : q[1] = p[1] /\ pc'[q] = "lock"
  BY <1>0, <1>4, <1>5 DEF SectionsInv
<1>6. ASSUME NEW p \in Procs, pc'[p] = "create", NEW n \in notes, n.id = store'[p[1]].sum
      PROVE  ~n.live
  BY <1>4, <1>6 DEF SectionsInv, Critical
<1>7. ASSUME NEW p \in Procs, pc'[p] = "putid"
      PROVE  /\ loc[p].existing < nextNote
             /\ \A n \in notes : n.id = loc[p].existing => n.secs = loc[p].secs
  BY <1>4, <1>7 DEF SectionsInv, Critical
<1>8. \A q \in Runs : store'[q].sum < nextNote
  BY <1>0, <1>2 DEF SectionsInv
<1> QED
  BY <1>0, <1>3, <1>5, <1>6, <1>7, <1>8 DEF SectionsInv

\* A cancelled run is no longer one whose comment must be complete.
LEMMA CancelKeepsSections ==
  ASSUME WrapperInv, SectionsInv, NEW r \in Runs, Cancel(r)
  PROVE  SectionsInv'
<1>0. /\ UNCHANGED <<notes, nextNote, store>>
      /\ \A p \in Procs : p[1] = r => pc'[p] \notin Working
      /\ \A p \in Procs : p[1] # r => pc'[p] = pc[p] /\ loc'[p] = loc[p]
      /\ \A p \in Procs : p[1] = r => pc'[p] = IF pc[p] \in Working THEN "killed" ELSE pc[p]
      /\ Critical \subseteq Working /\ "lock" \in Working
  BY CancelIs DEF Cancel, prVars, Critical, Working, WrapperInv
<1>1. ASSUME NEW q \in Runs, Current(q)', store[q].secs # NoSections,
             NEW n \in notes, n.live, n.id = store[q].sum
      PROVE  n.secs = store[q].secs \/ Pending(q)'
  <2>1. CASE q # r
    <3>1. Current(q)
      <4>1. ASSUME NEW p \in Procs, p[1] > q PROVE pc[p] = "idle"
        <5>1. pc'[p] = "idle"
          BY <1>1, <4>1 DEF Current
        <5> QED
          BY <1>0, <5>1
      <4> QED
        BY <1>0, <1>1, <2>1, <4>1 DEF Current
    <3>2. Pending(q) => Pending(q)'
      BY <1>0, <2>1 DEF Pending
    <3> QED
      BY <1>1, <3>1, <3>2 DEF SectionsInv
  <2>2. CASE q = r
    <3>1. \A p \in Procs : p[1] = r => pc'[p] = pc[p] /\ pc[p] \notin Working
      BY <1>0, <1>1, <2>2 DEF Current
    <3>2. Current(r)
      <4>1. ASSUME NEW p \in Procs, p[1] > r PROVE pc[p] = "idle"
        <5>1. p[1] # r
          <6>1. r \in Nat
            BY DEF Runs
          <6> QED
            BY <4>1, <6>1
        <5> QED
          BY <1>0, <1>1, <2>2, <4>1, <5>1 DEF Current
      <4> QED
        BY <1>1, <2>2, <3>1, <4>1 DEF Current
    <3>3. ~Pending(r)
      BY <1>0, <3>1 DEF Pending
    <3> QED
      BY <1>1, <2>2, <3>2, <3>3 DEF SectionsInv
  <2> QED
    BY <2>1, <2>2
<1>2. ASSUME NEW p \in Procs, pc'[p] \in Critical
      PROVE  pc[p] = pc'[p] /\ loc'[p] = loc[p] /\ p[1] # r
  BY <1>0, <1>2
<1>3. ASSUME NEW p \in Procs, pc'[p] \in Critical
      PROVE  \/ loc'[p].secs = store[p[1]].secs
             \/ \E q \in Procs : q[1] = p[1] /\ pc'[q] = "lock"
  BY <1>0, <1>2, <1>3 DEF SectionsInv
<1>4. ASSUME NEW p \in Procs, pc'[p] = "create", NEW n \in notes, n.id = store[p[1]].sum
      PROVE  ~n.live
  BY <1>2, <1>4 DEF SectionsInv, Critical
<1>5. ASSUME NEW p \in Procs, pc'[p] = "putid"
      PROVE  /\ loc'[p].existing < nextNote
             /\ \A n \in notes : n.id = loc'[p].existing => n.secs = loc'[p].secs
  BY <1>2, <1>5 DEF SectionsInv, Critical
<1> QED
  BY <1>0, <1>1, <1>3, <1>4, <1>5 DEF SectionsInv

\* The author may delete the comment, not edit it.
LEMMA AuthorKeepsSections ==
  ASSUME WrapperInv, SectionsInv, Author \/ UNCHANGED ciVars
  PROVE  SectionsInv'
<1>1. UNCHANGED <<store, pc, loc>> /\ nextNote' = nextNote
  BY DEF Author, Push, UserResolves, UserDeletesNote, UserEditsBody, ciVars, vars, prVars,
         procVars
<1>2. \A n \in notes' : \E m \in notes : m.id = n.id /\ m.secs = n.secs /\ (n.live => m.live)
  <2>1. CASE UNCHANGED notes
    BY <2>1
  <2>2. CASE UserDeletesNote
    <3>1. PICK m \in notes : notes' = (notes \ {m}) \cup {[m EXCEPT !.live = FALSE]}
      BY <2>2 DEF UserDeletesNote
    <3>2. m \in Note
      BY DEF WrapperInv, TypeOK, DispatcherTypeOK, PRTypeOK
    <3>3. /\ [m EXCEPT !.live = FALSE].id = m.id /\ [m EXCEPT !.live = FALSE].secs = m.secs
          /\ ~[m EXCEPT !.live = FALSE].live
      BY <3>2 DEF Note
    <3> QED
      BY <3>1, <3>3
  <2> QED
    BY <2>1, <2>2 DEF Author, Push, UserResolves, UserEditsBody, ciVars, vars, prVars
<1>3. \A r \in Runs : (Current(r)' => Current(r)) /\ (Pending(r) => Pending(r)')
  BY <1>1 DEF Current, Pending
<1>4. ASSUME NEW r \in Runs, Current(r)', store[r].secs # NoSections,
             NEW n \in notes', n.live, n.id = store[r].sum
      PROVE  n.secs = store[r].secs \/ Pending(r)'
  <2>1. PICK m \in notes : m.id = n.id /\ m.secs = n.secs /\ m.live
    BY <1>2, <1>4
  <2> QED
    BY <1>3, <1>4, <2>1 DEF SectionsInv
<1>5. ASSUME NEW p \in Procs, pc[p] = "create", NEW n \in notes', n.id = store[p[1]].sum
      PROVE  ~n.live
  <2>1. PICK m \in notes : m.id = n.id /\ (n.live => m.live)
    BY <1>2
  <2> QED
    BY <1>5, <2>1 DEF SectionsInv
<1>6. ASSUME NEW p \in Procs, pc[p] = "putid"
      PROVE  /\ loc[p].existing < nextNote
             /\ \A n \in notes' : n.id = loc[p].existing => n.secs = loc[p].secs
  BY <1>2, <1>6 DEF SectionsInv
<1>7. /\ \A p \in Procs : pc[p] \in Critical =>
           \/ loc[p].secs = store[p[1]].secs
           \/ \E q \in Procs : q[1] = p[1] /\ pc[q] = "lock"
      /\ \A r \in Runs : store[r].sum < nextNote
  BY DEF SectionsInv
<1> QED
  BY <1>1, <1>4, <1>5, <1>6, <1>7 DEF SectionsInv

\* "One comment, all tools": once the last run is over, and none of its tools
\* was cancelled, the comment it wrote shows the section of every tool that
\* produced one, whatever order the tools put their sections and took the lock
\* in, whichever of them failed, and even if the comment was deleted meanwhile.
THEOREM AllSectionsShown ==
  ASSUME Overlap = FALSE, "update" \notin Faults
  PROVE  Spec => []WrapperShowsAllSections
<1>1. Init => SectionsInv
  <2> SUFFICES ASSUME Init PROVE SectionsInv
    OBVIOUS
  <2>1. /\ notes = {} /\ nextNote = 1 /\ \A p \in Procs : pc[p] = "idle"
        /\ store = [r \in Runs |-> EmptyStore]
    BY CIAssumption DEF Init, DispatcherInit, PRInit
  <2>2. \A r \in Runs : store[r].sum < nextNote
    BY <2>1 DEF EmptyStore
  <2> QED
    BY <2>1, <2>2 DEF SectionsInv, Critical
<1>2. WrapperInv /\ TypeOK' /\ SectionsInv /\ [Next]_ciVars => SectionsInv'
  <2> SUFFICES ASSUME WrapperInv, TypeOK', SectionsInv, [Next]_ciVars PROVE SectionsInv'
    OBVIOUS
  <2>1. ASSUME NEW p \in Procs, ToolStep(p) PROVE SectionsInv'
    BY <2>1, StepShows, StepKeepsFresh, StepKeepsIds DEF SectionsInv
  <2> QED
    BY <2>1, StartRunKeepsSections, CancelKeepsSections, AuthorKeepsSections DEF Next
<1>3. WrapperInv /\ SectionsInv => WrapperShowsAllSections
  <2> SUFFICES ASSUME WrapperInv, SectionsInv, NEW r \in Runs, NEW n \in notes,
                      RunOver(r), \A t \in Tools : pc[<<r, t>>] # "killed",
                      \A q \in Runs : q > r => ~Started(q),
                      store[r].secs # NoSections, n.live, n.id = store[r].sum
               PROVE  n.secs = store[r].secs
    BY DEF WrapperShowsAllSections
  <2>1. \A p \in Procs : p[1] \in Runs /\ p[2] \in Tools /\ p = <<p[1], p[2]>>
    BY CIAssumption
  <2>2. \A p \in Procs : p[1] = r => pc[p] \in Finished /\ pc[p] # "killed"
    BY <2>1 DEF RunOver
  <2>3. \A p \in Procs : p[1] > r => pc[p] = "idle"
    BY <2>1 DEF Started
  <2>4. \E p \in Procs : p[1] = r
    <3>1. store[r].secs \in [Tools -> Nat]
      BY CIAssumption DEF WrapperInv, TypeOK, DispatcherTypeOK, Store
    <3>2. PICK t \in Tools : TRUE
      BY <3>1 DEF NoSections
    <3>3. <<r, t>> \in Procs /\ <<r, t>>[1] = r
      BY CIAssumption
    <3> QED
      BY <3>3
  <2>5. Current(r)
    BY <2>2, <2>3, <2>4 DEF Current, Finished
  <2>6. ~Pending(r)
    BY <2>2 DEF Pending, Critical, Finished
  <2> QED
    BY <2>5, <2>6 DEF SectionsInv
<1> QED
  BY <1>1, <1>2, <1>3, WrapperIsKept, TypeCorrect, PTL DEF Spec

-----------------------------------------------------------------------------
(* The promise of FindingsBoard.                                           *)

\* No run fails to read the PR back, when reading it back does not fail.
THEOREM AlwaysReadBack ==
  ASSUME "readback" \notin Faults
  PROVE  Spec => []AllReadBack
<1>1. Init => AllReadBack
  BY CIAssumption DEF Init, AllReadBack, EmptyStore
<1>2. TypeOK /\ AllReadBack /\ [Next]_ciVars => AllReadBack'
  <2> SUFFICES ASSUME TypeOK, AllReadBack, [Next]_ciVars PROVE AllReadBack'
    OBVIOUS
  <2>1. ASSUME NEW r \in Runs, StartRun(r) PROVE AllReadBack'
    <3>1. store' = [store EXCEPT ![r] = PriorStore(ListCadooArtifacts)]
      BY <2>1 DEF StartRun
    <3>2. PriorStore(ListCadooArtifacts).on = TRUE
      BY DEF PriorStore
    <3>3. DOMAIN store = Runs
      BY CIAssumption DEF TypeOK, DispatcherTypeOK
    <3> QED
      BY <3>1, <3>2, <3>3 DEF AllReadBack
  <2>2. ASSUME NEW p \in Procs, ToolStep(p) PROVE AllReadBack'
    BY <2>2, ToolStepIs DEF AllReadBack
  <2>3. CASE (\E r \in Runs : Cancel(r)) \/ Author \/ UNCHANGED ciVars
    BY <2>3 DEF Cancel, Author, procVars, ciVars, vars, AllReadBack
  <2> QED
    BY <2>1, <2>2, <2>3 DEF Next
<1> QED
  BY <1>1, <1>2, TypeCorrect, PTL DEF Spec

\* What a tool is about to post is what it reported.
DeltaInv == \A p \in Procs : pc[p] = "post" => loc[p].delta \subseteq loc[p].res.inline

THEOREM DeltaIsReported == Spec => []DeltaInv
<1>1. Init => DeltaInv
  BY DEF Init, DispatcherInit, DeltaInv
<1>2. TypeOK /\ DeltaInv /\ [Next]_ciVars => DeltaInv'
  <2> SUFFICES ASSUME TypeOK, DeltaInv, [Next]_ciVars, NEW p \in Procs, pc'[p] = "post"
               PROVE  loc'[p].delta \subseteq loc'[p].res.inline
    BY DEF DeltaInv
  <2>1. CASE ToolStep(p)
    <3>1. pc[p] = "filter" /\ FilterInline(p) /\ DispatchStep(p) /\ DispatcherTypeOK
      BY <2>1, WhichStep, CameFrom, ToolStepIs
    <3>2. loc'[p].delta \subseteq loc[p].res.inline
      BY <3>1, FilterIs
    <3>3. loc'[p].res.inline = loc[p].res.inline
      BY <3>1, LocalsKept DEF Working
    <3> QED
      BY <3>2, <3>3
  <2>2. ASSUME pc[p] = "post", loc'[p] = loc[p] PROVE loc'[p].delta \subseteq loc'[p].res.inline
    BY <2>2 DEF DeltaInv
  <2>3. ASSUME NEW q \in Procs, ToolStep(q), q # p PROVE pc[p] = "post" /\ loc'[p] = loc[p]
    BY <2>3, ToolStepIs
  <2>4. ASSUME NEW r \in Runs, StartRun(r) PROVE pc[p] = "post" /\ loc'[p] = loc[p]
    BY <2>4, StartRunIs
  <2>5. ASSUME NEW r \in Runs, Cancel(r) PROVE pc[p] = "post" /\ loc'[p] = loc[p]
    BY <2>5, CancelIs DEF Working
  <2>6. CASE Author \/ UNCHANGED ciVars
    BY <2>2, <2>6 DEF Author, ciVars, vars, procVars
  <2> QED
    BY <2>1, <2>2, <2>3, <2>4, <2>5, <2>6 DEF Next
<1> QED
  BY <1>1, <1>2, TypeCorrect, PTL DEF Spec

\* A thread that auto-resolution finds is of the tool and not reported.
LEMMA StaleIsOwn ==
  ASSUME ThreadsInv, IdsInv, NEW p \in Procs, NEW f \in StalePriors(p),
         NEW th \in threads, th.id = f.eid
  PROVE  th.tool = ToolOf[p] /\ th.sk \notin Reports(p)
<1>1. /\ f \in loc[p].prior /\ f.tool = ToolOf[p] /\ f.eid # NoId
      /\ \A c \in loc[p].res.inline : StructuralKey(ToolOf[p], c) # PriorKey(f)
  BY DEF StalePriors
<1>2. th.tool = f.tool /\ th.sk = f.sk
  BY <1>1 DEF IdsInv, Names
<1>3. th.sk # NoKey
  <2>1. th.sk = [tool |-> th.tool, file |-> th.file, sev |-> th.sev, nt |-> th.nt]
    BY DEF ThreadsInv, ThreadsProper
  <2> QED
    BY <2>1 DEF NoKey
<1> QED
  BY <1>1, <1>2, <1>3 DEF PriorKey, Reports

\* A push and a reviewer, on the board.
LEMMA AuthorKeepsBoard ==
  ASSUME TypeOK, ThreadsProper, NoTwinThreads, NoTwinThreads', Author
  PROVE  [Board!BoardNext]_(Board!boardVars)
<1>1. FoundNow' = FoundNow
  BY DEF Author, procVars, FoundNow, Answered, Reports
<1>2. OneEach(threads) /\ OneEach(threads')
  BY DEF NoTwinThreads, OneEach
<1>3. threads \subseteq Thread
  BY ThreadTypes
<1>4. CASE Push(MaxHead)
  BY <1>1, <1>4, PushShown, NothingShown DEF TypeOK, DispatcherTypeOK
<1>5. CASE UserResolves
  <2>1. PICK x \in threads :
          /\ x.anchored /\ x.state = "open"
          /\ threads' = (threads \ {x}) \cup {[x EXCEPT !.state = "user"]}
    BY <1>5 DEF UserResolves
  <2> DEFINE y == [x EXCEPT !.state = "user"]
  <2>2. y.sk = x.sk /\ y.state = "user"
    BY <1>3 DEF Thread
  <2> HIDE DEF y
  <2>3. threads' = (threads \ {x}) \cup {y}
    BY <2>1 DEF y
  <2>4. OneMoves(threads, threads', x, "user")
    BY <1>2, <2>2, <2>3 DEF OneMoves
  <2>5. \A k : StateIn(threads', k) = IF k = x.sk THEN "user" ELSE StateIn(threads, k)
    BY <2>4, OneChanges
  <2>6. x.sk \in Keys /\ StateIn(threads, x.sk) = "open"
    BY <1>2, <1>3, <2>1, StateInIs DEF Thread
  <2>7. BoardNow' = [BoardNow EXCEPT ![x.sk] = "user"] /\ BoardNow[x.sk] = "open"
    BY <2>5, <2>6, BoardIs
  <2> QED
    BY <1>1, <2>6, <2>7, ReviewerShown
<1>6. CASE UNCHANGED threads
  <2>1. BoardNow' = BoardNow
    BY <1>6, BoardIs
  <2> QED
    BY <1>1, <2>1, NothingShown
<1> QED
  BY <1>4, <1>5, <1>6 DEF Author, UserDeletesNote, UserEditsBody

\* A run that starts shows nothing; one that is cancelled ends its jobs.
LEMMA RunsKeepBoard ==
  ASSUME TypeOK, NEW r \in Runs, StartRun(r) \/ Cancel(r)
  PROVE  [Board!BoardNext]_(Board!boardVars)
<1>1. UNCHANGED threads
  BY DEF StartRun, Cancel, prVars
<1>2. BoardNow' = BoardNow
  BY <1>1, BoardIs
<1>3. CASE StartRun(r)
  <2>1. \A p \in Procs : /\ p \in Answered' <=> p \in Answered
                         /\ Reports(p)' = Reports(p)
    BY <1>3, StartRunIs DEF Answered, Reports, Working
  <2>2. Answered' = Answered
    BY <2>1 DEF Answered
  <2>3. FoundNow' = FoundNow
    BY <2>1, <2>2, FoundIs DEF Answered
  <2> QED
    BY <1>2, <2>3, NothingShown
<1>4. CASE Cancel(r)
  <2> DEFINE P == {p \in Answered : p[1] = r}
  <2>1. \A p \in Procs : /\ p \in Answered' <=> p \in Answered \ P
                         /\ p \in Answered \ P => Reports(p)' = Reports(p)
    <3>1. \A p \in Procs :
            /\ pc'[p] = IF p[1] = r /\ pc[p] \in Working THEN "killed" ELSE pc[p]
            /\ p[1] # r => loc'[p] = loc[p]
      BY <1>4 DEF Cancel
    <3> QED
      BY <3>1 DEF Answered, Reports, Working
  <2>2. Answered' = Answered \ P
    BY <2>1 DEF Answered
  <2>3. \A p \in Answered \ P : FoundNow[p] = Reports(p)'
    BY <2>1, FoundIs DEF Answered
  <2>4. FoundNow' = [p \in Answered \ P |-> FoundNow[p]]
    BY <2>2, <2>3, FoundIs
  <2>5. P \in SUBSET Answered
    OBVIOUS
  <2> HIDE DEF P
  <2> QED
    BY <1>2, <2>4, <2>5, EndShown
<1> QED
  BY <1>3, <1>4

\* CI mode keeps the promise of FindingsBoard, as long as pipelines do not
\* overlap and the PR can be read back: stores, comment ids, rewordings, moved
\* lines, failed calls and cancelled runs do not show.
THEOREM BoardIsKept ==
  ASSUME Overlap = FALSE, TitlesHaveWords, "readback" \notin Faults
  PROVE  Spec => KeepsBoard
<1>1. Init => Board!BoardInit
  <2> SUFFICES ASSUME Init PROVE Board!BoardInit
    OBVIOUS
  <2>1. threads = {} /\ \A p \in Procs : pc[p] = "idle"
    BY DEF Init, DispatcherInit, PRInit
  <2>2. Answered = {}
    BY <2>1 DEF Answered, Working
  <2>3. \A k : StateOf(k) = "absent"
    BY <2>1 DEF StateOf
  <2> QED
    BY <2>2, <2>3 DEF Board!BoardInit
<1>2. /\ TypeOK /\ TypeOK' /\ ThreadsInv /\ IdsInv /\ DeltaInv
      /\ AllReadBack /\ AllReadBack' /\ ReadBackInv /\ ReadBackInv' /\ [Next]_ciVars
      => [Board!BoardNext]_(Board!boardVars)
  <2> SUFFICES ASSUME TypeOK, TypeOK', ThreadsInv, IdsInv, DeltaInv, AllReadBack,
                      AllReadBack', ReadBackInv, ReadBackInv', [Next]_ciVars
               PROVE  [Board!BoardNext]_(Board!boardVars)
    OBVIOUS
  <2>1. ThreadsProper /\ TwinInv /\ NoTwinThreads /\ NoTwinThreads'
    BY DEF ReadBackInv, TwinInv, ThreadsInv
  <2>2. ASSUME NEW p \in Procs, ToolStep(p) PROVE [Board!BoardNext]_(Board!boardVars)
    <3>1. DispatcherTypeOK /\ DispatcherTypeOK' /\ DispatchStep(p)
      BY <2>2 DEF TypeOK, ToolStep
    <3>2. pc[p] = "post" => \A c \in loc[p].delta :
            c \in loc[p].res.inline /\ \A th \in threads : th.sk # StructuralKey(ToolOf[p], c)
      BY <2>1 DEF TwinInv, DeltaInv
    <3>3. \A f \in StalePriors(p) : \A th \in threads :
            th.id = f.eid => th.tool = ToolOf[p] /\ th.sk \notin Reports(p)
      BY StaleIsOwn
    <3> QED
      BY <2>1, <3>1, <3>2, <3>3, StepKeepsBoard
  <2>3. ASSUME NEW r \in Runs, StartRun(r) \/ Cancel(r)
        PROVE  [Board!BoardNext]_(Board!boardVars)
    BY <2>3, RunsKeepBoard
  <2>4. CASE Author
    BY <2>1, <2>4, AuthorKeepsBoard
  <2>5. CASE UNCHANGED ciVars
    <3>1. UNCHANGED <<threads, pc, loc>>
      BY <2>5 DEF ciVars, vars, prVars, procVars
    <3>2. FoundNow' = FoundNow
      BY <3>1 DEF FoundNow, Answered, Reports
    <3>3. BoardNow' = BoardNow
      BY <3>1, BoardIs
    <3> QED
      BY <3>2, <3>3, NothingShown
  <2> QED
    BY <2>2, <2>3, <2>4, <2>5 DEF Next
<1> QED
  BY <1>1, <1>2, TypeCorrect, ThreadsStayProper, IdsNameThreads, DeltaIsReported,
     AlwaysReadBack, TwinsNever, PTL DEF Spec, KeepsBoard, Board!BoardSpec

=============================================================================
