------------------------- MODULE ServerJobs_proofs --------------------------
(***************************************************************************)
(* Proofs about ServerJobs, for any number of worker processes, goroutines *)
(* and jobs, on either queue.                                              *)
(***************************************************************************)
EXTENDS ServerJobs, Dispatcher_proofs

\* The types of the webhook's and the queue's variables.
LEMMA NoJobIsNone == NoJob \notin Job
  BY DEF NoJob, Job

\* Jobs that get another attempt are jobs.
LEMMA AgainType ==
  ASSUME NEW js \in SUBSET Job
  PROVE  Again(js) \subseteq Job
<1>1. \A j \in Job : [j EXCEPT !.attempt = @ + 1] \in Job
  BY DEF Job
<1> QED
  BY <1>1 DEF Again

\* A webhook handler reads an event.
LEMMA ReceiveKeepsType ==
  ASSUME NEW e \in owed, TypeOK, Receive(e)
  PROVE  TypeOK'
<1>1. pending' \subseteq Event \X Tools
  <2>1. ToolsFor(e) \subseteq Tools
    BY DEF ToolsFor, TypeOK, Event
  <2> QED
    BY <2>1 DEF Receive, TypeOK
<1>2. owed' \subseteq Event
  BY DEF Receive, TypeOK
<1>3. UNCHANGED <<vars, queue, running, arrivals, commands, crashes>>
  BY DEF Receive
<1> QED
  BY <1>1, <1>2, <1>3, PRUnchanged DEF TypeOK, DispatcherTypeOK, vars, procVars

\* It enqueues a job, or fails to.
LEMMA EnqueueKeepsType ==
  ASSUME NEW j \in pending, TypeOK, Enqueue(j[1], j[2])
  PROVE  TypeOK'
<1>1. queue' \subseteq Job /\ arrivals' \in Nat
  BY DEF Enqueue, TypeOK, Job
<1>2. pending' \subseteq Event \X Tools
  BY DEF Enqueue, TypeOK
<1>3. UNCHANGED <<vars, owed, running, commands, crashes>>
  BY DEF Enqueue
<1> QED
  BY <1>1, <1>2, <1>3, PRUnchanged DEF TypeOK, DispatcherTypeOK, vars, procVars

\* A goroutine takes a job.
LEMMA TakeKeepsType ==
  ASSUME NEW p \in Procs, TypeOK, Take(p)
  PROVE  TypeOK'
<1>1. PICK j \in queue : queue' = queue \ {j} /\ running' = [running EXCEPT ![p] = j]
  BY DEF Take
<1>2. pc' = [pc EXCEPT ![p] = "fetch"] /\ pc' \in [Procs -> PCs]
  BY DEF Take, Goto, TypeOK, DispatcherTypeOK, PCs, Working
<1>3. UNCHANGED <<prVars, store, mu, loc, owed, pending, arrivals, commands, crashes>>
  BY DEF Take
<1>4. /\ queue' \subseteq Job /\ running' \in [Procs -> Job \cup {NoJob}]
      /\ \A q \in Procs : running'[q] = NoJob <=> pc'[q] = "idle"
  BY <1>1, <1>2, NoJobIsNone DEF TypeOK, DispatcherTypeOK
<1> QED
  BY <1>2, <1>3, <1>4, PRUnchanged DEF TypeOK, DispatcherTypeOK

\* A step of a job leaves the queue alone, and the job stays where it is.
LEMMA ToolStepKeepsType ==
  ASSUME NEW p \in Procs, TypeOK, ToolStep(p)
  PROVE  TypeOK'
<1>1. DispatcherTypeOK'
  BY DispatchStepKeepsType DEF ToolStep, TypeOK
<1>2. \A q \in Procs : pc'[q] = "idle" <=> pc[q] = "idle"
  <2>1. /\ pc[p] \in Working /\ pc'[p] \in Working \cup Finished
        /\ pc' = [pc EXCEPT ![p] = pc'[p]] /\ pc \in [Procs -> PCs]
    BY StepAndMutex DEF ToolStep, TypeOK, DispatcherTypeOK
  <2> QED
    BY <2>1 DEF Working, Finished
<1>3. UNCHANGED queueVars
  BY DEF ToolStep
<1> QED
  BY <1>1, <1>2, <1>3 DEF TypeOK, queueVars

\* A job ends; River may offer it again.
LEMMA EndJobKeepsType ==
  ASSUME NEW p \in Procs, TypeOK, EndJob(p)
  PROVE  TypeOK'
<1>1. running[p] \in Job
  BY DEF EndJob, TypeOK, DispatcherTypeOK, Finished
<1>2. queue' \subseteq Job
  BY <1>1, AgainType DEF EndJob, TypeOK
<1>3. pc' = [pc EXCEPT ![p] = "idle"] /\ running' = [running EXCEPT ![p] = NoJob]
  BY DEF EndJob, Goto
<1>4. /\ pc' \in [Procs -> PCs] /\ running' \in [Procs -> Job \cup {NoJob}]
      /\ \A q \in Procs : running'[q] = NoJob <=> pc'[q] = "idle"
  BY <1>3 DEF TypeOK, DispatcherTypeOK, PCs
<1>5. UNCHANGED <<prVars, store, mu, loc, owed, pending, arrivals, commands, crashes>>
  BY DEF EndJob
<1> QED
  BY <1>2, <1>4, <1>5, PRUnchanged DEF TypeOK, DispatcherTypeOK

\* A worker process dies.
LEMMA CrashKeepsType ==
  ASSUME NEW w \in Workers, TypeOK, Crash(w)
  PROVE  TypeOK'
<1> DEFINE mine == {p \in Procs : p[1] = w /\ running[p] # NoJob}
<1>1. queue' \subseteq Job /\ pending' \subseteq Event \X Tools
  <2>1. {running[p] : p \in mine} \subseteq Job
    BY DEF TypeOK
  <2>2. Again({running[p] : p \in mine}) \subseteq Job
    BY <2>1, AgainType
  <2>3. \/ queue' = {} /\ pending' = {}
        \/ queue' = queue \cup Again({running[p] : p \in mine}) /\ pending' = pending
    BY DEF Crash
  <2> QED
    BY <2>2, <2>3 DEF TypeOK
<1>2. crashes' \in Nat
  BY DEF Crash, TypeOK
<1>3. /\ pc' \in [Procs -> PCs] /\ running' \in [Procs -> Job \cup {NoJob}]
      /\ \A q \in Procs : running'[q] = NoJob <=> pc'[q] = "idle"
  BY DEF Crash, TypeOK, DispatcherTypeOK, PCs
<1>4. loc' \in [Procs -> Local] /\ mu' \in [Mutexes -> Procs \cup {Free}]
  BY EmptyLocalType DEF Crash, TypeOK, DispatcherTypeOK
<1>5. UNCHANGED <<prVars, store, owed, arrivals, commands>>
  BY DEF Crash
<1> QED
  BY <1>1, <1>2, <1>3, <1>4, <1>5, PRUnchanged DEF TypeOK, DispatcherTypeOK

\* The author pushes, which is an event.
LEMMA PushSyncKeepsType ==
  ASSUME TypeOK, PushSync
  PROVE  TypeOK'
<1>1. PRTypeOK'
  BY PushKeepsType DEF PushSync, TypeOK, DispatcherTypeOK
<1>2. HeadSHA \in Nat
  BY DEF HeadSHA, TypeOK, DispatcherTypeOK, PRTypeOK
<1>3. owed' \subseteq Event
  BY <1>2 DEF PushSync, TypeOK, Event
<1>4. UNCHANGED <<store, mu, pc, loc, pending, queue, running, arrivals, commands, crashes>>
  BY DEF PushSync, procVars
<1> QED
  BY <1>1, <1>3, <1>4 DEF TypeOK, DispatcherTypeOK

\* Somebody types a command.
LEMMA SlashCommandKeepsType ==
  ASSUME NEW t \in Tools, TypeOK, SlashCommand(t)
  PROVE  TypeOK'
<1>1. owed' \subseteq Event /\ commands' \in Nat
  BY DEF SlashCommand, TypeOK, Event
<1>2. UNCHANGED <<vars, pending, queue, running, arrivals, crashes>>
  BY DEF SlashCommand
<1> QED
  BY <1>1, <1>2, PRUnchanged DEF TypeOK, DispatcherTypeOK, vars, procVars

\* The PR is closed and opened again.
LEMMA ReopenKeepsType ==
  ASSUME TypeOK, Reopen
  PROVE  TypeOK'
<1>1. owed' \subseteq Event /\ commands' \in Nat
  BY DEF Reopen, TypeOK, Event
<1>2. UNCHANGED <<vars, pending, queue, running, arrivals, crashes>>
  BY DEF Reopen
<1> QED
  BY <1>1, <1>2, PRUnchanged DEF TypeOK, DispatcherTypeOK, vars, procVars

\* Findings from before the upgrade are threads and records.
LEMMA LegacyType ==
  ASSUME NEW c \in Legacy, nextBatch = 1
  PROVE  LegacyThread(c) \in Thread /\ LegacyRec(c) \in Rec
<1>1. c \in Comment /\ "review" \in Tools
  BY ServerAssumption
<1>2. StructuralKey("review", c) \in Keys
  BY <1>1, StructuralKeyType
<1>3. /\ c.file \in Files /\ c.sev \in Severities
      /\ normalizeTitle[c.body] \in Titles /\ firstLine[c.body] \in Bodies
  BY <1>1, TextAssumption DEF Comment
<1>4. LegacyRec(c) \in Rec
  BY <1>1, <1>3 DEF LegacyRec, NewRec, Fingerprint, Rec
<1>5. LegacyThread(c) \in Thread
  <2>1. NewThread("review", c, TRUE) \in Thread  BY <1>1, NewThreadType
  <2>2. [batch |-> 0, comment |-> c] \in ThreadId  BY <1>1 DEF ThreadId
  <2>3. \A th \in Thread : [th EXCEPT !.id = [batch |-> 0, comment |-> c]] \in Thread
    BY <2>2 DEF Thread
  <2> QED  BY <2>1, <2>3 DEF LegacyThread
<1> QED
  BY <1>4, <1>5

\* The variables have their types at first.
LEMMA InitType == Init => TypeOK
<1> SUFFICES ASSUME Init PROVE TypeOK
  OBVIOUS
<1>1. PRTypeOK
  <2>1. PICK v \in Versions : history = << [f \in Files |-> v] >>
    BY DEF Init
  <2>2. [f \in Files |-> v] \in Tree
    BY DEF Tree
  <2>3. history \in Seq(Tree) /\ history # <<>>
    BY <2>1, <2>2
  <2>4. threads \subseteq Thread
    BY LegacyType DEF Init
  <2> QED
    BY <2>3, <2>4 DEF Init, PRTypeOK, PRBody
<1>2. store \in [Stores -> Store]
  <2>1. {LegacyRec(c) : c \in Legacy} \subseteq Rec
    BY LegacyType DEF Init
  <2>2. [EmptyStore EXCEPT !.recs = {LegacyRec(c) : c \in Legacy}] \in Store
    BY <2>1 DEF EmptyStore, Store, NoSections
  <2> QED
    BY <2>2 DEF Init
<1>3. mu \in [Mutexes -> Procs \cup {Free}] /\ pc \in [Procs -> PCs] /\ loc \in [Procs -> Local]
  BY EmptyLocalType DEF Init, PCs
<1>4. /\ owed \subseteq Event /\ pending \subseteq Event \X Tools /\ queue \subseteq Job
      /\ running \in [Procs -> Job \cup {NoJob}]
      /\ arrivals \in Nat /\ commands \in Nat /\ crashes \in Nat
      /\ \A p \in Procs : running[p] = NoJob <=> pc[p] = "idle"
  BY DEF Init, Event
<1> QED
  BY <1>1, <1>2, <1>3, <1>4 DEF TypeOK, DispatcherTypeOK

\* One step of anybody keeps the types.
LEMMA NextKeepsType ==
  ASSUME TypeOK, [Next]_serverVars
  PROVE  TypeOK'
<1>1. ASSUME NEW e \in owed, Receive(e) PROVE TypeOK'
  BY <1>1, ReceiveKeepsType
<1>2. ASSUME NEW j \in pending, Enqueue(j[1], j[2]) PROVE TypeOK'
  BY <1>2, EnqueueKeepsType
<1>3. ASSUME NEW p \in Procs, Take(p) PROVE TypeOK'
  BY <1>3, TakeKeepsType
<1>4. ASSUME NEW p \in Procs, ToolStep(p) PROVE TypeOK'
  BY <1>4, ToolStepKeepsType
<1>5. ASSUME NEW p \in Procs, EndJob(p) PROVE TypeOK'
  BY <1>5, EndJobKeepsType
<1>6. ASSUME NEW w \in Workers, Crash(w) PROVE TypeOK'
  BY <1>6, CrashKeepsType
<1>7. CASE PushSync
  BY <1>7, PushSyncKeepsType
<1>8. ASSUME NEW t \in Tools, SlashCommand(t) PROVE TypeOK'
  BY <1>8, SlashCommandKeepsType
<1>9. CASE Reopen
  BY <1>9, ReopenKeepsType
<1>10. CASE UNCHANGED serverVars
  BY <1>10, PRUnchanged DEF serverVars, vars, procVars, queueVars, TypeOK, DispatcherTypeOK
<1> QED
  BY <1>1, <1>2, <1>3, <1>4, <1>5, <1>6, <1>7, <1>8, <1>9, <1>10 DEF Next

\* In every behaviour of the server every variable keeps its type, and a
\* goroutine is at work exactly while it has a job, through retries and
\* crashes: no job is forgotten in a slot, none runs without being accounted.
THEOREM TypeCorrect == Spec => []TypeOK
  BY InitType, NextKeepsType, PTL DEF Spec

-----------------------------------------------------------------------------
(* summaryMu, per worker process.                                          *)

\* Goroutines of one worker process between the read of the top-level
\* comment's id and its write.
OneInPostSummary ==
  \A p, q \in Procs :
    p[1] = q[1] /\ pc[p] \in Critical /\ pc[q] \in Critical => p = q

\* One step of anybody keeps the mutexes and their holders together.
LEMMA NextKeepsLock ==
  ASSUME TypeOK, LockHeld, [Next]_serverVars
  PROVE  LockHeld'
<1>1. /\ pc \in [Procs -> PCs] /\ mu \in [Mutexes -> Procs \cup {Free}]
      /\ MuOf \in [Procs -> Mutexes] /\ Free \notin Procs /\ Mutexes = Workers
      /\ \A p \in Procs : MuOf[p] = p[1]
  BY DispatcherAssumption, ServerAssumption DEF TypeOK, DispatcherTypeOK
<1>2. ASSUME NEW p \in Procs, ToolStep(p) PROVE LockHeld'
  BY <1>2, DispatchStepKeepsLock DEF ToolStep, TypeOK
<1>3. ASSUME NEW p \in Procs, NEW from, NEW to, pc[p] = from, from \notin Critical,
             to \notin Critical, Goto(p, to), UNCHANGED mu
      PROVE  LockHeld'
  BY <1>1, <1>3 DEF LockHeld, Goto
<1>4. ASSUME NEW p \in Procs, Take(p) PROVE LockHeld'
  <2>1. pc[p] = "idle"
    BY <1>4, ServerAssumption DEF Take, SlotFree
  <2> QED
    BY <1>3, <1>4, <2>1 DEF Take, Critical
<1>5. ASSUME NEW p \in Procs, EndJob(p) PROVE LockHeld'
  BY <1>3, <1>5 DEF EndJob, Finished, Critical
<1>6. ASSUME NEW w \in Workers, Crash(w) PROVE LockHeld'
  <2>1. /\ mu' = [mu EXCEPT ![w] = Free]
        /\ pc' = [p \in Procs |-> IF p[1] = w THEN "idle" ELSE pc[p]]
    BY <1>6 DEF Crash
  <2> QED
    BY <1>1, <2>1 DEF LockHeld, Critical
<1>7. CASE UNCHANGED <<mu, pc>>
  BY <1>7 DEF LockHeld
<1>8. ASSUME \/ \E e \in owed : Receive(e)
             \/ \E j \in pending : Enqueue(j[1], j[2])
             \/ PushSync \/ Reopen \/ \E t \in Tools : SlashCommand(t)
             \/ UNCHANGED serverVars
      PROVE  UNCHANGED <<mu, pc>>
  BY <1>8 DEF Receive, Enqueue, PushSync, Reopen, SlashCommand, serverVars, vars, procVars
<1> QED
  BY <1>2, <1>4, <1>5, <1>6, <1>7, <1>8 DEF Next

\* summaryMu excludes the goroutines of one worker process from one another,
\* through crashes, retries and failures.  It does not exclude those of two
\* workers.
THEOREM MutualExclusion == Spec => []OneInPostSummary
<1>1. Init => LockHeld
  BY DispatcherAssumption DEF Init, LockHeld, Critical
<1>2. LockHeld => OneInPostSummary
  BY ServerAssumption DEF LockHeld, OneInPostSummary
<1> QED
  BY InitType, NextKeepsType, NextKeepsLock, <1>1, <1>2, PTL DEF Spec

-----------------------------------------------------------------------------
(* Nothing is recorded that is not on the PR.                              *)

\* th is a thread of the finding a record is of; the row of a legacy record
\* has no key.
Covers(th, rec) ==
  /\ th.tool = rec.tool /\ th.file = rec.file /\ th.sev = rec.sev /\ th.nt = rec.nt
  /\ rec.sk \in {th.sk, NoKey}

\* Every record is of a thread, and so is every finding about to be recorded.
\* No server store knows what reviewers have resolved.
ShownInv ==
  /\ ThreadsProper
  /\ \A s \in Stores : \A rec \in store[s].recs :
       ~rec.resolved /\ \E th \in threads : Covers(th, rec)
  /\ \A p \in Procs : \A ref \in loc[p].refs :
       \E th \in threads : Shows(th, ToolOf[p], ref.comment)

\* The comments an answer names have threads, unless the adapter goes on after
\* a comment it could not post, as the one of GitLab does.
LEMMA AnswerShows ==
  ASSUME Provider = "github" \/ "inline" \notin Faults,
         NEW tool, NEW delta, NEW answer \in PostInlineComments(tool, delta),
         NEW ref \in answer.refs
  PROVE  \E th \in answer.created : Shows(th, tool, ref.comment)
<1>1. \A a \in BOOLEAN : Shows(NewThread(tool, ref.comment, a), tool, ref.comment)
  BY DEF Shows, NewThread
<1>2. CASE "inline" \notin Faults
  BY <1>1, <1>2, PostAnswer
<1>3. CASE Provider = "github"
  <2> DEFINE all == {NewThread(tool, c, TRUE) : c \in delta}
             refs == {[comment |-> c, eid |-> NoId] : c \in delta}
  <2>1. \/ answer = [created |-> all, refs |-> refs]
        \/ answer = NoAnswer
        \/ answer = [created |-> all, refs |-> {}]
    BY <1>3 DEF PostInlineComments, GithubPost
  <2>2. \A r \in refs : \E c \in delta : r.comment = c
    OBVIOUS
  <2>4. \A c \in delta : NewThread(tool, c, TRUE) \in all
    OBVIOUS
  <2> HIDE DEF all, refs
  <2>3. ref \in refs /\ answer.created = all
    BY <2>1 DEF NoAnswer
  <2> QED
    BY <1>1, <2>2, <2>3, <2>4
<1> QED
  BY <1>2, <1>3

\* What people and tools do to the threads keeps them proper and never takes
\* one away.
LEMMA ThreadsStay ==
  ASSUME TypeOK, ThreadsProper, [Next]_serverVars
  PROVE  ThreadsProper' /\ \A a \in threads : \E b \in threads' : Becomes(a, b)
<1>1. CASE UNCHANGED <<threads, nextBatch>>
  BY <1>1 DEF ThreadsProper, Becomes
<1>2. ASSUME NEW p \in Procs, ToolStep(p)
      PROVE  ThreadsProper' /\ \A a \in threads : \E b \in threads' : Becomes(a, b)
  BY <1>2, StepThreads DEF ToolStep, TypeOK
<1>3. CASE PushSync
  BY <1>3, PushThreads DEF PushSync, TypeOK, DispatcherTypeOK
<1> QED
  BY <1>1, <1>2, <1>3 DEF Next, Receive, Enqueue, Take, EndJob, Crash, Reopen,
     SlashCommand, serverVars, vars, prVars

\* What a step of a dispatcher makes of the records of any store.
LEMMA StepRecords ==
  ASSUME NEW p \in Procs, DispatcherTypeOK, DispatchStep(p), NEW s \in Stores,
         NEW rec \in store'[s].recs, rec \notin store[s].recs
  PROVE  /\ pc[p] = "record"
         /\ \/ \E ref \in loc[p].refs : rec = NewRec(ToolOf[p], ref.eid, ref.comment)
            \/ \E a \in store[s].recs : SameFinding(a, rec)
<1>1. store \in [Stores -> Store] /\ StoreOf[p] \in Stores /\ ToolOf[p] \in Tools
  BY DispatcherAssumption DEF DispatcherTypeOK
<1>2. \A x \in Stores : store[x].recs \in SUBSET Rec
  BY <1>1 DEF Store
<1>3. ASSUME NEW v, store' = [store EXCEPT ![StoreOf[p]] = v], v.recs = store[StoreOf[p]].recs
      PROVE  FALSE
  BY <1>1, <1>3
<1>4. pc[p] # "section"
  <2> SUFFICES ASSUME pc[p] = "section" PROVE FALSE
    OBVIOUS
  <2> DEFINE v == [store[StoreOf[p]] EXCEPT !.secs[ToolOf[p]] = loc[p].head]
  <2>1. UNCHANGED store \/ store' = [store EXCEPT ![StoreOf[p]] = v]
    BY <1>1, WhichStep DEF PutSection
  <2>2. v.recs = store[StoreOf[p]].recs
    BY <1>1 DEF Store
  <2> QED
    BY <1>3, <2>1, <2>2
<1>5. pc[p] # "putid"
  <2> SUFFICES ASSUME pc[p] = "putid" PROVE FALSE
    OBVIOUS
  <2> DEFINE v == [store[StoreOf[p]] EXCEPT !.sum = loc[p].existing]
  <2>1. UNCHANGED store \/ store' = [store EXCEPT ![StoreOf[p]] = v]
    BY <1>1, WhichStep DEF PutSummaryID
  <2>2. v.recs = store[StoreOf[p]].recs
    BY <1>1 DEF Store
  <2> QED
    BY <1>3, <2>1, <2>2
<1>6. pc[p] = "record"
  BY <1>4, <1>5, WhoWrites
<1>7. PICK ref \in loc[p].refs :
        \/ store' = [store EXCEPT ![StoreOf[p]].recs = Recorded(p, ref.eid, ref.comment)]
        \/ UNCHANGED store
  BY <1>6, WhichStep DEF RecordFinding
<1>8. s = StoreOf[p] /\ rec \in Recorded(p, ref.eid, ref.comment)
  <2> DEFINE v == [store[StoreOf[p]] EXCEPT !.recs = Recorded(p, ref.eid, ref.comment)]
  <2>1. store' = [store EXCEPT ![StoreOf[p]] = v]
    BY <1>1, <1>7
  <2>2. v.recs = Recorded(p, ref.eid, ref.comment)
    BY <1>1 DEF Store
  <2> HIDE DEF v
  <2> QED
    BY <1>1, <2>1, <2>2
<1>9. CASE Backend = "mem"
  <2>1. rec \in MemRecord(store[s].recs, ToolOf[p], ref.eid, ref.comment)
    BY <1>8, <1>9 DEF Recorded, St
  <2>2. ref.comment \in Comment /\ ref.eid \in ThreadId \cup {NoId}
    BY DEF DispatcherTypeOK, Local
  <2> QED
    BY <1>1, <1>2, <1>6, <2>1, <2>2, MemRecordIs
<1>10. CASE Backend # "mem"
  <2>1. rec \in DBRecord(store[s].recs, ToolOf[p], ref.eid, ref.comment)
    BY <1>8, <1>10 DEF Recorded, St
  <2> QED
    BY <1>6, <2>1 DEF DBRecord
<1> QED
  BY <1>9, <1>10

\* Threads that have changed in place still cover and show what they did.
LEMMA CoverStays ==
  ASSUME NEW a, NEW b, Becomes(a, b)
  PROVE  /\ \A rec : Covers(a, rec) => Covers(b, rec)
         /\ \A tool, c : Shows(a, tool, c) => Shows(b, tool, c)
  BY DEF Becomes, Covers, Shows

\* One step of anybody.
LEMMA NextKeepsShown ==
  ASSUME Provider = "github" \/ "inline" \notin Faults,
         TypeOK, TypeOK', ShownInv, [Next]_serverVars
  PROVE  ShownInv'
<1>0. ThreadsProper' /\ \A a \in threads : \E b \in threads' : Becomes(a, b)
  BY ThreadsStay DEF ShownInv
<1> DEFINE Rests == /\ \A s \in Stores : store'[s].recs = store[s].recs
                    /\ \A p \in Procs : loc'[p].refs \subseteq loc[p].refs
<1>1. CASE Rests
  <2>1. ASSUME NEW s \in Stores, NEW rec \in store'[s].recs
        PROVE  ~rec.resolved /\ \E th \in threads' : Covers(th, rec)
    BY <1>0, <1>1, <2>1, CoverStays DEF ShownInv
  <2>2. ASSUME NEW p \in Procs, NEW ref \in loc'[p].refs
        PROVE  \E th \in threads' : Shows(th, ToolOf[p], ref.comment)
    BY <1>0, <1>1, <2>2, CoverStays DEF ShownInv
  <2> QED
    BY <1>0, <2>1, <2>2 DEF ShownInv
<1>2. ASSUME NEW p \in Procs, ToolStep(p) PROVE ShownInv'
  <2>0. DispatchStep(p) /\ DispatcherTypeOK
    BY <1>2 DEF ToolStep, TypeOK
  <2>1. ASSUME NEW s \in Stores, NEW rec \in store'[s].recs
        PROVE  ~rec.resolved /\ \E th \in threads' : Covers(th, rec)
    <3>1. CASE rec \in store[s].recs
      BY <1>0, <3>1, CoverStays DEF ShownInv
    <3>2. ASSUME NEW ref \in loc[p].refs, rec = NewRec(ToolOf[p], ref.eid, ref.comment)
          PROVE  ~rec.resolved /\ \E th \in threads' : Covers(th, rec)
      <4>1. PICK th \in threads : Shows(th, ToolOf[p], ref.comment)
        BY DEF ShownInv
      <4>2. Covers(th, rec) /\ ~rec.resolved
        BY <3>2, <4>1 DEF Shows, Covers, NewRec
      <4> QED
        BY <1>0, <4>2, CoverStays
    <3>3. ASSUME NEW a \in store[s].recs, SameFinding(a, rec)
          PROVE  ~rec.resolved /\ \E th \in threads' : Covers(th, rec)
      <4>1. PICK th \in threads : Covers(th, a)
        BY DEF ShownInv
      <4>2. Covers(th, rec) /\ ~rec.resolved
        BY <3>3, <4>1 DEF SameFinding, Covers, ShownInv
      <4> QED
        BY <1>0, <4>2, CoverStays
    <3> QED
      BY <2>0, <3>1, <3>2, <3>3, StepRecords
  <2>2. ASSUME NEW q \in Procs, NEW ref \in loc'[q].refs
        PROVE  \E th \in threads' : Shows(th, ToolOf[q], ref.comment)
    <3>1. CASE ref \in loc[q].refs
      BY <1>0, <3>1, CoverStays DEF ShownInv
    <3>2. CASE q = p /\ pc[p] = "post"
      <4>1. PICK answer \in PostInlineComments(ToolOf[p], loc[p].delta) :
              /\ threads' = threads \cup answer.created
              /\ loc' = [loc EXCEPT ![p].refs = answer.refs, ![p].delta = {}]
        BY <2>0, <3>2, WhichStep DEF PostInline
      <4>2. ref \in answer.refs
        BY <3>2, <4>1 DEF TypeOK, DispatcherTypeOK, Local
      <4> QED
        BY <3>2, <4>1, <4>2, AnswerShows
    <3>3. CASE q = p /\ pc[p] # "post"
      <4>1. pc'[p] \in Working /\ pc[p] # "fetch" => ref \in loc[q].refs
        BY <2>0, <3>3, LocalsKept
      <4>2. pc'[p] \in Working
        BY <2>0, <3>3, EndsEmpty DEF EmptyLocal
      <4>3. pc[p] # "fetch"
        <5> SUFFICES ASSUME pc[p] = "fetch" PROVE FALSE
          OBVIOUS
        <5>1. loc' = [loc EXCEPT ![p] = [EmptyLocal EXCEPT !.head = HeadSHA,
                    !.user = prBody.user, !.section = prBody.cadoo]]
          BY <2>0, <4>2, WhichStep DEF Fetch, Finish, Goto, Working, DispatcherTypeOK
        <5> QED
          BY <2>0, <3>3, <5>1 DEF DispatcherTypeOK, EmptyLocal
      <4> QED
        BY <3>1, <4>1, <4>2, <4>3
    <3>4. CASE q # p
      BY <2>0, <3>1, <3>4, OthersStay
    <3> QED
      BY <3>2, <3>3, <3>4
  <2> QED
    BY <1>0, <2>1, <2>2 DEF ShownInv
<1>3. ASSUME NEW w \in Workers, Crash(w) PROVE Rests
  <2>1. UNCHANGED store /\ \A p \in Procs : loc'[p] \in {loc[p], EmptyLocal}
    BY <1>3 DEF Crash
  <2> QED
    BY <2>1 DEF EmptyLocal
<1>4. CASE UNCHANGED <<store, loc>>
  BY <1>1, <1>4
<1> QED
  BY <1>1, <1>2, <1>3, <1>4 DEF Next, Receive, Enqueue, Take, EndJob, PushSync, Reopen,
     SlashCommand, serverVars, vars, procVars

\* At first, too: legacy rows have their threads.
LEMMA InitShown == Init => ShownInv
<1> SUFFICES ASSUME Init PROVE ShownInv
  OBVIOUS
<1>1. nextBatch = 1 /\ threads = {LegacyThread(c) : c \in Legacy}
  BY DEF Init
<1>2. ASSUME NEW c \in Legacy
      PROVE  /\ LegacyThread(c).id.batch = 0 /\ LegacyThread(c).id.comment = c
             /\ LegacyThread(c).sk =
                  [tool |-> LegacyThread(c).tool, file |-> LegacyThread(c).file,
                   sev |-> LegacyThread(c).sev, nt |-> LegacyThread(c).nt]
             /\ LegacyThread(c).state = "open"
             /\ Covers(LegacyThread(c), LegacyRec(c)) /\ ~LegacyRec(c).resolved
  BY DEF LegacyThread, LegacyRec, NewThread, NewRec, StructuralKey, Covers
<1>3. ThreadsProper
  <2>1. \A a, b \in threads : a.id = b.id => a = b
    <3> SUFFICES ASSUME NEW c \in Legacy, NEW d \in Legacy,
                        LegacyThread(c).id = LegacyThread(d).id
                 PROVE  c = d
      BY <1>1
    <3> QED
      BY <1>2
  <2>2. \A th \in threads :
          /\ th.id.batch < nextBatch
          /\ th.sk = [tool |-> th.tool, file |-> th.file, sev |-> th.sev, nt |-> th.nt]
          /\ th.state # "open" => th.anchored
    BY <1>1, <1>2
  <2> QED
    BY <2>1, <2>2 DEF ThreadsProper
<1>4. \A s \in Stores : store[s].recs = {LegacyRec(c) : c \in Legacy}
  BY DEF Init, EmptyStore
<1>5. \A p \in Procs : loc[p].refs = {}
  BY DEF Init, EmptyLocal
<1>6. ASSUME NEW s \in Stores, NEW rec \in store[s].recs
      PROVE  ~rec.resolved /\ \E th \in threads : Covers(th, rec)
  <2>1. PICK c \in Legacy : rec = LegacyRec(c)
    BY <1>4
  <2> QED
    BY <1>1, <1>2, <2>1
<1> QED
  BY <1>3, <1>5, <1>6 DEF ShownInv

\* In every behaviour of the server.
THEOREM RecordedIsShown ==
  ASSUME Provider = "github" \/ "inline" \notin Faults
  PROVE  Spec => []ShownInv
  BY InitShown, NextKeepsShown, TypeCorrect, PTL DEF Spec

\* A finding the store knows has a thread that represents it.
LEMMA KnownIsShown ==
  ASSUME TypeOK, ShownInv, NEW p \in Procs, NEW c \in Comment, TRUE \in HasFinding(p, c)
  PROVE  \E th \in threads : Represents(th, ToolOf[p], c)
<1>0. St(p) \in Store /\ StoreOf[p] \in Stores /\ St(p) = store[StoreOf[p]]
  BY DispatcherAssumption DEF St, TypeOK, DispatcherTypeOK
<1>1. PICK rec \in St(p).recs : SameBucket(rec, ToolOf[p], c) /\ OpenMatch(rec, ToolOf[p], c)
  <2>0. St(p).on
    <3> SUFFICES ASSUME ~St(p).on PROVE FALSE
      OBVIOUS
    <3>1. HasFinding(p, c) = {FALSE}
      BY DEF HasFinding
    <3> QED
      BY <3>1
  <2>1. CASE Backend = "mem"
    <3>1. HasFinding(p, c) = {MemHas(St(p).recs, ToolOf[p], c)}
      BY <2>0, <2>1 DEF HasFinding
    <3>2. MemHas(St(p).recs, ToolOf[p], c)
      BY <3>1
    <3> QED
      BY <1>0, <3>2 DEF MemHas, ShownInv
  <2>2. CASE Backend # "mem"
    <3>1. HasFinding(p, c) = DBHasAnswers(St(p).recs, ToolOf[p], c)
                               \cup (IF StoreFails THEN {FALSE} ELSE {})
      BY <2>0, <2>2 DEF HasFinding
    <3>2. TRUE \in DBHasAnswers(St(p).recs, ToolOf[p], c)
      BY <3>1
    <3> DEFINE bucket == {r \in St(p).recs : SameBucket(r, ToolOf[p], c)}
               legacy == {r \in bucket : r.sk = NoKey}
               found == \E r \in bucket \ legacy : OpenMatch(r, ToolOf[p], c)
    <3>3. DBHasAnswers(St(p).recs, ToolOf[p], c) = {found} \cup {FALSE : r \in legacy}
      BY DEF DBHasAnswers
    <3>4. TRUE \in {found}
      <4>1. TRUE \notin {FALSE : r \in legacy}
        OBVIOUS
      <4> HIDE DEF found, legacy
      <4> QED
        BY <3>2, <3>3, <4>1
    <3>5. found
      BY <3>4
    <3> QED
      BY <3>5
  <2> QED
    BY <2>1, <2>2
<1>2. PICK th \in threads : Covers(th, rec)
  BY <1>0, <1>1 DEF ShownInv
<1>3. /\ th.tool = ToolOf[p] /\ th.file = c.file /\ th.sev = c.sev /\ th.nt = rec.nt
      /\ rec.sk \in {th.sk, NoKey}
  BY <1>1, <1>2 DEF Covers, SameBucket
<1>4. CASE rec.sk = StructuralKey(ToolOf[p], c)
  <2>1. rec.sk # NoKey
    BY <1>4 DEF StructuralKey, NoKey
  <2> QED
    BY <1>3, <1>4, <2>1 DEF Represents
<1>5. CASE SimilarTitle(normalizeTitle[c.body], rec.nt)
  <2>1. normalizeTitle[c.body] \in Titles
    BY TextAssumption DEF Comment
  <2>2. rec.nt \in Titles
    BY <1>0 DEF Store, Rec
  <2> QED
    BY <1>3, <1>5, <2>1, <2>2, SimilarEnough DEF Represents
<1> QED
  BY <1>1, <1>4, <1>5 DEF OpenMatch

\* A finding that a run leaves out is on the PR, on either hosting service and
\* either queue, whatever fails but the posting of single comments, and however
\* many jobs, workers and retries there are.
THEOREM KnownIsOnPR ==
  ASSUME Provider = "github" \/ "inline" \notin Faults
  PROVE  Spec => DroppedIsOnPR
<1> DEFINE OnPR ==
      \A p \in Procs :
        (pc[p] = "filter" /\ pc'[p] \in {"post", "resolve"}) =>
          \A c \in loc[p].res.inline :
            \/ \E d \in loc'[p].delta : StructuralKey(ToolOf[p], d) = StructuralKey(ToolOf[p], c)
            \/ \E th \in threads : Represents(th, ToolOf[p], c)
<1>1. TypeOK /\ ShownInv /\ [Next]_serverVars => OnPR
  <2> SUFFICES ASSUME TypeOK, ShownInv, [Next]_serverVars, NEW p \in Procs,
                      pc[p] = "filter", pc'[p] \in {"post", "resolve"},
                      NEW c \in loc[p].res.inline
               PROVE  \/ \E d \in loc'[p].delta :
                           StructuralKey(ToolOf[p], d) = StructuralKey(ToolOf[p], c)
                      \/ \E th \in threads : Represents(th, ToolOf[p], c)
    OBVIOUS
  <2>0. pc \in [Procs -> PCs] /\ loc \in [Procs -> Local] /\ c \in Comment
    BY DEF TypeOK, DispatcherTypeOK, Local, Result
  <2>1. ToolStep(p)
    <3>1. ASSUME NEW q \in Procs, ToolStep(q), q # p PROVE FALSE
      BY <3>1, OthersStay DEF ToolStep, TypeOK
    <3>2. ASSUME NEW q \in Procs, Take(q) PROVE FALSE
      BY <2>0, <3>2 DEF Take, Goto
    <3>3. ASSUME NEW q \in Procs, EndJob(q) PROVE FALSE
      BY <2>0, <3>3 DEF EndJob, Goto
    <3>4. ASSUME NEW w \in Workers, Crash(w) PROVE FALSE
      BY <3>4 DEF Crash
    <3> QED
      BY <3>1, <3>2, <3>3, <3>4 DEF Next, Receive, Enqueue, PushSync, Reopen,
         SlashCommand, serverVars, vars, procVars
  <2>2. FilterInline(p)
    BY <2>1, WhichStep DEF ToolStep
  <2> DEFINE Key(x) == StructuralKey(ToolOf[p], x)
  <2>3. PICK fresh \in SUBSET loc[p].res.inline, delta \in SUBSET loc[p].res.inline :
          /\ \A x \in loc[p].res.inline : (x \notin fresh) \in HasFinding(p, x)
          /\ \A x \in fresh : \E d \in delta : Key(d) = Key(x)
          /\ loc' = [loc EXCEPT ![p].delta = delta]
    BY <2>2 DEF FilterInline
  <2>4. loc'[p].delta = delta
    BY <2>0, <2>3 DEF Local
  <2>5. CASE c \in fresh
    BY <2>3, <2>4, <2>5
  <2>6. CASE c \notin fresh
    <3>1. (c \notin fresh) = TRUE
      BY <2>6
    <3>2. TRUE \in HasFinding(p, c)
      BY <2>3, <3>1
    <3> QED
      BY <2>0, <3>2, KnownIsShown
  <2> QED
    BY <2>5, <2>6
<1> HIDE DEF OnPR
<1>2. [][OnPR]_serverVars => DroppedIsOnPR
  BY PTL DEF DroppedIsOnPR, OnPR
<1> QED
  BY <1>1, <1>2, TypeCorrect, RecordedIsShown, PTL DEF Spec

-----------------------------------------------------------------------------
(* The memory queue: one job at a time.                                    *)

\* Which process is at work, if any, is not in doubt.
OneJob == \A p, q \in Procs : pc[p] # "idle" /\ pc[q] # "idle" => p = q

\* With the memory queue there is one goroutine, and it takes a job only when
\* it has none.
LEMMA NextKeepsOneJob ==
  ASSUME QueueKind = "memory", TypeOK, OneJob, [Next]_serverVars
  PROVE  OneJob'
<1>0. pc \in [Procs -> PCs]
  BY DEF TypeOK, DispatcherTypeOK
<1>1. ASSUME NEW p \in Procs, Take(p) PROVE OneJob'
  <2>1. \A q \in Procs : pc[q] = "idle"
    <3> SUFFICES ASSUME NEW q \in Procs PROVE pc[q] = "idle"
      OBVIOUS
    <3>1. q[1] = p[1] /\ q[2] = p[2] /\ q[3] \in Tools /\ q = <<q[1], q[2], q[3]>>
      BY ServerAssumption
    <3> QED
      BY <1>1, <3>1 DEF Take, SlotFree
  <2>2. pc' = [pc EXCEPT ![p] = "fetch"]
    BY <1>1 DEF Take, Goto
  <2> QED
    BY <1>0, <2>1, <2>2 DEF OneJob
<1>2. ASSUME NEW p \in Procs, ToolStep(p) PROVE OneJob'
  <2>1. pc[p] # "idle" /\ \A q \in Procs \ {p} : pc'[q] = pc[q]
    BY <1>2, StepAndMutex DEF ToolStep, TypeOK, DispatcherTypeOK, Working
  <2> QED
    BY <2>1 DEF OneJob
<1>3. ASSUME NEW p \in Procs, EndJob(p) PROVE OneJob'
  <2>1. pc' = [pc EXCEPT ![p] = "idle"]
    BY <1>3 DEF EndJob, Goto
  <2> QED
    BY <1>0, <2>1 DEF OneJob
<1>4. ASSUME NEW w \in Workers, Crash(w) PROVE OneJob'
  <2>1. pc' = [p \in Procs |-> IF p[1] = w THEN "idle" ELSE pc[p]]
    BY <1>4 DEF Crash
  <2> QED
    BY <2>1 DEF OneJob
<1>5. CASE UNCHANGED pc
  BY <1>5 DEF OneJob
<1> QED
  BY <1>1, <1>2, <1>3, <1>4, <1>5 DEF Next, Receive, Enqueue, PushSync, Reopen,
     SlashCommand, serverVars, vars, procVars

\* What happens outside the jobs of a process that does not die.
Outside ==
  /\ UNCHANGED <<store, loc>>
  /\ \A p \in Procs : /\ pc[p] \in Working => pc'[p] = pc[p]
                      /\ pc'[p] \in Working \ {"fetch"} => pc'[p] = pc[p]

LEMMA InOrOut ==
  ASSUME MaxCrashes = 0, TypeOK, [Next]_serverVars
  PROVE  Outside \/ \E p \in Procs : ToolStep(p)
<1>0. pc \in [Procs -> PCs]
  BY DEF TypeOK, DispatcherTypeOK
<1>1. ASSUME NEW p \in Procs, Take(p) PROVE Outside
  <2>1. pc[p] = "idle"
    BY <1>1, ServerAssumption DEF Take, SlotFree
  <2> QED
    BY <1>0, <1>1, <2>1 DEF Take, Goto, Outside, Working
<1>2. ASSUME NEW p \in Procs, EndJob(p) PROVE Outside
  BY <1>0, <1>2 DEF EndJob, Goto, Outside, Working, Finished
<1>3. ASSUME NEW w \in Workers, Crash(w) PROVE FALSE
  BY <1>3 DEF Crash, TypeOK
<1>4. CASE UNCHANGED <<store, pc, loc>>
  BY <1>4 DEF Outside
<1> QED
  BY <1>1, <1>2, <1>3, <1>4 DEF Next, Receive, Enqueue, PushSync, Reopen,
     SlashCommand, serverVars, vars, procVars

-----------------------------------------------------------------------------
(* No finding has two threads.                                             *)

\* A record says what its fingerprint says, and is not closed.
RecordProper(rec) ==
  /\ ~rec.resolved
  /\ \E c \in Comment :
       /\ rec.fp = Fingerprint(rec.tool, c)
       /\ rec.file = c.file /\ rec.sev = c.sev /\ rec.nt = normalizeTitle[c.body]
       /\ rec.sk = StructuralKey(rec.tool, c)

\* A process is about to record a finding of this key.
Unsaved(k) ==
  \E p \in Procs : /\ pc[p] = "record"
                   /\ \E ref \in loc[p].refs : StructuralKey(ToolOf[p], ref.comment) = k

\* Every thread has a record of its key, or is about to have one; and what is
\* about to be posted has keys of its own that no record has.
SavedInv ==
  /\ ThreadsProper /\ NoTwinThreads /\ OneJob
  /\ \A s \in Stores : store[s].on /\ \A rec \in store[s].recs : RecordProper(rec)
  /\ \A s \in Stores : \A th \in threads :
       Unsaved(th.sk) \/ \E rec \in store[s].recs : rec.sk = th.sk
  /\ \A p \in Procs : pc[p] = "post" =>
       /\ \A c \in loc[p].delta : \A rec \in store[StoreOf[p]].recs :
            rec.sk # StructuralKey(ToolOf[p], c)
       /\ \A c, d \in loc[p].delta :
            StructuralKey(ToolOf[p], c) = StructuralKey(ToolOf[p], d) => c = d

\* The job dies with nothing half done: nothing is lost between the PR and the
\* store.
NothingLostBetween ==
  /\ QueueKind = "memory" /\ MaxCrashes = 0 /\ Legacy = {}
  /\ Provider = "gitlab" \/ "lost" \notin Faults

\* The adapter names the comments it has created.
LEMMA AnswerNames ==
  ASSUME Provider = "gitlab" \/ "lost" \notin Faults,
         NEW tool, NEW delta, NEW answer \in PostInlineComments(tool, delta),
         NEW th \in answer.created
  PROVE  \E ref \in answer.refs, a \in BOOLEAN : th = NewThread(tool, ref.comment, a)
<1>1. CASE Provider = "github"
  <2> DEFINE all == {NewThread(tool, c, TRUE) : c \in delta}
             refs == {[comment |-> c, eid |-> NoId] : c \in delta}
  <2>0. Provider # "gitlab"
    BY <1>1
  <2>1. answer = [created |-> all, refs |-> refs] \/ answer = NoAnswer
    BY <1>1, <2>0 DEF PostInlineComments, GithubPost
  <2>2. \A x \in all : \E ref \in refs : x = NewThread(tool, ref.comment, TRUE)
    <3> SUFFICES ASSUME NEW c \in delta
                 PROVE  \E ref \in refs : NewThread(tool, c, TRUE) = NewThread(tool, ref.comment, TRUE)
      OBVIOUS
    <3>1. [comment |-> c, eid |-> NoId] \in refs
      OBVIOUS
    <3> HIDE DEF refs
    <3> QED
      BY <3>1
  <2> HIDE DEF all, refs
  <2>3. th \in all /\ answer.refs = refs
    BY <2>1 DEF NoAnswer
  <2> QED
    BY <2>2, <2>3
<1>2. CASE Provider # "github"
  <2> DEFINE Made(o) == {c \in delta : o[c] # "fail"}
             Created(o) == {NewThread(tool, c, o[c] # "note") : c \in Made(o)}
             Refs(o) == {[comment |-> c,
                          eid |-> IF o[c] = "discussion"
                                  THEN [batch |-> nextBatch, comment |-> c] ELSE NoId]
                         : c \in delta}
             outs == {"discussion", "note"}
                     \cup (IF "inline" \in Faults THEN {"fail"} ELSE {})
                     \cup (IF "lost" \in Faults THEN {"lost"} ELSE {})
  <2>1. \/ answer = NoAnswer
        \/ \E o \in [delta -> outs] : answer = [created |-> Created(o), refs |-> Refs(o)]
    BY <1>2 DEF PostInlineComments, GitlabPost
  <2>2. PICK o \in [delta -> outs] : answer = [created |-> Created(o), refs |-> Refs(o)]
    BY <2>1 DEF NoAnswer
  <2>3. PICK c \in delta : th = NewThread(tool, c, o[c] # "note")
    BY <2>2
  <2>4. \E ref \in Refs(o) : ref.comment = c
    <3> DEFINE eid == IF o[c] = "discussion" THEN [batch |-> nextBatch, comment |-> c] ELSE NoId
               new == [comment |-> c, eid |-> eid]
    <3>1. new \in Refs(o) /\ new.comment = c
      OBVIOUS
    <3> HIDE DEF new
    <3> QED
      BY <3>1
  <2> HIDE DEF Refs, Created, Made, outs
  <2> QED
    BY <2>2, <2>3, <2>4
<1> QED
  BY <1>1, <1>2

\* The one store, in memory.
LEMMA OneStore ==
  ASSUME QueueKind = "memory", TypeOK
  PROVE  /\ Stores = {"posted"} /\ Backend = "mem" /\ ~StoreFails
         /\ store["posted"] \in Store /\ store["posted"].recs \in SUBSET Rec
         /\ \A p \in Procs : StoreOf[p] = "posted" /\ St(p) = store["posted"]
                             /\ ToolOf[p] \in Tools
  BY ServerAssumption, DispatcherAssumption
     DEF StoreFails, St, TypeOK, DispatcherTypeOK, Store

\* What the filter leaves is unknown to the store.
LEMMA FilteredIs ==
  ASSUME QueueKind = "memory", TypeOK, SavedInv, NEW p \in Procs, FilterInline(p)
  PROVE  /\ loc'[p].delta \subseteq loc[p].res.inline
         /\ \A c \in loc'[p].delta : ~MemHas(store["posted"].recs, ToolOf[p], c)
         /\ \A c, d \in loc'[p].delta :
              StructuralKey(ToolOf[p], c) = StructuralKey(ToolOf[p], d) => c = d
<1> DEFINE Key(c) == StructuralKey(ToolOf[p], c)
<1>1. PICK fresh \in SUBSET loc[p].res.inline, delta \in SUBSET loc[p].res.inline :
        /\ \A c \in loc[p].res.inline : (c \notin fresh) \in HasFinding(p, c)
        /\ delta \subseteq fresh
        /\ \A c, d \in delta : Key(c) = Key(d) => c = d
        /\ loc' = [loc EXCEPT ![p].delta = delta]
  BY DEF FilterInline
<1>2. loc'[p].delta = delta
  BY <1>1 DEF TypeOK, DispatcherTypeOK, Local
<1>3. ASSUME NEW c \in delta PROVE ~MemHas(store["posted"].recs, ToolOf[p], c)
  <2>1. HasFinding(p, c) = {MemHas(store["posted"].recs, ToolOf[p], c)}
    BY OneStore, ZenonT(40) DEF HasFinding, SavedInv
  <2>2. (c \notin fresh) = MemHas(store["posted"].recs, ToolOf[p], c)
    BY <1>1, <2>1
  <2>3. MemHas(store["posted"].recs, ToolOf[p], c) \in BOOLEAN
    BY DEF MemHas
  <2> QED
    BY <1>1, <2>2, <2>3
<1> HIDE DEF Key
<1> QED
  BY <1>1, <1>2, <1>3 DEF Key

\* A comment the store does not know has a key the store does not know.
LEMMA UnknownKey ==
  ASSUME NEW recs, NEW rec \in recs, RecordProper(rec), NEW tool, NEW c,
         ~MemHas(recs, tool, c)
  PROVE  rec.sk # StructuralKey(tool, c)
<1> SUFFICES ASSUME rec.sk = StructuralKey(tool, c) PROVE FALSE
  OBVIOUS
<1>1. PICK d \in Comment :
        /\ rec.file = d.file /\ rec.sev = d.sev
        /\ rec.sk = StructuralKey(rec.tool, d)
  BY DEF RecordProper
<1>2. rec.tool = tool /\ d.file = c.file /\ d.sev = c.sev
  BY <1>1 DEF StructuralKey
<1>3. SameBucket(rec, tool, c) /\ OpenMatch(rec, tool, c)
  BY <1>1, <1>2 DEF SameBucket, OpenMatch
<1> QED
  BY <1>3 DEF MemHas, RecordProper

\* One RecordFinding in memory.
LEMMA RecordedIs ==
  ASSUME QueueKind = "memory", TypeOK, NEW p \in Procs, RecordFinding(p)
  PROVE  \E ref \in loc[p].refs :
           /\ ref.comment \in Comment /\ ref.eid \in ThreadId \cup {NoId}
           /\ store'["posted"].recs =
                MemRecord(store["posted"].recs, ToolOf[p], ref.eid, ref.comment)
           /\ store'["posted"].on = store["posted"].on
           /\ loc'[p].refs = loc[p].refs \ {ref}
           /\ pc'[p] = IF loc[p].refs = {ref} THEN "resolve" ELSE "record"
<1>1. PICK ref \in loc[p].refs :
        /\ store' = [store EXCEPT !["posted"].recs = Recorded(p, ref.eid, ref.comment)]
        /\ loc' = [loc EXCEPT ![p].refs = @ \ {ref}]
        /\ Goto(p, IF loc[p].refs = {ref} THEN "resolve" ELSE "record")
  BY OneStore DEF RecordFinding
<1>2. ref.comment \in Comment /\ ref.eid \in ThreadId \cup {NoId}
  BY DEF TypeOK, DispatcherTypeOK, Local
<1>3. Recorded(p, ref.eid, ref.comment)
        = MemRecord(store["posted"].recs, ToolOf[p], ref.eid, ref.comment)
  BY OneStore DEF Recorded
<1>4. /\ store'["posted"].recs = Recorded(p, ref.eid, ref.comment)
      /\ store'["posted"].on = store["posted"].on
  BY <1>1, OneStore DEF Store, TypeOK, DispatcherTypeOK
<1>5. loc'[p].refs = loc[p].refs \ {ref}
  BY <1>1 DEF TypeOK, DispatcherTypeOK, Local
<1>6. pc'[p] = IF loc[p].refs = {ref} THEN "resolve" ELSE "record"
  BY <1>1 DEF Goto, TypeOK, DispatcherTypeOK
<1> QED
  BY <1>2, <1>3, <1>4, <1>5, <1>6

\* A step of a job at work keeps the records of threads.
LEMMA ToolStepKeepsSaved ==
  ASSUME NothingLostBetween, TypeOK, SavedInv, NEW p \in Procs, ToolStep(p)
  PROVE  /\ \A rec \in store'["posted"].recs : RecordProper(rec)
         /\ store'["posted"].on
         /\ \A th \in threads' :
              Unsaved(th.sk)' \/ \E rec \in store'["posted"].recs : rec.sk = th.sk
<1> DEFINE recs == store["posted"].recs
           Had(k) == Unsaved(k) \/ \E rec \in recs : rec.sk = k
           Has(k) == Unsaved(k)' \/ \E rec \in store'["posted"].recs : rec.sk = k
<1>0. /\ DispatchStep(p) /\ DispatcherTypeOK /\ ThreadsProper
      /\ store["posted"].on /\ (\A rec \in recs : RecordProper(rec))
      /\ \A th \in threads : Had(th.sk)
  BY OneStore DEF ToolStep, TypeOK, SavedInv, NothingLostBetween
<1>1. \A q \in Procs : pc[q] # "idle" => q = p
  <2>1. pc[p] # "idle"
    BY <1>0, StepAndMutex DEF Working, DispatcherTypeOK
  <2> QED
    BY <2>1 DEF SavedInv, OneJob
<1>2. \A a \in threads : \E b \in threads' : Becomes(a, b)
  BY <1>0, StepThreads
<1>3. \A b \in threads' :
        \/ \E a \in threads : Becomes(a, b)
        \/ /\ pc[p] = "post"
           /\ \E c \in loc[p].delta, a \in BOOLEAN : b = NewThread(ToolOf[p], c, a)
  BY <1>0, StepThreads
<1>4. CASE pc[p] \notin {"post", "record"}
  <2>1. store'["posted"].recs = recs /\ store'["posted"].on
    <3>1. \A rec \in store'["posted"].recs : rec \in recs
      BY <1>0, <1>4, OneStore, StepRecords DEF NothingLostBetween
    <3>2. CASE UNCHANGED store
      BY <1>0, <3>2
    <3>3. CASE pc[p] = "section"
      <4> DEFINE v == [store["posted"] EXCEPT !.secs[ToolOf[p]] = loc[p].head]
      <4>1. UNCHANGED store \/ store' = [store EXCEPT !["posted"] = v]
        BY <1>0, <3>3, WhichStep, OneStore DEF PutSection, NothingLostBetween
      <4>2. v.recs = recs /\ v.on = store["posted"].on
        BY OneStore DEF Store, NothingLostBetween
      <4> HIDE DEF v
      <4>3. store \in [Stores -> Store] /\ "posted" \in Stores
        BY OneStore DEF TypeOK, DispatcherTypeOK, NothingLostBetween
      <4> QED
        BY <1>0, <4>1, <4>2, <4>3
    <3>4. CASE pc[p] = "putid"
      <4> DEFINE v == [store["posted"] EXCEPT !.sum = loc[p].existing]
      <4>1. UNCHANGED store \/ store' = [store EXCEPT !["posted"] = v]
        BY <1>0, <3>4, WhichStep, OneStore DEF PutSummaryID, NothingLostBetween
      <4>2. v.recs = recs /\ v.on = store["posted"].on
        BY OneStore DEF Store, NothingLostBetween
      <4> HIDE DEF v
      <4>3. store \in [Stores -> Store] /\ "posted" \in Stores
        BY OneStore DEF TypeOK, DispatcherTypeOK, NothingLostBetween
      <4> QED
        BY <1>0, <4>1, <4>2, <4>3
    <3> QED
      BY <1>0, <1>4, <3>2, <3>3, <3>4, WhoWrites
  <2>2. \A b \in threads' : \E a \in threads : a.sk = b.sk
    BY <1>3, <1>4 DEF Becomes
  <2>3. \A k : ~Unsaved(k)
    BY <1>1, <1>4 DEF Unsaved
  <2> QED
    BY <1>0, <2>1, <2>2, <2>3
<1>5. CASE pc[p] = "post"
  <2>1. PICK answer \in PostInlineComments(ToolOf[p], loc[p].delta) :
          /\ threads' = threads \cup answer.created
          /\ loc' = [loc EXCEPT ![p].refs = answer.refs, ![p].delta = {}]
          /\ Goto(p, IF store["posted"].on /\ answer.refs # {} THEN "record" ELSE "resolve")
    BY <1>0, <1>5, WhichStep, OneStore DEF PostInline, NothingLostBetween
  <2>2. UNCHANGED store
    BY <1>0, <1>5, WhoWrites
  <2>3. loc'[p].refs = answer.refs
    BY <2>1 DEF TypeOK, DispatcherTypeOK, Local
  <2>4. ASSUME NEW th \in answer.created PROVE Unsaved(th.sk)'
    <3>1. PICK ref \in answer.refs, a \in BOOLEAN : th = NewThread(ToolOf[p], ref.comment, a)
      BY AnswerNames DEF NothingLostBetween
    <3>2. th.sk = StructuralKey(ToolOf[p], ref.comment)
      BY <3>1 DEF NewThread
    <3>3. pc'[p] = "record"
      BY <1>0, <2>1, <3>1 DEF Goto, DispatcherTypeOK
    <3> QED
      BY <2>3, <3>2, <3>3 DEF Unsaved
  <2>5. \A k : ~Unsaved(k)
    BY <1>1, <1>5 DEF Unsaved
  <2> QED
    BY <1>0, <2>1, <2>2, <2>4, <2>5
<1>6. CASE pc[p] = "record"
  <2>1. PICK ref \in loc[p].refs :
          /\ ref.comment \in Comment /\ ref.eid \in ThreadId \cup {NoId}
          /\ store'["posted"].recs = MemRecord(recs, ToolOf[p], ref.eid, ref.comment)
          /\ store'["posted"].on = store["posted"].on
          /\ loc'[p].refs = loc[p].refs \ {ref}
          /\ pc'[p] = IF loc[p].refs = {ref} THEN "resolve" ELSE "record"
    BY <1>0, <1>6, WhichStep, RecordedIs DEF NothingLostBetween
  <2>2. /\ \A a \in recs : \E b \in store'["posted"].recs : SameFinding(a, b)
        /\ \A b \in store'["posted"].recs :
             \/ b \in recs
             \/ b = NewRec(ToolOf[p], ref.eid, ref.comment)
             \/ \E a \in recs : SameFinding(a, b)
        /\ \E b \in store'["posted"].recs : b.fp = Fingerprint(ToolOf[p], ref.comment)
    BY <2>1, OneStore, MemRecordIs DEF NothingLostBetween
  <2>3. RecordProper(NewRec(ToolOf[p], ref.eid, ref.comment))
    BY <2>1 DEF RecordProper, NewRec
  <2>4. \A a, b : SameFinding(a, b) /\ RecordProper(a) => RecordProper(b)
    BY DEF SameFinding, RecordProper
  <2>5. \A rec \in store'["posted"].recs : RecordProper(rec)
    BY <1>0, <2>2, <2>3, <2>4
  <2>6. \E b \in store'["posted"].recs : b.sk = StructuralKey(ToolOf[p], ref.comment)
    <3>1. PICK b \in store'["posted"].recs : b.fp = Fingerprint(ToolOf[p], ref.comment)
      BY <2>2
    <3>2. PICK c \in Comment :
            b.fp = Fingerprint(b.tool, c) /\ b.sk = StructuralKey(b.tool, c)
      BY <2>5 DEF RecordProper
    <3>3. b.tool = ToolOf[p] /\ c = ref.comment
      BY <3>1, <3>2 DEF Fingerprint
    <3> QED
      BY <3>2, <3>3
  <2>7. ASSUME NEW k, Had(k) PROVE Has(k)
    <3>1. ASSUME NEW a \in recs, a.sk = k PROVE Has(k)
      BY <2>2, <3>1 DEF SameFinding
    <3>2. ASSUME NEW r \in loc[p].refs, StructuralKey(ToolOf[p], r.comment) = k
          PROVE  Has(k)
      <4>1. CASE r = ref
        BY <2>6, <3>2, <4>1
      <4>2. CASE r # ref
        <5>1. r \in loc'[p].refs /\ pc'[p] = "record"
          BY <2>1, <4>2
        <5>2. Unsaved(k)'
          BY <3>2, <5>1 DEF Unsaved
        <5> QED
          BY <5>2
      <4> QED
        BY <4>1, <4>2
    <3>3. Unsaved(k) => \E r \in loc[p].refs : StructuralKey(ToolOf[p], r.comment) = k
      BY <1>1 DEF Unsaved
    <3> HIDE DEF Has
    <3> QED
      BY <2>7, <3>1, <3>2, <3>3
  <2>8. \A b \in threads' : \E a \in threads : a.sk = b.sk
    BY <1>3, <1>6 DEF Becomes
  <2> HIDE DEF Had, Has
  <2>9. \A b \in threads' : Has(b.sk)
    BY <1>0, <2>7, <2>8
  <2> QED
    BY <1>0, <2>1, <2>5, <2>9 DEF Has
<1> QED
  BY <1>4, <1>5, <1>6

\* What a job is about to post has keys of its own.
LEMMA DeltaIsUnknown ==
  ASSUME NothingLostBetween, TypeOK, SavedInv, NEW p \in Procs, ToolStep(p),
         pc'[p] = "post"
  PROVE  /\ \A c \in loc'[p].delta : \A rec \in store'["posted"].recs :
              rec.sk # StructuralKey(ToolOf[p], c)
         /\ \A c, d \in loc'[p].delta :
              StructuralKey(ToolOf[p], c) = StructuralKey(ToolOf[p], d) => c = d
<1>1. FilterInline(p) /\ UNCHANGED store
  BY CameFrom, WhichStep DEF ToolStep, TypeOK, FilterInline
<1>2. \A rec \in store["posted"].recs : RecordProper(rec)
  BY OneStore DEF SavedInv, NothingLostBetween
<1> QED
  BY <1>1, <1>2, FilteredIs, UnknownKey DEF NothingLostBetween

\* Posting makes no second thread of a key.
LEMMA PostMakesNoTwins ==
  ASSUME NothingLostBetween, TypeOK, SavedInv, NEW p \in Procs, ToolStep(p), ThreadsProper'
  PROVE  NoTwinThreads'
<1>0. DispatchStep(p) /\ DispatcherTypeOK /\ ThreadsProper
  BY DEF ToolStep, TypeOK, SavedInv
<1>1. \A b \in threads' :
        \/ \E a \in threads : Becomes(a, b)
        \/ /\ pc[p] = "post"
           /\ \E c \in loc[p].delta, a \in BOOLEAN : b = NewThread(ToolOf[p], c, a)
  BY <1>0, StepThreads
<1>2. pc[p] = "post" => \A k : ~Unsaved(k)
  <2> SUFFICES ASSUME pc[p] = "post", NEW q \in Procs, pc[q] = "record" PROVE FALSE
    BY DEF Unsaved
  <2>1. q = p
    BY DEF SavedInv, OneJob
  <2> QED
    BY <2>1
<1>3. ASSUME pc[p] = "post", NEW x \in threads, NEW a, Becomes(x, a), NEW c \in loc[p].delta,
             a.sk = StructuralKey(ToolOf[p], c)
      PROVE  FALSE
  <2>1. PICK rec \in store["posted"].recs : rec.sk = x.sk
    BY <1>2, <1>3, OneStore DEF SavedInv, NothingLostBetween
  <2>2. rec.sk = StructuralKey(ToolOf[p], c)
    BY <1>3, <2>1 DEF Becomes
  <2> QED
    BY <1>3, <2>2, OneStore DEF SavedInv, NothingLostBetween
<1>4. \A c, x : NewThread(ToolOf[p], c, x).sk = StructuralKey(ToolOf[p], c)
  BY DEF NewThread
<1>5. \A c, x, y : NewThread(ToolOf[p], c, x).id = NewThread(ToolOf[p], c, y).id
  BY DEF NewThread
<1>6. ASSUME NEW a \in threads', NEW b \in threads', a.sk = b.sk PROVE a = b
  <2>1. ASSUME NEW x \in threads, Becomes(x, a), NEW y \in threads, Becomes(y, b)
        PROVE  a = b
    <3>1. x = y
      BY <1>6, <2>1, ZenonT(40) DEF Becomes, SavedInv, NoTwinThreads
    <3> QED
      BY <2>1, <3>1 DEF Becomes, ThreadsProper
  <2>2. ASSUME pc[p] = "post", NEW c \in loc[p].delta, NEW x \in BOOLEAN,
               a = NewThread(ToolOf[p], c, x), NEW y \in threads, Becomes(y, b)
        PROVE  FALSE
    BY <1>3, <1>4, <1>6, <2>2
  <2>3. ASSUME pc[p] = "post", NEW c \in loc[p].delta, NEW x \in BOOLEAN,
               b = NewThread(ToolOf[p], c, x), NEW y \in threads, Becomes(y, a)
        PROVE  FALSE
    BY <1>3, <1>4, <1>6, <2>3
  <2>4. ASSUME pc[p] = "post", NEW c \in loc[p].delta, NEW x \in BOOLEAN,
               a = NewThread(ToolOf[p], c, x), NEW d \in loc[p].delta, NEW y \in BOOLEAN,
               b = NewThread(ToolOf[p], d, y)
        PROVE  a = b
    <3>1. c = d
      BY <1>4, <1>6, <2>4, OneStore DEF SavedInv
    <3> QED
      BY <1>5, <2>4, <3>1 DEF ThreadsProper
  <2> QED
    BY <1>1, <2>1, <2>2, <2>3, <2>4
<1> QED
  BY <1>6 DEF NoTwinThreads

\* What happens outside the jobs changes threads in place.
LEMMA OutsideThreads ==
  ASSUME TypeOK, ThreadsProper, [Next]_serverVars, Outside
  PROVE  \A b \in threads' : \E a \in threads : Becomes(a, b)
<1>1. CASE UNCHANGED threads
  BY <1>1 DEF Becomes
<1>2. CASE PushSync
  BY <1>2, PushThreads DEF PushSync, TypeOK, DispatcherTypeOK
<1>3. ASSUME NEW p \in Procs, ToolStep(p) PROVE UNCHANGED threads
  <2>1. pc[p] \in Working /\ pc'[p] = pc[p]
    BY <1>3, StepAndMutex DEF ToolStep, TypeOK, Outside
  <2>2. CASE pc[p] = "post"
    BY <1>3, <2>1, <2>2, WhichStep, ZenonT(40) DEF ToolStep, PostInline, Goto, TypeOK, DispatcherTypeOK
  <2>3. CASE pc[p] = "resolve"
    <3>1. PICK f \in StalePriors(p) : loc' = [loc EXCEPT ![p].prior = @ \ {f}]
      BY <1>3, <2>1, <2>3, WhichStep
         DEF ToolStep, ResolveStale, FinishInline, AfterInline, Finish, Goto, TypeOK,
             DispatcherTypeOK
    <3>2. loc'[p].prior = loc[p].prior \ {f} /\ f \in loc[p].prior
      BY <3>1 DEF TypeOK, DispatcherTypeOK, Local, StalePriors
    <3> QED
      BY <3>2 DEF Outside
  <2> QED
    BY <1>3, <2>2, <2>3, WhoWrites DEF ToolStep
<1> QED
  BY <1>1, <1>2, <1>3 DEF Next, Receive, Enqueue, Take, EndJob, Crash, Reopen,
     SlashCommand, serverVars, vars, prVars

\* It keeps the records of threads.
LEMMA OutsideKeepsSaved ==
  ASSUME NothingLostBetween, TypeOK, SavedInv, [Next]_serverVars, Outside
  PROVE  SavedInv'
<1>0. ThreadsProper' /\ OneJob'
  BY ThreadsStay, NextKeepsOneJob DEF SavedInv, NothingLostBetween
<1>1. \A b \in threads' : \E a \in threads : Becomes(a, b)
  BY OutsideThreads DEF SavedInv
<1>2. NoTwinThreads'
  <2> SUFFICES ASSUME NEW a \in threads', NEW b \in threads', a.sk = b.sk PROVE a = b
    BY DEF NoTwinThreads
  <2>1. PICK x \in threads, y \in threads : Becomes(x, a) /\ Becomes(y, b)
    BY <1>1
  <2>2. x = y
    BY <2>1, ZenonT(40) DEF Becomes, SavedInv, NoTwinThreads
  <2> QED
    BY <1>0, <2>1, <2>2 DEF Becomes, ThreadsProper
<1>3. \A k : Unsaved(k) => Unsaved(k)'
  BY DEF Unsaved, Outside, Working
<1>4. ASSUME NEW s \in Stores, NEW b \in threads'
      PROVE  Unsaved(b.sk)' \/ \E rec \in store'[s].recs : rec.sk = b.sk
  <2>1. PICK a \in threads : a.sk = b.sk
    BY <1>1 DEF Becomes
  <2>2. Unsaved(b.sk) \/ \E rec \in store[s].recs : rec.sk = b.sk
    BY <2>1 DEF SavedInv
  <2> QED
    BY <1>3, <2>2 DEF Outside
<1>5. ASSUME NEW p \in Procs, pc'[p] = "post"
      PROVE  pc[p] = "post"
  BY <1>5 DEF Outside, Working
<1> QED
  BY <1>0, <1>2, <1>4, <1>5 DEF SavedInv, Outside

\* One step of anybody.
LEMMA NextKeepsSaved ==
  ASSUME NothingLostBetween, TypeOK, SavedInv, [Next]_serverVars
  PROVE  SavedInv'
<1>1. CASE Outside
  BY <1>1, OutsideKeepsSaved
<1>2. ASSUME NEW p \in Procs, ToolStep(p) PROVE SavedInv'
  <2>1. ThreadsProper' /\ OneJob'
    BY ThreadsStay, NextKeepsOneJob DEF SavedInv, NothingLostBetween
  <2>2. NoTwinThreads'
    BY <1>2, <2>1, PostMakesNoTwins
  <2>3. Stores = {"posted"} /\ StoreOf \in [Procs -> {"posted"}]
    BY OneStore, DispatcherAssumption DEF NothingLostBetween
  <2>4. ASSUME NEW q \in Procs, pc'[q] = "post" PROVE q = p
    <3>1. pc'[p] # "idle"
      BY <1>2, CameFrom DEF ToolStep, TypeOK
    <3> QED
      BY <2>1, <2>4, <3>1 DEF OneJob
  <2>5. /\ \A rec \in store'["posted"].recs : RecordProper(rec)
        /\ store'["posted"].on
        /\ \A th \in threads' :
             Unsaved(th.sk)' \/ \E rec \in store'["posted"].recs : rec.sk = th.sk
    BY <1>2, ToolStepKeepsSaved
  <2>6. ASSUME NEW q \in Procs, pc'[q] = "post"
        PROVE  /\ \A c \in loc'[q].delta : \A rec \in store'[StoreOf[q]].recs :
                    rec.sk # StructuralKey(ToolOf[q], c)
               /\ \A c, d \in loc'[q].delta :
                    StructuralKey(ToolOf[q], c) = StructuralKey(ToolOf[q], d) => c = d
    BY <1>2, <2>3, <2>4, <2>6, DeltaIsUnknown
  <2>7. \A s \in Stores : store'[s].on /\ \A rec \in store'[s].recs : RecordProper(rec)
    BY <2>3, <2>5
  <2>8. \A s \in Stores : \A th \in threads' :
          Unsaved(th.sk)' \/ \E rec \in store'[s].recs : rec.sk = th.sk
    BY <2>3, <2>5
  <2> QED
    BY <2>1, <2>2, <2>6, <2>7, <2>8 DEF SavedInv
<1> QED
  BY <1>1, <1>2, InOrOut DEF NothingLostBetween

\* In every behaviour of the server on the memory queue.
THEOREM PostedIsRecorded ==
  ASSUME NothingLostBetween
  PROVE  Spec => []SavedInv
<1>1. Init => SavedInv
  <2> SUFFICES ASSUME Init PROVE SavedInv
    OBVIOUS
  <2>1. threads = {} /\ \A p \in Procs : pc[p] = "idle"
    BY DEF Init, NothingLostBetween
  <2>2. \A s \in Stores : store[s].on /\ store[s].recs = {}
    BY DEF Init, EmptyStore, NothingLostBetween
  <2> QED
    BY <2>1, <2>2 DEF SavedInv, ThreadsProper, NoTwinThreads, OneJob
<1> QED
  BY <1>1, NextKeepsSaved, TypeCorrect, PTL DEF Spec

\* In memory mode no finding has two threads, whatever is pushed, commanded or
\* reopened and however often a job fails, as long as nothing is lost between
\* the PR and the store: a process that dies, an answer of GitHub that does.
THEOREM NoTwins ==
  ASSUME NothingLostBetween
  PROVE  Spec => []NoTwinThreads
<1>1. SavedInv => NoTwinThreads
  BY DEF SavedInv
<1> QED
  BY <1>1, PostedIsRecorded, PTL

-----------------------------------------------------------------------------
(* Auto-resolution closes what a run no longer reports.                    *)

\* The service names the discussions it creates, and closes them when asked.
DiscussionsNamed ==
  /\ QueueKind = "memory" /\ MaxCrashes = 0 /\ Legacy = {}
  /\ Provider = "gitlab" /\ "lost" \notin Faults /\ "resolve" \notin Faults

\* A record, or the view of one, that leads to a thread.
LeadsTo(f, th) == f.eid = th.id /\ f.sk = th.sk /\ f.tool = th.tool

AboutToName(th) ==
  \E p \in Procs :
    /\ pc[p] = "record"
    /\ \E ref \in loc[p].refs :
         ref.eid = th.id /\ StructuralKey(ToolOf[p], ref.comment) = th.sk

Reported(p, th) == \E c \in loc[p].res.inline : th.sk = StructuralKey(ToolOf[p], c)

Closable(p, th) == th.tool = ToolOf[p] /\ th.anchored /\ th.state = "open"

\* A server never reviews a part of the change only (its stores have no
\* reviewed head); the store leads to every thread that can be closed, or is
\* about to; a job knows those its tool did not report when it read the store.
NamedInv ==
  /\ \A s \in Stores : store[s].sha = 0
  /\ \A p \in Procs : pc[p] \in Working \ {"fetch"} => ~loc[p].incr
  /\ \A s \in Stores : \A th \in threads : th.anchored =>
       AboutToName(th) \/ \E rec \in store[s].recs : LeadsTo(rec, th)
  /\ \A p \in Procs : pc[p] = "record" =>
       /\ \A s \in Stores : \A rec \in store[s].recs, ref \in loc[p].refs :
            rec.sk # StructuralKey(ToolOf[p], ref.comment)
       /\ \A q, r \in loc[p].refs :
            StructuralKey(ToolOf[p], q.comment) = StructuralKey(ToolOf[p], r.comment) => q = r
  /\ \A p \in Procs : pc[p] = "post" => loc[p].delta \subseteq loc[p].res.inline
  /\ \A p \in Procs : pc[p] \in {"filter", "post", "record", "resolve"} =>
       \A th \in threads : Closable(p, th) =>
         Reported(p, th) \/ \E f \in loc[p].prior : LeadsTo(f, th)
  /\ \A p \in Procs : pc[p] = "check" =>
       \A th \in threads : Closable(p, th) => Reported(p, th)

\* The adapter of GitLab answers one ref per comment, and with the id of every
\* discussion it could create.
LEMMA GitlabAnswer ==
  ASSUME Provider = "gitlab", "lost" \notin Faults,
         NEW tool, NEW delta, NEW answer \in PostInlineComments(tool, delta)
  PROVE  /\ \A q, r \in answer.refs : q.comment = r.comment => q = r
         /\ \A th \in answer.created : th.anchored =>
              \E ref \in answer.refs :
                ref.eid = th.id /\ StructuralKey(tool, ref.comment) = th.sk
<1> DEFINE Made(o) == {c \in delta : o[c] # "fail"}
           Created(o) == {NewThread(tool, c, o[c] # "note") : c \in Made(o)}
           Eid(o, c) == IF o[c] = "discussion"
                        THEN [batch |-> nextBatch, comment |-> c] ELSE NoId
           Refs(o) == {[comment |-> c, eid |-> Eid(o, c)] : c \in delta}
           outs == {"discussion", "note"} \cup (IF "inline" \in Faults THEN {"fail"} ELSE {})
           Good(ans) ==
             /\ \A q, r \in ans.refs : q.comment = r.comment => q = r
             /\ \A th \in ans.created : th.anchored =>
                  \E ref \in ans.refs :
                    ref.eid = th.id /\ StructuralKey(tool, ref.comment) = th.sk
<1>1. \/ answer = NoAnswer
      \/ \E o \in [delta -> outs] : answer = [created |-> Created(o), refs |-> Refs(o)]
  BY DEF PostInlineComments, GitlabPost
<1>2. CASE answer = NoAnswer
  BY <1>2 DEF NoAnswer
<1>3. ASSUME NEW o \in [delta -> outs], answer = [created |-> Created(o), refs |-> Refs(o)]
      PROVE  Good(answer)
  <2>1. \A q, r \in Refs(o) : q.comment = r.comment => q = r
    <3>1. \A q \in Refs(o) : q = [comment |-> q.comment, eid |-> Eid(o, q.comment)]
      OBVIOUS
    <3> HIDE DEF Refs, Eid
    <3> QED
      BY <3>1
  <2>2. ASSUME NEW th \in Created(o), th.anchored
        PROVE  \E ref \in Refs(o) :
                 ref.eid = th.id /\ StructuralKey(tool, ref.comment) = th.sk
    <3>1. PICK c \in delta : o[c] # "fail" /\ th = NewThread(tool, c, o[c] # "note")
      OBVIOUS
    <3>2. /\ th.id = [batch |-> nextBatch, comment |-> c] /\ th.sk = StructuralKey(tool, c)
          /\ th.anchored = (o[c] # "note")
      BY <3>1 DEF NewThread
    <3>3. o[c] \in {"discussion", "note", "fail"}
      OBVIOUS
    <3>4. o[c] = "discussion"
      BY <2>2, <3>1, <3>2, <3>3
    <3>5. [comment |-> c, eid |-> Eid(o, c)] \in Refs(o) /\ Eid(o, c) = th.id
      BY <3>2, <3>4
    <3> DEFINE ref == [comment |-> c, eid |-> Eid(o, c)]
    <3>6. ref \in Refs(o) /\ ref.comment = c /\ ref.eid = th.id
      BY <3>5
    <3> HIDE DEF ref, Refs, Eid
    <3> QED
      BY <3>2, <3>6
  <2> HIDE DEF Created, Refs
  <2> QED
    BY <1>3, <2>1, <2>2
<1> HIDE DEF Good
<1>4. Good(answer)
  BY <1>1, <1>2, <1>3 DEF Good, NoAnswer
<1> QED
  BY <1>4 DEF Good

\* A finding whose key no record has is recorded with the id it came with.
LEMMA RecordedFresh ==
  ASSUME NEW recs, NEW tool, NEW eid, NEW c,
         \A rec \in recs : RecordProper(rec) /\ rec.sk # StructuralKey(tool, c)
  PROVE  MemRecord(recs, tool, eid, c) = recs \cup {NewRec(tool, eid, c)}
<1>1. ASSUME NEW rec \in recs, rec.fp = Fingerprint(tool, c) PROVE FALSE
  <2>1. PICK d \in Comment :
          rec.fp = Fingerprint(rec.tool, d) /\ rec.sk = StructuralKey(rec.tool, d)
    BY DEF RecordProper
  <2>2. rec.tool = tool /\ d = c
    BY <1>1, <2>1 DEF Fingerprint
  <2> QED
    BY <2>1, <2>2
<1> QED
  BY <1>1 DEF MemRecord

\* The ways the store and the threads change in a step of a job.
LEMMA StoreSteps ==
  ASSUME QueueKind = "memory", TypeOK, SavedInv, NamedInv, NEW p \in Procs, ToolStep(p)
  PROVE  /\ store'["posted"].sha = store["posted"].sha
         /\ pc[p] # "record" => store'["posted"].recs = store["posted"].recs
         /\ pc[p] = "record" => \E ref \in loc[p].refs :
              /\ store'["posted"].recs =
                   store["posted"].recs \cup {NewRec(ToolOf[p], ref.eid, ref.comment)}
              /\ loc'[p].refs = loc[p].refs \ {ref}
              /\ pc'[p] = IF loc[p].refs = {ref} THEN "resolve" ELSE "record"
<1>0. /\ DispatchStep(p) /\ DispatcherTypeOK /\ store["posted"] \in Store
      /\ store \in [Stores -> Store] /\ "posted" \in Stores /\ StoreOf[p] = "posted"
  BY OneStore DEF ToolStep, TypeOK, DispatcherTypeOK
<1>1. \/ UNCHANGED store
      \/ \E v : /\ store' = [store EXCEPT !["posted"] = v] /\ v.sha = store["posted"].sha
                /\ pc[p] # "record" => v.recs = store["posted"].recs
  <2>1. CASE pc[p] = "section"
    <3> DEFINE v == [store["posted"] EXCEPT !.secs[ToolOf[p]] = loc[p].head]
    <3>1. UNCHANGED store \/ store' = [store EXCEPT !["posted"] = v]
      BY <1>0, <2>1, WhichStep DEF PutSection
    <3>2. v.recs = store["posted"].recs /\ v.sha = store["posted"].sha
      BY <1>0 DEF Store
    <3> QED
      BY <3>1, <3>2
  <2>2. CASE pc[p] = "putid"
    <3> DEFINE v == [store["posted"] EXCEPT !.sum = loc[p].existing]
    <3>1. UNCHANGED store \/ store' = [store EXCEPT !["posted"] = v]
      BY <1>0, <2>2, WhichStep DEF PutSummaryID
    <3>2. v.recs = store["posted"].recs /\ v.sha = store["posted"].sha
      BY <1>0 DEF Store
    <3> QED
      BY <3>1, <3>2
  <2>3. CASE pc[p] = "record"
    <3>0. PICK ref \in loc[p].refs :
            \/ UNCHANGED store
            \/ store' = [store EXCEPT !["posted"].recs = Recorded(p, ref.eid, ref.comment)]
      BY <1>0, <2>3, WhichStep DEF RecordFinding
    <3> DEFINE v == [store["posted"] EXCEPT !.recs = Recorded(p, ref.eid, ref.comment)]
    <3>1. UNCHANGED store \/ store' = [store EXCEPT !["posted"] = v]
      BY <1>0, <3>0
    <3>2. v.sha = store["posted"].sha
      BY <1>0 DEF Store
    <3> QED
      BY <2>3, <3>1, <3>2
  <2> QED
    BY <1>0, <2>1, <2>2, <2>3, WhoWrites
<1>2. /\ store'["posted"].sha = store["posted"].sha
      /\ pc[p] # "record" => store'["posted"].recs = store["posted"].recs
  BY <1>0, <1>1
<1>3. ASSUME pc[p] = "record"
      PROVE  \E ref \in loc[p].refs :
              /\ store'["posted"].recs =
                   store["posted"].recs \cup {NewRec(ToolOf[p], ref.eid, ref.comment)}
              /\ loc'[p].refs = loc[p].refs \ {ref}
              /\ pc'[p] = IF loc[p].refs = {ref} THEN "resolve" ELSE "record"
  <2>1. PICK ref \in loc[p].refs :
          /\ store'["posted"].recs =
               MemRecord(store["posted"].recs, ToolOf[p], ref.eid, ref.comment)
          /\ loc'[p].refs = loc[p].refs \ {ref}
          /\ pc'[p] = IF loc[p].refs = {ref} THEN "resolve" ELSE "record"
    BY <1>0, <1>3, WhichStep, RecordedIs
  <2>2. \A rec \in store["posted"].recs :
          RecordProper(rec) /\ rec.sk # StructuralKey(ToolOf[p], ref.comment)
    BY <1>0, <1>3 DEF SavedInv, NamedInv
  <2> QED
    BY <2>1, <2>2, RecordedFresh
<1> QED
  BY <1>2, <1>3

\* While a job is at work there is no other.
LEMMA OnlyOne ==
  ASSUME TypeOK, OneJob, NEW p \in Procs, ToolStep(p)
  PROVE  /\ \A q \in Procs : pc[q] # "idle" => q = p
         /\ \A q \in Procs : pc'[q] # "idle" => q = p
<1>0. DispatchStep(p) /\ DispatcherTypeOK
  BY DEF ToolStep, TypeOK
<1>1. pc[p] # "idle"
  BY <1>0, StepAndMutex DEF Working
<1>2. \A q \in Procs : pc[q] # "idle" => q = p
  BY <1>1 DEF OneJob
<1>3. \A q \in Procs \ {p} : pc'[q] = pc[q]
  BY <1>0, OthersStay
<1> QED
  BY <1>2, <1>3

\* A job reviews the whole change.
LEMMA FullReviews ==
  ASSUME QueueKind = "memory", TypeOK, NamedInv, NEW p \in Procs, ToolStep(p),
         pc'[p] \in Working
  PROVE  ~loc'[p].incr
<1>0. DispatchStep(p) /\ DispatcherTypeOK /\ pc[p] \in Working /\ loc \in [Procs -> Local]
  BY StepAndMutex DEF ToolStep, TypeOK, DispatcherTypeOK
<1>1. CASE pc[p] = "fetch"
  <2> DEFINE l == [EmptyLocal EXCEPT !.head = HeadSHA, !.user = prBody.user,
                                     !.section = prBody.cadoo]
  <2>1. loc' = [loc EXCEPT ![p] = l]
    BY <1>0, <1>1, WhichStep DEF Fetch, Finish, Goto, Working, DispatcherTypeOK
  <2>2. ~l.incr
    BY DEF EmptyLocal
  <2> HIDE DEF l
  <2> QED
    BY <1>0, <2>1, <2>2
<1>2. CASE pc[p] = "diff"
  <2>1. store["posted"].sha = 0 /\ St(p) = store["posted"]
    BY OneStore DEF NamedInv
  <2>2. UNCHANGED loc
    BY <1>0, <1>2, <2>1, WhichStep DEF Diff
  <2> QED
    BY <1>2, <2>2 DEF NamedInv, Working
<1>3. CASE pc[p] \notin {"fetch", "diff"}
  <2>1. loc'[p].incr = loc[p].incr
    BY <1>0, <1>3, LocalsKept
  <2> QED
    BY <1>0, <1>3, <2>1 DEF NamedInv
<1> QED
  BY <1>1, <1>2, <1>3

\* The post of a job: what it finds out about the discussions.
LEMMA PostedIs ==
  ASSUME DiscussionsNamed, TypeOK, SavedInv, NEW p \in Procs, ToolStep(p), pc[p] = "post"
  PROVE  \E answer \in PostInlineComments(ToolOf[p], loc[p].delta) :
           /\ threads' = threads \cup answer.created
           /\ loc'[p].refs = answer.refs
           /\ loc'[p].prior = loc[p].prior
           /\ answer.refs # {} => pc'[p] = "record"
<1>0. DispatchStep(p) /\ DispatcherTypeOK /\ St(p).on
  BY OneStore DEF ToolStep, TypeOK, SavedInv, DiscussionsNamed
<1>1. PICK answer \in PostInlineComments(ToolOf[p], loc[p].delta) :
        /\ threads' = threads \cup answer.created
        /\ loc' = [loc EXCEPT ![p].refs = answer.refs, ![p].delta = {}]
        /\ Goto(p, IF St(p).on /\ answer.refs # {} THEN "record" ELSE "resolve")
  BY <1>0, WhichStep DEF PostInline
<1>2. loc'[p].refs = answer.refs /\ loc'[p].prior = loc[p].prior
  BY <1>0, <1>1 DEF DispatcherTypeOK, Local
<1>3. answer.refs # {} => pc'[p] = "record"
  BY <1>0, <1>1 DEF Goto, DispatcherTypeOK
<1> QED
  BY <1>1, <1>2, <1>3

\* The store leads to every discussion, or is about to.
LEMMA RecordsLead ==
  ASSUME DiscussionsNamed, TypeOK, SavedInv, NamedInv, NEW p \in Procs, ToolStep(p)
  PROVE  \A th \in threads' : th.anchored =>
           AboutToName(th)' \/ \E rec \in store'["posted"].recs : LeadsTo(rec, th)
<1> DEFINE recs == store["posted"].recs
<1>0. /\ DispatchStep(p) /\ DispatcherTypeOK /\ ThreadsProper
      /\ \A q \in Procs : pc[q] # "idle" => q = p
      /\ \A th \in threads : th.anchored =>
           AboutToName(th) \/ \E rec \in recs : LeadsTo(rec, th)
  BY OneStore, OnlyOne DEF ToolStep, TypeOK, SavedInv, NamedInv, DiscussionsNamed
<1>1. \A b \in threads' : pc[p] # "post" => \E a \in threads : Becomes(a, b)
  BY <1>0, StepThreads
<1>2. \A a, b, rec : Becomes(a, b) /\ LeadsTo(rec, a) => LeadsTo(rec, b)
  BY DEF Becomes, LeadsTo
<1>3. CASE pc[p] \notin {"post", "record"}
  <2>1. store'["posted"].recs = recs
    BY <1>3, StoreSteps DEF DiscussionsNamed
  <2>2. \A th : ~AboutToName(th)
    BY <1>0, <1>3 DEF AboutToName
  <2> SUFFICES ASSUME NEW b \in threads', b.anchored
               PROVE  \E rec \in store'["posted"].recs : LeadsTo(rec, b)
    OBVIOUS
  <2>3. PICK a \in threads : Becomes(a, b)
    BY <1>1, <1>3
  <2>4. a.anchored
    BY <2>3 DEF Becomes
  <2> QED
    BY <1>0, <1>2, <2>1, <2>2, <2>3, <2>4
<1>4. CASE pc[p] = "post"
  <2>1. PICK answer \in PostInlineComments(ToolOf[p], loc[p].delta) :
          /\ threads' = threads \cup answer.created
          /\ loc'[p].refs = answer.refs
          /\ answer.refs # {} => pc'[p] = "record"
    BY <1>4, PostedIs
  <2>2. store'["posted"].recs = recs
    BY <1>4, StoreSteps DEF DiscussionsNamed
  <2>3. \A th : ~AboutToName(th)
    BY <1>0, <1>4 DEF AboutToName
  <2>4. ASSUME NEW th \in answer.created, th.anchored PROVE AboutToName(th)'
    <3>1. PICK ref \in answer.refs :
            ref.eid = th.id /\ StructuralKey(ToolOf[p], ref.comment) = th.sk
      BY <2>4, GitlabAnswer DEF DiscussionsNamed
    <3> QED
      BY <2>1, <3>1 DEF AboutToName
  <2> QED
    BY <1>0, <2>1, <2>2, <2>3, <2>4
<1>5. CASE pc[p] = "record"
  <2>1. PICK ref \in loc[p].refs :
          /\ store'["posted"].recs = recs \cup {NewRec(ToolOf[p], ref.eid, ref.comment)}
          /\ loc'[p].refs = loc[p].refs \ {ref}
          /\ pc'[p] = IF loc[p].refs = {ref} THEN "resolve" ELSE "record"
    BY <1>5, StoreSteps DEF DiscussionsNamed
  <2> SUFFICES ASSUME NEW b \in threads', b.anchored
               PROVE  AboutToName(b)' \/ \E rec \in store'["posted"].recs : LeadsTo(rec, b)
    OBVIOUS
  <2>2. PICK a \in threads : Becomes(a, b)
    BY <1>1, <1>5
  <2>3. a.anchored /\ b.id = a.id /\ b.sk = a.sk /\ b.tool = a.tool
    BY <2>2 DEF Becomes
  <2>4. CASE \E rec \in recs : LeadsTo(rec, a)
    BY <1>2, <2>1, <2>2, <2>4
  <2>5. CASE AboutToName(a)
    <3>1. PICK r \in loc[p].refs :
            r.eid = a.id /\ StructuralKey(ToolOf[p], r.comment) = a.sk
      BY <1>0, <2>5 DEF AboutToName
    <3>2. CASE r = ref
      <4> DEFINE new == NewRec(ToolOf[p], r.eid, r.comment)
      <4>1. new.eid = r.eid /\ new.tool = ToolOf[p]
            /\ new.sk = StructuralKey(ToolOf[p], r.comment)
        BY DEF NewRec
      <4>2. new \in store'["posted"].recs
        BY <2>1, <3>2
      <4> HIDE DEF new
      <4>3. a.tool = ToolOf[p]
        <5>1. a.sk = [tool |-> a.tool, file |-> a.file, sev |-> a.sev, nt |-> a.nt]
          BY <1>0 DEF ThreadsProper
        <5>2. StructuralKey(ToolOf[p], r.comment).tool = ToolOf[p]
          BY DEF StructuralKey
        <5> QED
          BY <3>1, <5>1, <5>2
      <4>4. LeadsTo(new, b)
        BY <2>3, <3>1, <4>1, <4>3 DEF LeadsTo
      <4> QED
        BY <4>2, <4>4
    <3>3. CASE r # ref
      <4>1. r \in loc'[p].refs /\ pc'[p] = "record"
        BY <2>1, <3>3
      <4> QED
        BY <2>3, <3>1, <4>1 DEF AboutToName
    <3> QED
      BY <3>2, <3>3
  <2> QED
    BY <1>0, <2>3, <2>4, <2>5
<1> QED
  BY <1>3, <1>4, <1>5

\* What is about to be recorded has keys of its own that no record has.
LEMMA RefsAreNew ==
  ASSUME DiscussionsNamed, TypeOK, SavedInv, NamedInv, NEW p \in Procs, ToolStep(p),
         pc'[p] = "record"
  PROVE  /\ \A rec \in store'["posted"].recs, ref \in loc'[p].refs :
              rec.sk # StructuralKey(ToolOf[p], ref.comment)
         /\ \A q, r \in loc'[p].refs :
              StructuralKey(ToolOf[p], q.comment) = StructuralKey(ToolOf[p], r.comment)
                => q = r
<1> DEFINE recs == store["posted"].recs
           Key(c) == StructuralKey(ToolOf[p], c)
<1>0. DispatchStep(p) /\ DispatcherTypeOK /\ pc[p] \in {"post", "record"}
  BY CameFrom DEF ToolStep, TypeOK
<1>1. CASE pc[p] = "post"
  <2>1. PICK answer \in PostInlineComments(ToolOf[p], loc[p].delta) :
          loc'[p].refs = answer.refs
    BY <1>1, PostedIs
  <2>2. \A ref \in answer.refs : ref.comment \in loc[p].delta
    BY PostAnswer
  <2>3. \A q, r \in answer.refs : q.comment = r.comment => q = r
    BY GitlabAnswer DEF DiscussionsNamed
  <2>4. /\ \A c \in loc[p].delta : \A rec \in recs : rec.sk # Key(c)
        /\ \A c, d \in loc[p].delta : Key(c) = Key(d) => c = d
    BY <1>1, OneStore DEF SavedInv, DiscussionsNamed
  <2>5. store'["posted"].recs = recs
    BY <1>1, StoreSteps DEF DiscussionsNamed
  <2> HIDE DEF Key
  <2>6. /\ \A rec \in store'["posted"].recs, ref \in loc'[p].refs : rec.sk # Key(ref.comment)
        /\ \A q, r \in loc'[p].refs : Key(q.comment) = Key(r.comment) => q = r
    BY <2>1, <2>2, <2>3, <2>4, <2>5
  <2> QED
    BY <2>6 DEF Key
<1>2. CASE pc[p] = "record"
  <2>1. PICK ref \in loc[p].refs :
          /\ store'["posted"].recs = recs \cup {NewRec(ToolOf[p], ref.eid, ref.comment)}
          /\ loc'[p].refs = loc[p].refs \ {ref}
    BY <1>2, StoreSteps DEF DiscussionsNamed
  <2>2. /\ \A rec \in recs, r \in loc[p].refs : rec.sk # Key(r.comment)
        /\ \A q, r \in loc[p].refs : Key(q.comment) = Key(r.comment) => q = r
    BY <1>2, OneStore DEF NamedInv, DiscussionsNamed
  <2>3. NewRec(ToolOf[p], ref.eid, ref.comment).sk = Key(ref.comment)
    BY DEF NewRec
  <2> HIDE DEF Key
  <2>4. /\ \A rec \in store'["posted"].recs, r \in loc'[p].refs : rec.sk # Key(r.comment)
        /\ \A q, r \in loc'[p].refs : Key(q.comment) = Key(r.comment) => q = r
    BY <2>1, <2>2, <2>3
  <2> QED
    BY <2>4 DEF Key
<1> QED
  BY <1>0, <1>1, <1>2

\* A job knows the threads its tool does not report, until it closes them.
LEMMA PriorsLead ==
  ASSUME DiscussionsNamed, TypeOK, SavedInv, NamedInv, NEW p \in Procs, ToolStep(p),
         pc'[p] \in {"filter", "post", "record", "resolve"},
         NEW th \in threads', Closable(p, th)
  PROVE  Reported(p, th)' \/ \E f \in loc'[p].prior : LeadsTo(f, th)
<1>0. /\ DispatchStep(p) /\ DispatcherTypeOK /\ ThreadsProper
      /\ pc[p] \in {"inline", "filter", "post", "record", "resolve"}
  BY CameFrom DEF ToolStep, TypeOK, SavedInv
<1>1. loc'[p].res.inline = loc[p].res.inline
  BY <1>0, LocalsKept DEF Working
<1>2. \A x : Reported(p, x) => Reported(p, x)'
  BY <1>1 DEF Reported
<1>3. \A a, b : Becomes(a, b) /\ Closable(p, b) => Closable(p, a)
  BY DEF Becomes, Closable
<1>4. \A a, b, f : Becomes(a, b) /\ LeadsTo(f, a) => LeadsTo(f, b)
  BY DEF Becomes, LeadsTo
<1>5. \A a, b : Becomes(a, b) /\ Reported(p, a) => Reported(p, b)
  BY DEF Becomes, Reported
<1>6. CASE pc[p] = "inline"
  <2>1. loc'[p].prior = ListPostedFindings(store["posted"].recs)
    BY <1>0, <1>6, WhichStep, OneStore
       DEF SnapshotPriors, DispatcherTypeOK, Local, DiscussionsNamed
  <2>2. ~AboutToName(th)
    BY <1>6, OnlyOne DEF AboutToName, SavedInv
  <2>3. th \in threads /\ th.anchored
    BY <1>0, <1>6, WhoWrites DEF Closable
  <2>4. PICK rec \in store["posted"].recs : LeadsTo(rec, th)
    BY <2>2, <2>3, OneStore DEF NamedInv, DiscussionsNamed
  <2>5. Posted(rec) \in loc'[p].prior /\ LeadsTo(Posted(rec), th)
    BY <2>1, <2>4 DEF ListPostedFindings, Posted, LeadsTo
  <2> QED
    BY <2>5
<1>7. CASE pc[p] = "filter"
  <2>1. loc'[p].prior = loc[p].prior
    BY <1>0, <1>7, WhichStep DEF FilterInline, DispatcherTypeOK, Local
  <2>2. th \in threads
    BY <1>0, <1>7, WhoWrites
  <2> QED
    BY <1>2, <1>7, <2>1, <2>2 DEF NamedInv
<1>8. CASE pc[p] = "post"
  <2>1. PICK answer \in PostInlineComments(ToolOf[p], loc[p].delta) :
          /\ threads' = threads \cup answer.created
          /\ loc'[p].prior = loc[p].prior
    BY <1>8, PostedIs
  <2>2. CASE th \in threads
    BY <1>2, <1>8, <2>1, <2>2 DEF NamedInv
  <2>3. CASE th \in answer.created
    <3>1. PICK c \in loc[p].delta, a \in BOOLEAN : th = NewThread(ToolOf[p], c, a)
      BY <2>3, PostAnswer
    <3>2. c \in loc[p].res.inline /\ th.sk = StructuralKey(ToolOf[p], c)
      BY <1>8, <3>1 DEF NamedInv, NewThread
    <3> QED
      BY <1>2, <3>2 DEF Reported
  <2> QED
    BY <2>1, <2>2, <2>3
<1>9. CASE pc[p] = "record"
  <2>1. loc'[p].prior = loc[p].prior
    <3>1. PICK ref \in loc[p].refs : loc' = [loc EXCEPT ![p].refs = loc[p].refs \ {ref}]
      BY <1>0, <1>9, WhichStep DEF RecordFinding, DispatcherTypeOK
    <3> QED
      BY <1>0, <3>1 DEF DispatcherTypeOK, Local
  <2>2. th \in threads
    BY <1>0, <1>9, WhoWrites
  <2> QED
    BY <1>2, <1>9, <2>1, <2>2 DEF NamedInv
<1>10. CASE pc[p] = "resolve"
  <2>1. CASE FinishInline(p)
    <3>1. UNCHANGED <<threads, loc>>
      BY <1>0, <2>1 DEF FinishInline, AfterInline, Finish, Goto, prVars, DispatcherTypeOK
    <3> QED
      BY <1>2, <1>10, <3>1 DEF NamedInv
  <2>2. CASE ResolveStale(p)
    <3>1. PICK f \in StalePriors(p) :
            threads' = ResolveThread(f.eid) /\ loc' = [loc EXCEPT ![p].prior = @ \ {f}]
      BY <2>2 DEF ResolveStale, DiscussionsNamed
    <3>2. loc'[p].prior = loc[p].prior \ {f}
      BY <1>0, <3>1 DEF DispatcherTypeOK, Local
    <3>3. PICK a \in threads :
            th = IF a.id = f.eid /\ a.anchored /\ a.state = "open"
                 THEN [a EXCEPT !.state = "cadoo"] ELSE a
      BY <3>1 DEF ResolveThread
    <3>4. th = a /\ a.id # f.eid
      <4>1. th.state = "open" /\ th.anchored
        BY DEF Closable
      <4>2. a \in Thread
        BY <1>0 DEF DispatcherTypeOK, PRTypeOK
      <4>3. [a EXCEPT !.state = "cadoo"].state = "cadoo"
        BY <4>2 DEF Thread
      <4> QED
        BY <3>3, <4>1, <4>3
    <3>5. Reported(p, a) \/ \E g \in loc[p].prior : LeadsTo(g, a)
      BY <1>10, <3>4 DEF NamedInv
    <3>6. \A g : LeadsTo(g, a) => g # f
      BY <3>4 DEF LeadsTo
    <3> QED
      BY <1>2, <3>2, <3>4, <3>5, <3>6
  <2> QED
    BY <1>0, <1>10, <2>1, <2>2, WhichStep
<1> QED
  BY <1>0, <1>6, <1>7, <1>8, <1>9, <1>10

\* When the job goes on to its checks, nothing of its tool that it did not
\* report is open.
LEMMA AbsentIsClosed ==
  ASSUME DiscussionsNamed, TypeOK, SavedInv, NamedInv, NEW p \in Procs, ToolStep(p),
         pc'[p] = "check", NEW th \in threads', Closable(p, th)
  PROVE  Reported(p, th)'
<1>0. /\ DispatchStep(p) /\ DispatcherTypeOK /\ ThreadsProper
      /\ pc[p] \in {"resolve", "check"}
  BY CameFrom DEF ToolStep, TypeOK, SavedInv
<1>1. loc'[p].res.inline = loc[p].res.inline
  BY <1>0, LocalsKept DEF Working
<1>2. CASE pc[p] = "check"
  <2>1. th \in threads
    BY <1>0, <1>2, WhoWrites
  <2> QED
    BY <1>1, <1>2, <2>1 DEF NamedInv, Reported
<1>3. CASE pc[p] = "resolve"
  <2>1. FinishInline(p)
    BY <1>0, <1>3, WhichStep DEF ResolveStale
  <2>2. th \in threads /\ StalePriors(p) = {}
    BY <2>1 DEF FinishInline, prVars
  <2>3. ~loc[p].incr
    BY <1>3 DEF NamedInv, Working
  <2>4. ASSUME NEW f \in loc[p].prior, LeadsTo(f, th), ~Reported(p, th) PROVE FALSE
    <3>1. th.sk = [tool |-> th.tool, file |-> th.file, sev |-> th.sev, nt |-> th.nt]
      BY <1>0, <2>2 DEF ThreadsProper
    <3>2. f.sk # NoKey /\ f.eid # NoId
      <4>1. th.sk # NoKey
        BY <3>1 DEF NoKey
      <4>2. th.id # NoId
        BY <1>0, <2>2 DEF NoId, DispatcherTypeOK, PRTypeOK, Thread, ThreadId
      <4> QED
        BY <2>4, <4>1, <4>2 DEF LeadsTo
    <3>3. PriorKey(f) = th.sk /\ f.tool = ToolOf[p]
      BY <2>4, <3>2 DEF PriorKey, LeadsTo, Closable
    <3>4. \A c \in loc[p].res.inline : StructuralKey(ToolOf[p], c) # PriorKey(f)
      BY <2>4, <3>3 DEF Reported
    <3> QED
      BY <2>2, <2>3, <2>4, <3>2, <3>3, <3>4 DEF StalePriors
  <2>5. Reported(p, th)
    BY <1>3, <2>2, <2>4 DEF NamedInv
  <2> QED
    BY <1>1, <2>5 DEF Reported
<1> QED
  BY <1>0, <1>2, <1>3

\* What happens outside the jobs.
LEMMA OutsideKeepsNamed ==
  ASSUME DiscussionsNamed, TypeOK, SavedInv, NamedInv, [Next]_serverVars, Outside
  PROVE  NamedInv'
<1>0. UNCHANGED <<store, loc>> /\ \A q \in Procs :
        /\ pc[q] \in Working => pc'[q] = pc[q]
        /\ pc'[q] \in Working \ {"fetch"} => pc'[q] = pc[q]
  BY DEF Outside
<1>1. \A b \in threads' : \E a \in threads : Becomes(a, b)
  BY OutsideThreads DEF SavedInv
<1>2. \A a, b, f : Becomes(a, b) /\ LeadsTo(f, a) => LeadsTo(f, b)
  BY DEF Becomes, LeadsTo
<1>3. \A p \in Procs : \A a, b : Becomes(a, b) /\ Reported(p, a) => Reported(p, b)'
  BY <1>0 DEF Becomes, Reported
<1>4. \A p \in Procs : \A a, b : Becomes(a, b) /\ Closable(p, b) => Closable(p, a)
  BY DEF Becomes, Closable
<1>5. \A a, b : Becomes(a, b) /\ AboutToName(a) => AboutToName(b)'
  BY <1>0 DEF Becomes, AboutToName, Working
<1>6. ASSUME NEW s \in Stores, NEW b \in threads', b.anchored
      PROVE  AboutToName(b)' \/ \E rec \in store'[s].recs : LeadsTo(rec, b)
  <2>1. PICK a \in threads : Becomes(a, b)
    BY <1>1
  <2>2. a.anchored
    BY <1>6, <2>1 DEF Becomes
  <2>3. AboutToName(a) \/ \E rec \in store[s].recs : LeadsTo(rec, a)
    BY <2>2 DEF NamedInv
  <2> QED
    BY <1>0, <1>2, <1>5, <2>1, <2>3
<1>7. ASSUME NEW p \in Procs, pc'[p] \in {"filter", "post", "record", "resolve"},
             NEW b \in threads', Closable(p, b)
      PROVE  Reported(p, b)' \/ \E f \in loc'[p].prior : LeadsTo(f, b)
  <2>1. PICK a \in threads : Becomes(a, b)
    BY <1>1
  <2>2. pc[p] = pc'[p] /\ Closable(p, a)
    BY <1>0, <1>4, <1>7, <2>1 DEF Working
  <2>3. Reported(p, a) \/ \E f \in loc[p].prior : LeadsTo(f, a)
    BY <1>7, <2>2 DEF NamedInv
  <2> QED
    BY <1>0, <1>2, <1>3, <2>1, <2>3
<1>8. ASSUME NEW p \in Procs, pc'[p] = "check", NEW b \in threads', Closable(p, b)
      PROVE  Reported(p, b)'
  <2>1. PICK a \in threads : Becomes(a, b)
    BY <1>1
  <2>2. pc[p] = "check" /\ Closable(p, a)
    BY <1>0, <1>4, <1>8, <2>1 DEF Working
  <2> QED
    BY <1>3, <2>1, <2>2 DEF NamedInv
<1>9. ASSUME NEW p \in Procs, pc'[p] = "record"
      PROVE  /\ \A s \in Stores : \A rec \in store'[s].recs, ref \in loc'[p].refs :
                  rec.sk # StructuralKey(ToolOf[p], ref.comment)
             /\ \A q, r \in loc'[p].refs :
                  StructuralKey(ToolOf[p], q.comment) = StructuralKey(ToolOf[p], r.comment)
                    => q = r
  <2>1. pc[p] = "record"
    BY <1>0, <1>9 DEF Working
  <2> QED
    BY <1>0, <2>1 DEF NamedInv
<1>10. \A p \in Procs : pc'[p] = "post" => loc'[p].delta \subseteq loc'[p].res.inline
  BY <1>0 DEF NamedInv, Working
<1>11. \A p \in Procs : pc'[p] \in Working \ {"fetch"} => ~loc'[p].incr
  BY <1>0 DEF NamedInv
<1>12. \A s \in Stores : store'[s].sha = 0
  BY <1>0 DEF NamedInv
<1>13. \A p \in Procs : \A th : Closable(p, th)' <=> Closable(p, th)
  BY DEF Closable
<1> QED
  BY <1>6, <1>7, <1>8, <1>9, <1>10, <1>11, <1>12, <1>13 DEF NamedInv

\* One step of a job.
LEMMA ToolStepKeepsNamed ==
  ASSUME DiscussionsNamed, TypeOK, SavedInv, NamedInv, NEW p \in Procs, ToolStep(p)
  PROVE  NamedInv'
<1>0. DispatchStep(p) /\ DispatcherTypeOK /\ (\A q \in Procs : pc'[q] # "idle" => q = p)
  BY OnlyOne DEF ToolStep, TypeOK, SavedInv
<1>1. Stores = {"posted"}
  BY OneStore DEF DiscussionsNamed
<1>2. store'["posted"].sha = 0
  BY <1>1, StoreSteps DEF DiscussionsNamed, NamedInv
<1>3. \A q \in Procs : pc'[q] \in Working \ {"fetch"} => ~loc'[q].incr
  BY <1>0, FullReviews DEF DiscussionsNamed, Working
<1>4. \A s \in Stores : \A th \in threads' : th.anchored =>
        AboutToName(th)' \/ \E rec \in store'[s].recs : LeadsTo(rec, th)
  BY <1>1, RecordsLead
<1>5. ASSUME NEW q \in Procs, pc'[q] = "record"
      PROVE  /\ \A s \in Stores : \A rec \in store'[s].recs, ref \in loc'[q].refs :
                  rec.sk # StructuralKey(ToolOf[q], ref.comment)
             /\ \A r, t \in loc'[q].refs :
                  StructuralKey(ToolOf[q], r.comment) = StructuralKey(ToolOf[q], t.comment)
                    => r = t
  <2>1. q = p
    BY <1>0, <1>5
  <2> QED
    BY <1>1, <1>5, <2>1, RefsAreNew
<1>6. ASSUME NEW q \in Procs, pc'[q] = "post"
      PROVE  loc'[q].delta \subseteq loc'[q].res.inline
  <2>1. q = p /\ pc[p] = "filter"
    BY <1>0, <1>6, CameFrom
  <2>2. loc'[p].delta \subseteq loc[p].res.inline
    BY <1>0, <2>1, WhichStep, FilteredIs DEF DiscussionsNamed
  <2>3. loc'[p].res.inline = loc[p].res.inline
    BY <1>0, <1>6, <2>1, LocalsKept DEF Working
  <2> QED
    BY <2>1, <2>2, <2>3
<1>7. \A q \in Procs : \A th : Closable(q, th)' <=> Closable(q, th)
  BY DEF Closable
<1>8. \A q \in Procs : pc'[q] \in {"filter", "post", "record", "resolve"} =>
        \A th \in threads' : Closable(q, th) =>
          Reported(q, th)' \/ \E f \in loc'[q].prior : LeadsTo(f, th)
  BY <1>0, PriorsLead
<1>9. \A q \in Procs : pc'[q] = "check" =>
        \A th \in threads' : Closable(q, th) => Reported(q, th)'
  BY <1>0, AbsentIsClosed
<1> QED
  BY <1>1, <1>2, <1>3, <1>4, <1>5, <1>6, <1>7, <1>8, <1>9 DEF NamedInv

\* In every behaviour of the server on the memory queue with GitLab: the store
\* leads to every discussion that is open.
THEOREM ThreadsAreKnown ==
  ASSUME DiscussionsNamed
  PROVE  Spec => []NamedInv
<1>0. NothingLostBetween
  BY DEF DiscussionsNamed, NothingLostBetween
<1>1. Init => NamedInv
  <2> SUFFICES ASSUME Init PROVE NamedInv
    OBVIOUS
  <2>1. threads = {} /\ \A p \in Procs : pc[p] = "idle"
    BY DEF Init, DiscussionsNamed
  <2>2. \A s \in Stores : store[s].sha = 0
    BY DEF Init, EmptyStore, DiscussionsNamed
  <2> QED
    BY <2>1, <2>2 DEF NamedInv, Working
<1>2. TypeOK /\ SavedInv /\ NamedInv /\ [Next]_serverVars => NamedInv'
  BY OutsideKeepsNamed, ToolStepKeepsNamed, InOrOut DEF DiscussionsNamed
<1>3. Spec => []SavedInv
  BY <1>0, PostedIsRecorded
<1> QED
  BY <1>1, <1>2, <1>3, TypeCorrect, PTL DEF Spec

\* Once a job is through with its inline comments, every open discussion of
\* its tool is one it reported: what it did not report again it has closed,
\* whichever run opened it (resolveStalePriors).
THEOREM StaleThreadsAreClosed ==
  ASSUME DiscussionsNamed
  PROVE  Spec => []AbsentFindingClosed
<1>1. NamedInv => AbsentFindingClosed
  BY DEF NamedInv, AbsentFindingClosed, Closable, Reported
<1> QED
  BY <1>1, ThreadsAreKnown, PTL

-----------------------------------------------------------------------------
(* The promise of FindingsBoard.                                           *)

\* The id names no thread but that of the finding of this tool and key.
Names(eid, tool, sk) ==
  eid # NoId => /\ eid.batch < nextBatch
                /\ \A th \in threads : th.id = eid => th.tool = tool /\ th.sk = sk

\* Every id that is kept names what it is kept for, and what a job is about to
\* post is what it reported.
IdsInv ==
  /\ \A rec \in store["posted"].recs : Names(rec.eid, rec.tool, rec.sk)
  /\ \A p \in Procs :
       /\ \A ref \in loc[p].refs :
            Names(ref.eid, ToolOf[p], StructuralKey(ToolOf[p], ref.comment))
       /\ \A f \in loc[p].prior : Names(f.eid, f.tool, f.sk)
       /\ pc[p] = "post" => loc[p].delta \subseteq loc[p].res.inline

\* Ids go on naming what they name.
LEMMA NamesStay ==
  ASSUME TypeOK, ThreadsProper, [Next]_serverVars, NEW eid \in ThreadId \cup {NoId},
         NEW tool, NEW sk, Names(eid, tool, sk)
  PROVE  Names(eid, tool, sk)'
<1> SUFFICES ASSUME eid # NoId
             PROVE  /\ eid.batch < nextBatch'
                    /\ \A th \in threads' : th.id = eid => th.tool = tool /\ th.sk = sk
  BY DEF Names
<1>1. eid.batch \in Nat /\ eid.batch < nextBatch /\ nextBatch \in Nat
  BY DEF Names, ThreadId, TypeOK, DispatcherTypeOK, PRTypeOK
<1>2. ASSUME NEW a \in threads, NEW b, Becomes(a, b), b.id = eid
      PROVE  b.tool = tool /\ b.sk = sk
  BY <1>2 DEF Becomes, Names
<1>3. CASE UNCHANGED <<threads, nextBatch>>
  BY <1>1, <1>3 DEF Names
<1>4. ASSUME NEW p \in Procs, ToolStep(p)
      PROVE  /\ eid.batch < nextBatch'
             /\ \A th \in threads' : th.id = eid => th.tool = tool /\ th.sk = sk
  <2>1. DispatchStep(p) /\ DispatcherTypeOK
    BY <1>4 DEF ToolStep, TypeOK
  <2>2. nextBatch' \in {nextBatch, nextBatch + 1}
    BY <2>1, WhichStep, WhoWrites DEF PostInline
  <2>3. ASSUME NEW c, NEW a \in BOOLEAN, NewThread(ToolOf[p], c, a).id = eid PROVE FALSE
    <3>1. NewThread(ToolOf[p], c, a).id.batch = nextBatch
      BY DEF NewThread
    <3> QED
      BY <1>1, <2>3, <3>1
  <2>4. \A th \in threads' :
          \/ \E a \in threads : Becomes(a, th)
          \/ \E c \in loc[p].delta, a \in BOOLEAN : th = NewThread(ToolOf[p], c, a)
    BY <2>1, StepThreads
  <2> QED
    BY <1>1, <1>2, <2>2, <2>3, <2>4
<1>5. CASE PushSync
  <2>1. nextBatch' = nextBatch /\ \A b \in threads' : \E a \in threads : Becomes(a, b)
    BY <1>5, PushThreads DEF PushSync, Push, TypeOK, DispatcherTypeOK
  <2> QED
    BY <1>1, <1>2, <2>1
<1> QED
  BY <1>3, <1>4, <1>5 DEF Next, Receive, Enqueue, Take, EndJob, Crash, Reopen,
     SlashCommand, serverVars, vars, prVars

LEMMA EidTypes ==
  ASSUME QueueKind = "memory", TypeOK
  PROVE  /\ \A rec \in store["posted"].recs : rec.eid \in ThreadId \cup {NoId}
         /\ \A p \in Procs : \A ref \in loc[p].refs : ref.eid \in ThreadId \cup {NoId}
         /\ \A p \in Procs : \A f \in loc[p].prior : f.eid \in ThreadId \cup {NoId}
<1>1. loc \in [Procs -> Local] /\ store["posted"].recs \subseteq Rec
  BY OneStore DEF TypeOK, DispatcherTypeOK
<1>2. \A rec \in Rec : rec.eid \in ThreadId \cup {NoId}
  BY DEF Rec
<1>3. \A p \in Procs :
        /\ loc[p].prior \subseteq PostedFinding
        /\ loc[p].refs \subseteq [comment : Comment, eid : ThreadId \cup {NoId}]
  BY <1>1 DEF Local
<1>4. \A f \in PostedFinding : f.eid \in ThreadId \cup {NoId}
  BY DEF PostedFinding
<1>5. \A f \in [comment : Comment, eid : ThreadId \cup {NoId}] : f.eid \in ThreadId \cup {NoId}
  OBVIOUS
<1> QED
  BY <1>1, <1>2, <1>3, <1>4, <1>5

\* The refs a post answers name the threads it made.
LEMMA PostNames ==
  ASSUME TypeOK, ThreadsProper, NEW p \in Procs, PostInline(p), NEW ref \in loc'[p].refs
  PROVE  Names(ref.eid, ToolOf[p], StructuralKey(ToolOf[p], ref.comment))'
<1>0. nextBatch \in Nat /\ threads \subseteq Thread
  BY DEF TypeOK, DispatcherTypeOK, PRTypeOK
<1>1. PICK answer \in PostInlineComments(ToolOf[p], loc[p].delta) :
        /\ threads' = threads \cup answer.created
        /\ loc' = [loc EXCEPT ![p].refs = answer.refs, ![p].delta = {}]
  BY DEF PostInline
<1>2. ref \in answer.refs /\ nextBatch' = nextBatch + 1
  BY <1>1 DEF TypeOK, DispatcherTypeOK, Local, PostInline
<1> SUFFICES ASSUME ref.eid # NoId
             PROVE  /\ ref.eid.batch < nextBatch + 1
                    /\ \A th \in threads \cup answer.created : th.id = ref.eid =>
                         /\ th.tool = ToolOf[p]
                         /\ th.sk = StructuralKey(ToolOf[p], ref.comment)
  BY <1>1, <1>2 DEF Names
<1>3. ref.eid = [batch |-> nextBatch, comment |-> ref.comment]
  BY <1>2, PostAnswer
<1>4. ref.eid.batch = nextBatch /\ ref.eid.comment = ref.comment
  BY <1>3
<1>5. \A th \in threads : th.id # ref.eid
  <2> SUFFICES ASSUME NEW th \in threads, th.id = ref.eid PROVE FALSE
    OBVIOUS
  <2>1. th.id.batch \in Nat /\ th.id.batch < nextBatch
    BY <1>0 DEF ThreadsProper, Thread, ThreadId
  <2> QED
    BY <1>0, <1>4, <2>1
<1>6. ASSUME NEW th \in answer.created, th.id = ref.eid
      PROVE  th.tool = ToolOf[p] /\ th.sk = StructuralKey(ToolOf[p], ref.comment)
  <2>1. PICK c \in loc[p].delta, a \in BOOLEAN : th = NewThread(ToolOf[p], c, a)
    BY PostAnswer
  <2>2. th.id.comment = c /\ th.tool = ToolOf[p] /\ th.sk = StructuralKey(ToolOf[p], c)
    BY <2>1 DEF NewThread
  <2> QED
    BY <1>4, <1>6, <2>2
<1> QED
  BY <1>0, <1>4, <1>5, <1>6

\* A finding recorded keeps the ids of records in order.
LEMMA RecordNames ==
  ASSUME NothingLostBetween, TypeOK, SavedInv, IdsInv, [Next]_serverVars,
         NEW p \in Procs, ToolStep(p), NEW rec \in store'["posted"].recs
  PROVE  Names(rec.eid, rec.tool, rec.sk)'
<1> DEFINE recs == store["posted"].recs
           tool == ToolOf[p]
<1>0. /\ DispatchStep(p) /\ DispatcherTypeOK /\ ThreadsProper /\ "posted" \in Stores
      /\ recs \in SUBSET Rec /\ tool \in Tools
  BY OneStore DEF ToolStep, TypeOK, SavedInv, NothingLostBetween
<1>1. ASSUME NEW a \in recs PROVE Names(a.eid, a.tool, a.sk)'
  BY <1>0, EidTypes, NamesStay DEF IdsInv, NothingLostBetween
<1>2. CASE rec \in recs
  BY <1>1, <1>2
<1>3. CASE rec \notin recs
  <2>1. pc[p] = "record"
    BY <1>0, <1>3, StepRecords
  <2>2. PICK ref \in loc[p].refs :
          /\ ref.comment \in Comment /\ ref.eid \in ThreadId \cup {NoId}
          /\ store'["posted"].recs = MemRecord(recs, tool, ref.eid, ref.comment)
    BY <1>0, <2>1, WhichStep, RecordedIs DEF NothingLostBetween
  <2> DEFINE c == ref.comment
  <2>3. Names(ref.eid, tool, StructuralKey(tool, c))'
    BY <1>0, <2>2, NamesStay DEF IdsInv
  <2>4. \/ rec = NewRec(tool, ref.eid, c)
        \/ \E a \in recs : /\ a.fp = Fingerprint(tool, c) /\ SameFinding(a, rec)
                           /\ rec.eid = ref.eid
    BY <1>0, <1>3, <2>2, MemRecordIs
  <2>5. CASE rec = NewRec(tool, ref.eid, c)
    BY <2>3, <2>5 DEF NewRec
  <2>6. ASSUME NEW a \in recs, a.fp = Fingerprint(tool, c), SameFinding(a, rec),
               rec.eid = ref.eid
        PROVE  Names(rec.eid, rec.tool, rec.sk)'
    <3>1. PICK d \in Comment :
            a.fp = Fingerprint(a.tool, d) /\ a.sk = StructuralKey(a.tool, d)
      BY <1>0 DEF SavedInv, RecordProper
    <3>2. a.tool = tool /\ d = c
      BY <2>6, <3>1 DEF Fingerprint
    <3>3. rec.tool = tool /\ rec.sk = StructuralKey(tool, c)
      BY <2>6, <3>1, <3>2 DEF SameFinding
    <3> QED
      BY <2>3, <2>6, <3>3
  <2> QED
    BY <2>4, <2>5, <2>6
<1> QED
  BY <1>2, <1>3

\* What a job knows when its PR has been fetched.
LEMMA FetchedIs ==
  ASSUME TypeOK, NEW p \in Procs, ToolStep(p), pc[p] = "fetch", pc'[p] \in Working
  PROVE  loc'[p].prior = {} /\ loc'[p].refs = {} /\ pc'[p] = "diff"
<1>1. /\ loc' = [loc EXCEPT ![p] = [EmptyLocal EXCEPT !.head = HeadSHA,
                    !.user = prBody.user, !.section = prBody.cadoo]]
      /\ Goto(p, "diff")
  BY WhichStep DEF ToolStep, Fetch, Finish, Goto, Working, Finished, TypeOK, DispatcherTypeOK
<1> QED
  BY <1>1 DEF TypeOK, DispatcherTypeOK, EmptyLocal, Goto

\* A step of a job keeps the ids in order.
LEMMA ToolStepKeepsIds ==
  ASSUME NothingLostBetween, TypeOK, SavedInv, IdsInv, [Next]_serverVars,
         NEW p \in Procs, ToolStep(p)
  PROVE  IdsInv'
<1>0. /\ DispatchStep(p) /\ DispatcherTypeOK /\ ThreadsProper
      /\ \A q \in Procs \ {p} : pc'[q] = pc[q] /\ loc'[q] = loc[q]
  BY OthersStay DEF ToolStep, TypeOK, SavedInv
<1>1. ASSUME NEW rec \in store'["posted"].recs PROVE Names(rec.eid, rec.tool, rec.sk)'
  BY <1>1, RecordNames
<1>2. ASSUME NEW q \in Procs, NEW ref \in loc'[q].refs
      PROVE  Names(ref.eid, ToolOf[q], StructuralKey(ToolOf[q], ref.comment))'
  <2>0. q = p => pc'[p] \in Working
    BY <1>0, <1>2, EndsEmpty DEF EmptyLocal
  <2>1. CASE q = p /\ pc[p] = "post"
    BY <1>0, <1>2, <2>1, PostNames, WhichStep
  <2>2. CASE q = p /\ pc[p] = "fetch"
    BY <1>2, <2>0, <2>2, FetchedIs
  <2>3. CASE ~(q = p /\ pc[p] \in {"fetch", "post"})
    <3>1. ref \in loc[q].refs
      BY <1>0, <1>2, <2>0, <2>3, LocalsKept
    <3>2. Names(ref.eid, ToolOf[q], StructuralKey(ToolOf[q], ref.comment))
      BY <3>1 DEF IdsInv
    <3> QED
      BY <1>0, <3>1, <3>2, EidTypes, NamesStay DEF NothingLostBetween
  <2> QED
    BY <2>1, <2>2, <2>3
<1>3. ASSUME NEW q \in Procs, NEW f \in loc'[q].prior
      PROVE  Names(f.eid, f.tool, f.sk)'
  <2>0. q = p => pc'[p] \in Working
    BY <1>0, <1>3, EndsEmpty DEF EmptyLocal
  <2>1. CASE q = p /\ pc[p] = "inline" /\ f \notin loc[q].prior
    <3>1. loc' = [loc EXCEPT ![p].prior = ListPostedFindings(St(p).recs)]
      BY <1>0, <1>3, <2>1, WhichStep DEF SnapshotPriors
    <3>2. f \in ListPostedFindings(store["posted"].recs)
      BY <1>3, <2>1, <3>1, OneStore
         DEF NothingLostBetween, TypeOK, DispatcherTypeOK, Local
    <3>3. PICK rec \in store["posted"].recs :
            f.eid = rec.eid /\ f.tool = rec.tool /\ f.sk = rec.sk
      BY <3>2 DEF ListPostedFindings, Posted
    <3> QED
      BY <1>0, <3>3, EidTypes, NamesStay DEF IdsInv, NothingLostBetween
  <2>2. CASE q = p /\ pc[p] = "fetch"
    BY <1>3, <2>0, <2>2, FetchedIs
  <2>3. CASE f \in loc[q].prior
    BY <1>0, <2>3, EidTypes, NamesStay DEF IdsInv, NothingLostBetween
  <2> QED
    BY <1>0, <1>3, <2>0, <2>1, <2>2, <2>3, LocalsKept
<1>4. ASSUME NEW q \in Procs, pc'[q] = "post"
      PROVE  loc'[q].delta \subseteq loc'[q].res.inline
  <2>1. CASE q # p
    BY <1>0, <1>4, <2>1 DEF IdsInv
  <2>2. CASE q = p
    <3>1. pc[p] = "filter" /\ FilterInline(p)
      BY <1>0, <1>4, <2>2, CameFrom, WhichStep
    <3>2. loc'[p].delta \subseteq loc[p].res.inline
      BY <3>1, FilteredIs DEF NothingLostBetween
    <3>3. loc'[p].res.inline = loc[p].res.inline
      BY <1>0, <1>4, <2>2, <3>1, LocalsKept DEF Working
    <3> QED
      BY <2>2, <3>2, <3>3
  <2> QED
    BY <2>1, <2>2
<1> QED
  BY <1>1, <1>2, <1>3, <1>4 DEF IdsInv

\* In memory mode, ids always name what they are kept for.
THEOREM IdsNameThreads ==
  ASSUME NothingLostBetween
  PROVE  Spec => []IdsInv
<1>1. Init => IdsInv
  <2> SUFFICES ASSUME Init PROVE IdsInv
    OBVIOUS
  <2>1. \A p \in Procs : loc[p] = EmptyLocal /\ pc[p] = "idle"
    BY DEF Init
  <2>2. store["posted"].recs = {}
    BY ServerAssumption DEF Init, EmptyStore, NothingLostBetween
  <2> QED
    BY <2>1, <2>2 DEF IdsInv, EmptyLocal
<1>2. TypeOK /\ SavedInv /\ IdsInv /\ [Next]_serverVars => IdsInv'
  <2> SUFFICES ASSUME TypeOK, SavedInv, IdsInv, [Next]_serverVars PROVE IdsInv'
    OBVIOUS
  <2>1. CASE Outside
    <3>1. UNCHANGED <<store, loc>> /\ \A p \in Procs : pc'[p] = "post" => pc[p] = "post"
      BY <2>1 DEF Outside, Working
    <3>2. ThreadsProper
      BY DEF SavedInv
    <3>3. \A rec \in store'["posted"].recs : Names(rec.eid, rec.tool, rec.sk)'
      BY <3>1, <3>2, EidTypes, NamesStay DEF IdsInv, NothingLostBetween
    <3>4. ASSUME NEW p \in Procs, NEW ref \in loc'[p].refs
          PROVE  Names(ref.eid, ToolOf[p], StructuralKey(ToolOf[p], ref.comment))'
      <4>1. ref \in loc[p].refs
        BY <3>1, <3>4
      <4>2. Names(ref.eid, ToolOf[p], StructuralKey(ToolOf[p], ref.comment))
        BY <4>1 DEF IdsInv
      <4> QED
        BY <3>2, <4>1, <4>2, EidTypes, NamesStay DEF NothingLostBetween
    <3>5. ASSUME NEW p \in Procs, NEW f \in loc'[p].prior PROVE Names(f.eid, f.tool, f.sk)'
      BY <3>1, <3>2, <3>5, EidTypes, NamesStay DEF IdsInv, NothingLostBetween
    <3> QED
      BY <3>1, <3>3, <3>4, <3>5 DEF IdsInv
  <2>2. ASSUME NEW p \in Procs, ToolStep(p) PROVE IdsInv'
    BY <2>2, ToolStepKeepsIds
  <2> QED
    BY <2>1, <2>2, InOrOut DEF NothingLostBetween
<1> QED
  BY <1>1, <1>2, TypeCorrect, PostedIsRecorded, PTL DEF Spec

\* What happens outside the jobs does not show on the board.
LEMMA OutsideKeepsBoard ==
  ASSUME TypeOK, NoTwinThreads, NoTwinThreads', [Next]_serverVars, Outside,
         \A p \in Procs : ~ToolStep(p)
  PROVE  [Board!BoardNext]_(Board!boardVars)
<1>1. FoundNow' = FoundNow
  <2>1. Answered' = Answered
    BY DEF Outside, Answered, Working
  <2>2. \A p \in Procs : Reports(p)' = Reports(p)
    BY DEF Outside, Reports
  <2> QED
    BY <2>1, <2>2, FoundIs DEF Answered
<1>2. CASE UNCHANGED threads
  <2>1. BoardNow' = BoardNow
    BY <1>2, BoardIs
  <2> QED
    BY <1>1, <2>1, NothingShown
<1>3. CASE Push(MaxHead)
  BY <1>1, <1>3, PushShown, NothingShown DEF TypeOK, DispatcherTypeOK
<1> QED
  BY <1>2, <1>3 DEF Next, Receive, Enqueue, Take, EndJob, Crash, PushSync, Reopen,
     SlashCommand, serverVars, vars, prVars

\* A job posts findings that have no thread.
LEMMA DeltaIsNew ==
  ASSUME NothingLostBetween, TypeOK, SavedInv, NEW p \in Procs, pc[p] = "post",
         NEW c \in loc[p].delta, NEW th \in threads
  PROVE  th.sk # StructuralKey(ToolOf[p], c)
<1>1. ~Unsaved(th.sk)
  BY DEF Unsaved, SavedInv, OneJob
<1>2. PICK rec \in store["posted"].recs : rec.sk = th.sk
  BY <1>1, OneStore DEF SavedInv, NothingLostBetween
<1>3. rec.sk # StructuralKey(ToolOf[p], c)
  BY <1>2, OneStore DEF SavedInv, NothingLostBetween
<1> QED
  BY <1>2, <1>3

\* A thread that auto-resolution finds is of the tool and not reported.
LEMMA StaleIsOwn ==
  ASSUME ThreadsProper, IdsInv, NEW p \in Procs, NEW f \in StalePriors(p),
         NEW th \in threads, th.id = f.eid
  PROVE  th.tool = ToolOf[p] /\ th.sk \notin Reports(p)
<1>1. /\ f \in loc[p].prior /\ f.tool = ToolOf[p] /\ f.eid # NoId
      /\ \A c \in loc[p].res.inline : StructuralKey(ToolOf[p], c) # PriorKey(f)
  BY DEF StalePriors
<1>2. th.tool = f.tool /\ th.sk = f.sk
  BY <1>1 DEF IdsInv, Names
<1>3. th.sk # NoKey
  <2>1. th.sk = [tool |-> th.tool, file |-> th.file, sev |-> th.sev, nt |-> th.nt]
    BY DEF ThreadsProper
  <2> QED
    BY <2>1 DEF NoKey
<1> QED
  BY <1>1, <1>2, <1>3 DEF PriorKey, Reports

\* Memory mode keeps the promise of FindingsBoard, as long as nothing is lost
\* between the PR and the store: pushes, commands, reopenings, a full queue,
\* failed calls and jobs that end early do not show.
THEOREM BoardIsKept ==
  ASSUME NothingLostBetween
  PROVE  Spec => KeepsBoard
<1>1. Init => Board!BoardInit
  <2> SUFFICES ASSUME Init PROVE Board!BoardInit
    OBVIOUS
  <2>1. threads = {} /\ \A p \in Procs : pc[p] = "idle"
    BY DEF Init, NothingLostBetween
  <2>2. Answered = {}
    BY <2>1 DEF Answered, Working
  <2>3. \A k : StateOf(k) = "absent"
    BY <2>1 DEF StateOf
  <2> QED
    BY <2>2, <2>3 DEF Board!BoardInit
<1>2. /\ TypeOK /\ TypeOK' /\ SavedInv /\ SavedInv' /\ IdsInv /\ [Next]_serverVars
      => [Board!BoardNext]_(Board!boardVars)
  <2> SUFFICES ASSUME TypeOK, TypeOK', SavedInv, SavedInv', IdsInv, [Next]_serverVars
               PROVE  [Board!BoardNext]_(Board!boardVars)
    OBVIOUS
  <2>1. ThreadsProper /\ NoTwinThreads /\ NoTwinThreads'
    BY DEF SavedInv
  <2>2. ASSUME NEW p \in Procs, ToolStep(p) PROVE [Board!BoardNext]_(Board!boardVars)
    <3>1. DispatcherTypeOK /\ DispatcherTypeOK' /\ DispatchStep(p)
      BY <2>2 DEF TypeOK, ToolStep
    <3>2. pc[p] = "post" => \A c \in loc[p].delta :
            c \in loc[p].res.inline /\ \A th \in threads : th.sk # StructuralKey(ToolOf[p], c)
      BY DeltaIsNew DEF IdsInv
    <3>3. \A f \in StalePriors(p) : \A th \in threads :
            th.id = f.eid => th.tool = ToolOf[p] /\ th.sk \notin Reports(p)
      BY <2>1, StaleIsOwn
    <3> QED
      BY <2>1, <3>1, <3>2, <3>3, StepKeepsBoard
  <2>3. CASE Outside /\ \A p \in Procs : ~ToolStep(p)
    BY <2>1, <2>3, OutsideKeepsBoard
  <2> QED
    BY <2>2, <2>3, InOrOut DEF NothingLostBetween
<1> QED
  BY <1>1, <1>2, TypeCorrect, PostedIsRecorded, IdsNameThreads,
     PTL DEF Spec, KeepsBoard, Board!BoardSpec

=============================================================================
