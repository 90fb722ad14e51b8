------------------------- MODULE Dispatcher_proofs --------------------------
(***************************************************************************)
(* Proofs about Dispatcher, for every composition of it: what each step of *)
(* a dispatcher keeps of the types and of the mutex, and what it does to   *)
(* threads, records and processes.                                         *)
(***************************************************************************)
EXTENDS Dispatcher, SequenceTheorems, FiniteSetTheorems, TLAPS

\* The locals of a job that has not fetched its PR are well formed.
LEMMA EmptyLocalType == EmptyLocal \in Local
  BY DEF EmptyLocal, Local, NoResult, Result, NoSections

\* A finding's structural key is a key.
LEMMA StructuralKeyType ==
  ASSUME NEW tool \in Tools, NEW c \in Comment
  PROVE  StructuralKey(tool, c) \in Keys
  BY TextAssumption DEF StructuralKey, Keys, Comment

\* An inline comment just posted is a thread.
LEMMA NewThreadType ==
  ASSUME NEW tool \in Tools, NEW c \in Comment, NEW anchored \in BOOLEAN,
         nextBatch \in Nat
  PROVE  NewThread(tool, c, anchored) \in Thread
<1>1. StructuralKey(tool, c) \in Keys
  BY StructuralKeyType
<1>2. Anchor(c) \in Nat
  BY DEF Anchor, Comment
<1>3. /\ c.file \in Files /\ c.sev \in Severities
      /\ normalizeTitle[c.body] \in Titles /\ firstLine[c.body] \in Bodies
  BY TextAssumption DEF Comment
<1> QED
  BY <1>1, <1>2, <1>3 DEF NewThread, Thread, ThreadId

\* A record made by RecordFinding is a record, on either backend.
LEMMA RecordedType ==
  ASSUME NEW p \in Procs, store \in [Stores -> Store],
         NEW eid \in ThreadId \cup {NoId}, NEW c \in Comment
  PROVE  Recorded(p, eid, c) \in SUBSET Rec
<1> DEFINE new == NewRec(ToolOf[p], eid, c)
<1>1. St(p) \in Store /\ ToolOf[p] \in Tools
  BY DispatcherAssumption DEF St
<1>2. St(p).recs \subseteq Rec
  BY <1>1 DEF Store
<1>3. new \in Rec
  <2>1. StructuralKey(ToolOf[p], c) \in Keys
    BY <1>1, StructuralKeyType
  <2>2. /\ c.file \in Files /\ c.sev \in Severities
        /\ normalizeTitle[c.body] \in Titles /\ firstLine[c.body] \in Bodies
    BY TextAssumption DEF Comment
  <2> QED
    BY <1>1, <2>1, <2>2 DEF NewRec, Fingerprint, Rec
<1>4. \A r \in Rec : [r EXCEPT !.eid = eid] \in Rec
  BY DEF Rec
<1>5. MemRecord(St(p).recs, ToolOf[p], eid, c) \in SUBSET Rec
  BY <1>2, <1>3, <1>4 DEF MemRecord
<1>6. DBRecord(St(p).recs, ToolOf[p], eid, c) \in SUBSET Rec
  BY <1>2, <1>3 DEF DBRecord
<1> QED
  BY <1>5, <1>6 DEF Recorded

\* What PostInlineComments may answer: threads, and refs to the comments.
LEMMA AnswerType ==
  ASSUME NEW tool \in Tools, NEW delta \in SUBSET Comment, nextBatch \in Nat,
         NEW answer \in PostInlineComments(tool, delta)
  PROVE  /\ answer.created \subseteq Thread
         /\ answer.refs \subseteq [comment : Comment, eid : ThreadId \cup {NoId}]
<1>1. \A c \in delta, anchored \in BOOLEAN : NewThread(tool, c, anchored) \in Thread
  BY NewThreadType
<1>2. ASSUME answer \in GithubPost(tool, delta)
      PROVE  /\ answer.created \subseteq Thread
             /\ answer.refs \subseteq [comment : Comment, eid : ThreadId \cup {NoId}]
  <2> DEFINE all == {NewThread(tool, c, TRUE) : c \in delta}
             refs == {[comment |-> c, eid |-> NoId] : c \in delta}
  <2>1. all \subseteq Thread
    BY <1>1
  <2>2. refs \subseteq [comment : Comment, eid : ThreadId \cup {NoId}]
    OBVIOUS
  <2>3. \/ answer = [created |-> all, refs |-> refs]
        \/ answer = NoAnswer
        \/ answer = [created |-> all, refs |-> {}]
    BY <1>2 DEF GithubPost
  <2> HIDE DEF all, refs
  <2> QED
    BY <2>1, <2>2, <2>3 DEF NoAnswer
<1>3. ASSUME answer \in GitlabPost(tool, delta)
      PROVE  /\ answer.created \subseteq Thread
             /\ answer.refs \subseteq [comment : Comment, eid : ThreadId \cup {NoId}]
  <2> DEFINE Created(o) == {NewThread(tool, c, o[c] # "note") : c \in {d \in delta : o[d] # "fail"}}
             Refs(o) == {[comment |-> c,
                          eid |-> IF o[c] = "discussion"
                                  THEN [batch |-> nextBatch, comment |-> c] ELSE NoId]
                         : c \in delta}
  <2>1. answer = NoAnswer \/ \E o : answer = [created |-> Created(o), refs |-> Refs(o)]
    BY <1>3 DEF GitlabPost
  <2>2. CASE answer = NoAnswer
    BY <2>2 DEF NoAnswer
  <2>3. ASSUME NEW o, answer = [created |-> Created(o), refs |-> Refs(o)]
        PROVE  /\ answer.created \subseteq Thread
               /\ answer.refs \subseteq [comment : Comment, eid : ThreadId \cup {NoId}]
    <3>1. Created(o) \subseteq Thread
      BY <1>1
    <3>2. Refs(o) \subseteq [comment : Comment, eid : ThreadId \cup {NoId}]
      BY DEF ThreadId
    <3> HIDE DEF Created, Refs
    <3> QED
      BY <2>3, <3>1, <3>2
  <2> QED
    BY <2>1, <2>2, <2>3
<1> QED
  BY <1>2, <1>3 DEF PostInlineComments

\* A check run that is upserted leaves check runs.
LEMMA UpsertType ==
  ASSUME NEW S, checks \subseteq CheckRun,
         NEW name \in CheckNames, NEW h \in Nat, NEW status \in Statuses,
         S = UpsertCheckRun(name, h, status)
  PROVE  S \subseteq CheckRun
  BY DEF UpsertCheckRun, CheckRun

\* Resolving a thread leaves threads.
LEMMA ResolveThreadType ==
  ASSUME threads \subseteq Thread, NEW eid
  PROVE  ResolveThread(eid) \subseteq Thread
<1>1. \A th \in Thread : [th EXCEPT !.state = "cadoo"] \in Thread
  BY DEF Thread
<1> QED
  BY <1>1 DEF ResolveThread

-----------------------------------------------------------------------------
(* The shapes most steps share.                                            *)

\* A job that goes on to another step, or ends.
LEMMA GotoType ==
  ASSUME NEW p \in Procs, NEW label \in PCs, DispatcherTypeOK, Goto(p, label)
  PROVE  pc' \in [Procs -> PCs]
  BY DEF Goto, DispatcherTypeOK

LEMMA FinishType ==
  ASSUME NEW p \in Procs, NEW label \in Finished, DispatcherTypeOK, Finish(p, label)
  PROVE  pc' \in [Procs -> PCs] /\ loc' \in [Procs -> Local]
<1>1. pc' \in [Procs -> PCs]
  BY GotoType DEF Finish, PCs
<1>2. loc' \in [Procs -> Local]
  BY EmptyLocalType DEF Finish, DispatcherTypeOK
<1> QED
  BY <1>1, <1>2

\* The pull request, when a step leaves it alone.
LEMMA PRUnchanged ==
  ASSUME PRTypeOK, UNCHANGED prVars
  PROVE  PRTypeOK'
  BY DEF PRTypeOK, prVars

\* The author pushes.
LEMMA PushKeepsType ==
  ASSUME NEW maxHead, PRTypeOK, Push(maxHead)
  PROVE  PRTypeOK'
<1>1. PICK tree \in Tree, outdates \in {FALSE, TRUE} :
        /\ history' = Append(history, tree)
        /\ threads' = {IF outdates /\ tree[th.file] # history[HeadSHA][th.file]
                       THEN [th EXCEPT !.line = 0] ELSE th : th \in threads}
  BY DEF Push
<1>2. history' \in Seq(Tree) /\ history' # <<>>
  BY <1>1, AppendProperties DEF PRTypeOK
<1>3. \A th \in Thread : [th EXCEPT !.line = 0] \in Thread
  BY DEF Thread
<1>4. threads' \subseteq Thread
  BY <1>1, <1>3 DEF PRTypeOK
<1>5. UNCHANGED <<notes, prBody, checks, nextBatch, nextNote>>
  BY DEF Push
<1> QED
  BY <1>2, <1>4, <1>5 DEF PRTypeOK

\* The failure check: check runs stay check runs.
LEMMA FailCheckType ==
  ASSUME NEW h \in Nat, DispatcherTypeOK, FailCheck(h)
  PROVE  checks' \subseteq CheckRun
<1>1. checks \subseteq CheckRun
  BY DEF DispatcherTypeOK, PRTypeOK
<1>2. CheckRunName \in CheckNames /\ "failed" \in Statuses
  BY DEF CheckNames, Statuses
<1> QED
  BY <1>1, <1>2, UpsertType DEF FailCheck

\* The heads, the description and the store of a process are well typed.
LEMMA StateTypes ==
  ASSUME NEW p \in Procs, DispatcherTypeOK
  PROVE  /\ HeadSHA \in Nat
         /\ prBody.user \in Nat /\ prBody.cadoo \in Nat
         /\ ToolOf[p] \in Tools /\ StoreOf[p] \in Stores /\ MuOf[p] \in Mutexes
         /\ St(p) \in Store
         /\ loc[p] \in Local
  BY DispatcherAssumption, LenProperties DEF DispatcherTypeOK, PRTypeOK, HeadSHA, PRBody, St

-----------------------------------------------------------------------------
(* Every step of a dispatcher keeps its type invariant.                    *)

\* FetchPullRequest and ListChangedFiles.
LEMMA FetchKeepsType ==
  ASSUME NEW p \in Procs, DispatcherTypeOK, Fetch(p)
  PROVE  DispatcherTypeOK'
<1>0. HeadSHA \in Nat /\ prBody.user \in Nat /\ prBody.cadoo \in Nat
  BY StateTypes
<1>1. pc' \in [Procs -> PCs] /\ loc' \in [Procs -> Local]
  <2> DEFINE fetched == [EmptyLocal EXCEPT !.head = HeadSHA,
                           !.user = prBody.user, !.section = prBody.cadoo]
  <2>1. CASE Goto(p, "diff") /\ loc' = [loc EXCEPT ![p] = fetched]
    <3>1. fetched \in Local
      BY <1>0 DEF EmptyLocal, Local, NoResult, Result, NoSections
    <3>2. loc' \in [Procs -> Local]
      BY <2>1, <3>1 DEF DispatcherTypeOK
    <3> QED
      BY <2>1, <3>2, GotoType DEF PCs, Working
  <2>2. CASE Finish(p, "failed")
    BY <2>2, FinishType DEF Finished
  <2> QED
    BY <2>1, <2>2 DEF Fetch
<1>2. checks' \subseteq CheckRun
  BY <1>0, FailCheckType DEF Fetch, DispatcherTypeOK, PRTypeOK
<1>3. UNCHANGED <<history, threads, notes, prBody, nextBatch, nextNote, store, mu>>
  BY DEF Fetch
<1> QED
  BY <1>1, <1>2, <1>3 DEF DispatcherTypeOK, PRTypeOK

\* The incremental block.
LEMMA DiffKeepsType ==
  ASSUME NEW p \in Procs, DispatcherTypeOK, Diff(p)
  PROVE  DispatcherTypeOK'
<1>1. \A chg \in SUBSET Files : [loc[p] EXCEPT !.incr = TRUE, !.chg = chg] \in Local
  BY StateTypes DEF Local
<1>2. loc' \in [Procs -> Local]
  <2>1. DiffBetween(St(p).sha, loc[p].head) \in SUBSET Files
    BY DEF DiffBetween
  <2>2. \/ loc' = loc
        \/ \E chg \in SUBSET Files :
             loc' = [loc EXCEPT ![p] = [loc[p] EXCEPT !.incr = TRUE, !.chg = chg]]
    <3>1. CASE loc' = [loc EXCEPT ![p].incr = TRUE,
                                  ![p].chg = DiffBetween(St(p).sha, loc[p].head)]
      BY <3>1, <2>1 DEF DispatcherTypeOK
    <3>2. CASE loc' = [loc EXCEPT ![p].incr = TRUE, ![p].chg = {}]
      BY <3>2 DEF DispatcherTypeOK
    <3> QED
      BY <3>1, <3>2 DEF Diff
  <2> QED
    BY <1>1, <2>2 DEF DispatcherTypeOK
<1>3. pc' \in [Procs -> PCs]
  BY GotoType DEF Diff, PCs, Working
<1> QED
  BY <1>2, <1>3, PRUnchanged DEF Diff, DispatcherTypeOK

\* The tool answers.
LEMMA RunToolKeepsType ==
  ASSUME NEW p \in Procs, DispatcherTypeOK, RunTool(p)
  PROVE  DispatcherTypeOK'
<1>1. PICK res \in ToolResults[ToolOf[p]] :
        Goto(p, AfterTool(p, res)) /\ loc' = [loc EXCEPT ![p].res = res]
  BY DEF RunTool
<1>2. res \in Result
  BY DispatcherAssumption, StateTypes
<1>3. [loc[p] EXCEPT !.res = res] \in Local
  BY <1>2, StateTypes DEF Local
<1>4. loc' \in [Procs -> Local]
  BY <1>1, <1>3 DEF DispatcherTypeOK
<1>5. pc' \in [Procs -> PCs]
  BY <1>1, GotoType DEF AfterTool, PCs, Working
<1> QED
  BY <1>4, <1>5, PRUnchanged DEF RunTool, DispatcherTypeOK

\* The tool fails.
LEMMA ToolFailsKeepsType ==
  ASSUME NEW p \in Procs, DispatcherTypeOK, ToolFails(p)
  PROVE  DispatcherTypeOK'
<1>1. pc' \in [Procs -> PCs] /\ loc' \in [Procs -> Local]
  BY FinishType DEF ToolFails, Finished
<1>2. loc[p].head \in Nat
  BY StateTypes DEF Local
<1>3. checks' \subseteq CheckRun
  BY <1>2, FailCheckType DEF ToolFails
<1> QED
  BY <1>1, <1>3 DEF ToolFails, DispatcherTypeOK, PRTypeOK

\* The plain comment of a dispatcher without a store.
LEMMA LegacySummaryKeepsType ==
  ASSUME NEW p \in Procs, DispatcherTypeOK, LegacySummary(p)
  PROVE  DispatcherTypeOK'
<1>1. pc' \in [Procs -> PCs]
  BY GotoType DEF LegacySummary, PCs, Working
<1>2. notes \subseteq Note /\ nextNote \in Nat \ {0}
  BY DEF DispatcherTypeOK, PRTypeOK
<1>3. notes' \subseteq Note /\ nextNote' \in Nat \ {0}
  <2> DEFINE new == [id |-> nextNote, wrapper |-> FALSE, sha |-> 0,
                     secs |-> NoSections, live |-> TRUE]
  <2>1. new \in Note
    BY <1>2 DEF Note, NoSections
  <2>2. \/ notes' = notes \cup {new} /\ nextNote' = nextNote + 1
        \/ UNCHANGED <<notes, nextNote>>
    BY DEF LegacySummary
  <2> HIDE DEF new
  <2> QED
    BY <1>2, <2>1, <2>2
<1>4. UNCHANGED <<history, threads, prBody, checks, nextBatch, store, mu, loc>>
  BY DEF LegacySummary
<1> QED
  BY <1>1, <1>3, <1>4 DEF DispatcherTypeOK, PRTypeOK

\* PutSection.
LEMMA PutSectionKeepsType ==
  ASSUME NEW p \in Procs, DispatcherTypeOK, PutSection(p)
  PROVE  DispatcherTypeOK'
<1>1. pc' \in [Procs -> PCs]
  BY GotoType DEF PutSection, PCs, Working
<1>2. St(p) \in Store /\ ToolOf[p] \in Tools /\ loc[p].head \in Nat
  BY StateTypes DEF Local
<1>3. [St(p) EXCEPT !.secs[ToolOf[p]] = loc[p].head] \in Store
  BY <1>2 DEF Store
<1>4. store' \in [Stores -> Store]
  BY <1>3, StateTypes DEF PutSection, St, DispatcherTypeOK
<1>5. UNCHANGED <<prVars, mu, loc>>
  BY DEF PutSection
<1> QED
  BY <1>1, <1>4, <1>5, PRUnchanged DEF DispatcherTypeOK

\* The lock is taken, and what it protects is read.
LEMMA LockSummaryKeepsType ==
  ASSUME NEW p \in Procs, DispatcherTypeOK, LockSummary(p)
  PROVE  DispatcherTypeOK'
<1>1. PICK secs \in {St(p).secs, OwnSection(p)}, existing \in {St(p).sum, 0} :
        /\ loc' = [loc EXCEPT ![p].secs = secs, ![p].existing = existing]
        /\ Goto(p, IF existing # 0 THEN "update" ELSE "create")
  BY DEF LockSummary
<1>2. secs \in [Tools -> Nat] /\ existing \in Nat
  BY StateTypes DEF OwnSection, NoSections, Store, Local
<1>3. [loc[p] EXCEPT !.secs = secs, !.existing = existing] \in Local
  BY <1>2, StateTypes DEF Local
<1>4. loc' \in [Procs -> Local]
  BY <1>1, <1>3 DEF DispatcherTypeOK
<1>5. pc' \in [Procs -> PCs]
  BY <1>1, GotoType DEF PCs, Working
<1>6. mu' \in [Mutexes -> Procs \cup {Free}]
  BY StateTypes DEF LockSummary, DispatcherTypeOK
<1>7. UNCHANGED <<prVars, store>>
  BY DEF LockSummary
<1> QED
  BY <1>4, <1>5, <1>6, <1>7, PRUnchanged DEF DispatcherTypeOK

\* The lock is let go of.
LEMMA UnlockType ==
  ASSUME NEW p \in Procs, DispatcherTypeOK, Unlock(p)
  PROVE  mu' \in [Mutexes -> Procs \cup {Free}] /\ loc' \in [Procs -> Local]
<1>1. [loc[p] EXCEPT !.secs = NoSections, !.existing = 0] \in Local
  BY StateTypes DEF Local, NoSections
<1>2. loc' \in [Procs -> Local]
  BY <1>1 DEF Unlock, DispatcherTypeOK
<1>3. mu' \in [Mutexes -> Procs \cup {Free}]
  BY StateTypes DEF Unlock, DispatcherTypeOK
<1> QED
  BY <1>2, <1>3

\* UpdateSummaryComment.
LEMMA UpdateSummaryKeepsType ==
  ASSUME NEW p \in Procs, DispatcherTypeOK, UpdateSummary(p)
  PROVE  DispatcherTypeOK'
<1>1. pc' \in [Procs -> PCs]
  BY GotoType DEF UpdateSummary, PCs, Working
<1>2. mu' \in [Mutexes -> Procs \cup {Free}] /\ loc' \in [Procs -> Local]
  BY UnlockType DEF UpdateSummary, DispatcherTypeOK
<1>3. notes' \subseteq Note
  <2>1. notes \subseteq Note /\ loc[p].head \in Nat /\ loc[p].secs \in [Tools -> Nat]
    BY StateTypes DEF DispatcherTypeOK, PRTypeOK, Local
  <2>2. \A n \in Note :
          [n EXCEPT !.wrapper = TRUE, !.sha = loc[p].head, !.secs = loc[p].secs] \in Note
    BY <2>1 DEF Note
  <2> QED
    BY <2>1, <2>2 DEF UpdateSummary
<1>4. UNCHANGED <<history, threads, prBody, checks, nextBatch, nextNote, store>>
  BY DEF UpdateSummary
<1> QED
  BY <1>1, <1>2, <1>3, <1>4 DEF DispatcherTypeOK, PRTypeOK

\* PostSummaryComment.
LEMMA CreateSummaryKeepsType ==
  ASSUME NEW p \in Procs, DispatcherTypeOK, CreateSummary(p)
  PROVE  DispatcherTypeOK'
<1>1. pc' \in [Procs -> PCs]
  BY GotoType DEF CreateSummary, PCs, Working
<1>2. /\ notes \subseteq Note /\ nextNote \in Nat \ {0}
      /\ loc[p].head \in Nat /\ loc[p].secs \in [Tools -> Nat]
  BY StateTypes DEF DispatcherTypeOK, PRTypeOK, Local
<1>3. mu' \in [Mutexes -> Procs \cup {Free}] /\ loc' \in [Procs -> Local]
  <2>1. [loc[p] EXCEPT !.existing = nextNote] \in Local
    BY <1>2, StateTypes DEF Local
  <2>2. CASE loc' = [loc EXCEPT ![p].existing = nextNote] /\ UNCHANGED mu
    BY <2>1, <2>2 DEF DispatcherTypeOK
  <2> QED
    BY <2>2, UnlockType DEF CreateSummary
<1>4. notes' \subseteq Note /\ nextNote' \in Nat \ {0}
  <2> DEFINE new == [id |-> nextNote, wrapper |-> TRUE, sha |-> loc[p].head,
                     secs |-> loc[p].secs, live |-> TRUE]
  <2>1. new \in Note
    BY <1>2 DEF Note
  <2>2. \/ notes' = notes \cup {new} /\ nextNote' = nextNote + 1
        \/ UNCHANGED <<notes, nextNote>>
    BY DEF CreateSummary
  <2> HIDE DEF new
  <2> QED
    BY <1>2, <2>1, <2>2
<1>5. UNCHANGED <<history, threads, prBody, checks, nextBatch, store>>
  BY DEF CreateSummary
<1> QED
  BY <1>1, <1>3, <1>4, <1>5 DEF DispatcherTypeOK, PRTypeOK

\* PutSummaryID.
LEMMA PutSummaryIDKeepsType ==
  ASSUME NEW p \in Procs, DispatcherTypeOK, PutSummaryID(p)
  PROVE  DispatcherTypeOK'
<1>1. pc' \in [Procs -> PCs]
  BY GotoType DEF PutSummaryID, PCs, Working
<1>2. mu' \in [Mutexes -> Procs \cup {Free}] /\ loc' \in [Procs -> Local]
  BY UnlockType DEF PutSummaryID
<1>3. [St(p) EXCEPT !.sum = loc[p].existing] \in Store
  BY StateTypes DEF Store, Local
<1>4. store' \in [Stores -> Store]
  BY <1>3, StateTypes DEF PutSummaryID, St, DispatcherTypeOK
<1>5. UNCHANGED prVars
  BY DEF PutSummaryID
<1> QED
  BY <1>1, <1>2, <1>4, <1>5, PRUnchanged DEF DispatcherTypeOK

\* The snapshot of the prior findings.
LEMMA SnapshotPriorsKeepsType ==
  ASSUME NEW p \in Procs, DispatcherTypeOK, SnapshotPriors(p)
  PROVE  DispatcherTypeOK'
<1>1. pc' \in [Procs -> PCs]
  BY GotoType DEF SnapshotPriors, PCs, Working
<1>2. ListPostedFindings(St(p).recs) \in SUBSET PostedFinding
  <2>1. \A r \in Rec : Posted(r) \in PostedFinding
    BY DEF Rec, Posted, PostedFinding
  <2> QED
    BY <2>1, StateTypes DEF ListPostedFindings, Store
<1>3. [loc[p] EXCEPT !.prior = ListPostedFindings(St(p).recs)] \in Local
  BY <1>2, StateTypes DEF Local
<1>4. loc' \in [Procs -> Local]
  BY <1>3 DEF SnapshotPriors, DispatcherTypeOK
<1>5. UNCHANGED <<prVars, store, mu>>
  BY DEF SnapshotPriors
<1> QED
  BY <1>1, <1>4, <1>5, PRUnchanged DEF DispatcherTypeOK

\* The two-stage filter.
LEMMA FilterInlineKeepsType ==
  ASSUME NEW p \in Procs, DispatcherTypeOK, FilterInline(p)
  PROVE  DispatcherTypeOK'
<1>1. PICK delta \in SUBSET loc[p].res.inline :
        /\ loc' = [loc EXCEPT ![p].delta = delta]
        /\ Goto(p, IF delta = {} THEN "resolve" ELSE "post")
  BY DEF FilterInline
<1>2. delta \subseteq Comment
  BY StateTypes DEF Local, Result
<1>3. [loc[p] EXCEPT !.delta = delta] \in Local
  BY <1>2, StateTypes DEF Local
<1>4. loc' \in [Procs -> Local]
  BY <1>1, <1>3 DEF DispatcherTypeOK
<1>5. pc' \in [Procs -> PCs]
  BY <1>1, GotoType DEF PCs, Working
<1>6. UNCHANGED <<prVars, store, mu>>
  BY DEF FilterInline
<1> QED
  BY <1>4, <1>5, <1>6, PRUnchanged DEF DispatcherTypeOK

\* PostInlineComments.
LEMMA PostInlineKeepsType ==
  ASSUME NEW p \in Procs, DispatcherTypeOK, PostInline(p)
  PROVE  DispatcherTypeOK'
<1>1. PICK answer \in PostInlineComments(ToolOf[p], loc[p].delta) :
        /\ threads' = threads \cup answer.created
        /\ loc' = [loc EXCEPT ![p].refs = answer.refs, ![p].delta = {}]
        /\ Goto(p, IF St(p).on /\ answer.refs # {} THEN "record" ELSE "resolve")
  BY DEF PostInline
<1>2. threads \subseteq Thread /\ nextBatch \in Nat /\ nextBatch' \in Nat
  BY DEF PostInline, DispatcherTypeOK, PRTypeOK
<1>3. /\ answer.created \subseteq Thread
      /\ answer.refs \subseteq [comment : Comment, eid : ThreadId \cup {NoId}]
  BY <1>2, AnswerType, StateTypes DEF Local
<1>4. [loc[p] EXCEPT !.refs = answer.refs, !.delta = {}] \in Local
  BY <1>3, StateTypes DEF Local
<1>5. loc' \in [Procs -> Local]
  BY <1>1, <1>4 DEF DispatcherTypeOK
<1>6. pc' \in [Procs -> PCs]
  BY <1>1, GotoType DEF PCs, Working
<1>7. threads' \subseteq Thread
  BY <1>1, <1>2, <1>3
<1>8. UNCHANGED <<history, notes, prBody, checks, nextNote, store, mu>>
  BY DEF PostInline
<1> QED
  BY <1>2, <1>5, <1>6, <1>7, <1>8 DEF DispatcherTypeOK, PRTypeOK

\* One RecordFinding.
LEMMA RecordFindingKeepsType ==
  ASSUME NEW p \in Procs, DispatcherTypeOK, RecordFinding(p)
  PROVE  DispatcherTypeOK'
<1>1. PICK ref \in loc[p].refs :
        /\ \/ store' = [store EXCEPT ![StoreOf[p]].recs = Recorded(p, ref.eid, ref.comment)]
           \/ UNCHANGED store
        /\ loc' = [loc EXCEPT ![p].refs = @ \ {ref}]
        /\ Goto(p, IF loc[p].refs = {ref} THEN "resolve" ELSE "record")
  BY DEF RecordFinding
<1>2. ref.eid \in ThreadId \cup {NoId} /\ ref.comment \in Comment
  BY StateTypes DEF Local
<1>3. Recorded(p, ref.eid, ref.comment) \in SUBSET Rec
  BY <1>2, RecordedType DEF DispatcherTypeOK
<1>4. [St(p) EXCEPT !.recs = Recorded(p, ref.eid, ref.comment)] \in Store
  BY <1>3, StateTypes DEF Store
<1>5. store' \in [Stores -> Store]
  BY <1>1, <1>4, StateTypes DEF St, DispatcherTypeOK
<1>6. [loc[p] EXCEPT !.refs = @ \ {ref}] \in Local
  BY StateTypes DEF Local
<1>7. loc' \in [Procs -> Local]
  BY <1>1, <1>6 DEF DispatcherTypeOK
<1>8. pc' \in [Procs -> PCs]
  BY <1>1, GotoType DEF PCs, Working
<1>9. UNCHANGED <<prVars, mu>>
  BY DEF RecordFinding
<1> QED
  BY <1>5, <1>7, <1>8, <1>9, PRUnchanged DEF DispatcherTypeOK

\* One ResolveThread.
LEMMA ResolveStaleKeepsType ==
  ASSUME NEW p \in Procs, DispatcherTypeOK, ResolveStale(p)
  PROVE  DispatcherTypeOK'
<1>1. PICK f \in StalePriors(p) :
        /\ threads' = ResolveThread(f.eid) \/ UNCHANGED threads
        /\ loc' = [loc EXCEPT ![p].prior = @ \ {f}]
  BY DEF ResolveStale
<1>2. threads \subseteq Thread
  BY DEF DispatcherTypeOK, PRTypeOK
<1>3. threads' \subseteq Thread
  BY <1>1, <1>2, ResolveThreadType
<1>4. [loc[p] EXCEPT !.prior = @ \ {f}] \in Local
  BY StateTypes DEF Local
<1>5. loc' \in [Procs -> Local]
  BY <1>1, <1>4 DEF DispatcherTypeOK
<1>6. UNCHANGED <<history, notes, prBody, checks, nextBatch, nextNote, store, mu, pc>>
  BY DEF ResolveStale
<1> QED
  BY <1>3, <1>5, <1>6 DEF DispatcherTypeOK, PRTypeOK

\* The end of postInline.
LEMMA FinishInlineKeepsType ==
  ASSUME NEW p \in Procs, DispatcherTypeOK, FinishInline(p)
  PROVE  DispatcherTypeOK'
<1>1. pc' \in [Procs -> PCs] /\ loc' \in [Procs -> Local]
  <2>1. CASE Finish(p, "done")
    BY <2>1, FinishType DEF Finished
  <2>2. CASE Goto(p, AfterInline(p)) /\ UNCHANGED loc
    BY <2>2, GotoType DEF AfterInline, PCs, Working, Finished, DispatcherTypeOK
  <2> QED
    BY <2>1, <2>2 DEF FinishInline
<1>2. UNCHANGED <<prVars, store, mu>>
  BY DEF FinishInline
<1> QED
  BY <1>1, <1>2, PRUnchanged DEF DispatcherTypeOK

\* One UpsertCheckRun.
LEMMA ReportCheckKeepsType ==
  ASSUME NEW p \in Procs, DispatcherTypeOK, ReportCheck(p)
  PROVE  DispatcherTypeOK'
<1>1. PICK k \in loc[p].res.checks :
        /\ checks' = UpsertCheckRun(k.name, loc[p].head, k.status) \/ UNCHANGED checks
        /\ \/ loc' = [loc EXCEPT ![p].res.checks = @ \ {k}] /\ UNCHANGED pc
           \/ Goto(p, "body") /\ UNCHANGED loc
           \/ Finish(p, "done")
  BY DEF ReportCheck
<1>2. checks' \subseteq CheckRun
  <2>1. k \in Check /\ loc[p].head \in Nat
    BY StateTypes DEF Local, Result
  <2>2. k.name \in CheckNames /\ k.status \in Statuses
    BY <2>1 DEF Check
  <2>3. checks \subseteq CheckRun
    BY DEF DispatcherTypeOK, PRTypeOK
  <2> QED
    BY <1>1, <2>1, <2>2, <2>3, UpsertType
<1>3. pc' \in [Procs -> PCs] /\ loc' \in [Procs -> Local]
  <2>1. CASE loc' = [loc EXCEPT ![p].res.checks = @ \ {k}] /\ UNCHANGED pc
    <3>1. [loc[p] EXCEPT !.res.checks = @ \ {k}] \in Local
      BY StateTypes DEF Local, Result
    <3> QED
      BY <2>1, <3>1 DEF DispatcherTypeOK
  <2>2. CASE Goto(p, "body") /\ UNCHANGED loc
    BY <2>2, GotoType DEF PCs, Working, DispatcherTypeOK
  <2>3. CASE Finish(p, "done")
    BY <2>3, FinishType DEF Finished
  <2> QED
    BY <1>1, <2>1, <2>2, <2>3
<1>4. UNCHANGED <<history, threads, notes, prBody, nextBatch, nextNote, store, mu>>
  BY DEF ReportCheck
<1> QED
  BY <1>2, <1>3, <1>4 DEF DispatcherTypeOK, PRTypeOK

\* applyPRBody.
LEMMA EditBodyKeepsType ==
  ASSUME NEW p \in Procs, DispatcherTypeOK, EditBody(p)
  PROVE  DispatcherTypeOK'
<1>1. pc' \in [Procs -> PCs] /\ loc' \in [Procs -> Local]
  BY FinishType DEF EditBody, Finished
<1>2. prBody' \in PRBody
  BY StateTypes DEF EditBody, DispatcherTypeOK, PRTypeOK, PRBody, Local
<1>3. UNCHANGED <<history, threads, notes, checks, nextBatch, nextNote, store, mu>>
  BY DEF EditBody
<1> QED
  BY <1>1, <1>2, <1>3 DEF DispatcherTypeOK, PRTypeOK

\* Whatever step a dispatcher takes, wherever it runs, every variable keeps
\* its type.
THEOREM DispatchStepKeepsType ==
  ASSUME NEW p \in Procs, DispatcherTypeOK, DispatchStep(p)
  PROVE  DispatcherTypeOK'
<1>1. CASE Fetch(p)  BY <1>1, FetchKeepsType
<1>2. CASE Diff(p)  BY <1>2, DiffKeepsType
<1>3. CASE RunTool(p)  BY <1>3, RunToolKeepsType
<1>4. CASE ToolFails(p)  BY <1>4, ToolFailsKeepsType
<1>5. CASE LegacySummary(p)  BY <1>5, LegacySummaryKeepsType
<1>6. CASE PutSection(p)  BY <1>6, PutSectionKeepsType
<1>7. CASE LockSummary(p)  BY <1>7, LockSummaryKeepsType
<1>8. CASE UpdateSummary(p)  BY <1>8, UpdateSummaryKeepsType
<1>9. CASE CreateSummary(p)  BY <1>9, CreateSummaryKeepsType
<1>10. CASE PutSummaryID(p)  BY <1>10, PutSummaryIDKeepsType
<1>11. CASE SnapshotPriors(p)  BY <1>11, SnapshotPriorsKeepsType
<1>12. CASE FilterInline(p)  BY <1>12, FilterInlineKeepsType
<1>13. CASE PostInline(p)  BY <1>13, PostInlineKeepsType
<1>14. CASE RecordFinding(p)  BY <1>14, RecordFindingKeepsType
<1>15. CASE ResolveStale(p)  BY <1>15, ResolveStaleKeepsType
<1>16. CASE FinishInline(p)  BY <1>16, FinishInlineKeepsType
<1>17. CASE ReportCheck(p)  BY <1>17, ReportCheckKeepsType
<1>18. CASE EditBody(p)  BY <1>18, EditBodyKeepsType
<1> QED
  BY <1>1, <1>2, <1>3, <1>4, <1>5, <1>6, <1>7, <1>8, <1>9, <1>10, <1>11, <1>12,
     <1>13, <1>14, <1>15, <1>16, <1>17, <1>18 DEF DispatchStep

-----------------------------------------------------------------------------
(* summaryMu.                                                              *)

\* How a step of p moves p through Run and what it does to the mutex: nothing,
\* outside the critical section or within it; take it, when it is free, on the
\* way in; give it back on the way out.  Other processes stay where they are.
LEMMA StepAndMutex ==
  ASSUME NEW p \in Procs, DispatcherTypeOK, DispatchStep(p)
  PROVE  /\ pc[p] \in Working /\ pc'[p] \in Working \cup Finished
         /\ pc' = [pc EXCEPT ![p] = pc'[p]]
         /\ \/ mu' = mu /\ (pc[p] \in Critical <=> pc'[p] \in Critical)
            \/ /\ mu[MuOf[p]] = Free /\ mu' = [mu EXCEPT ![MuOf[p]] = p]
               /\ pc[p] \notin Critical /\ pc'[p] \in Critical
            \/ /\ mu' = [mu EXCEPT ![MuOf[p]] = Free]
               /\ pc[p] \in Critical /\ pc'[p] \notin Critical
<1> USE DEF Goto, Finish, Working, Finished, Critical
<1>0. pc \in [Procs -> PCs]
  BY DEF DispatcherTypeOK
<1>1. CASE Fetch(p)  BY <1>0, <1>1 DEF Fetch
<1>2. CASE Diff(p)  BY <1>0, <1>2 DEF Diff
<1>3. CASE RunTool(p)  BY <1>0, <1>3 DEF RunTool, AfterTool
<1>4. CASE ToolFails(p)  BY <1>0, <1>4 DEF ToolFails
<1>5. CASE LegacySummary(p)  BY <1>0, <1>5 DEF LegacySummary
<1>6. CASE PutSection(p)  BY <1>0, <1>6 DEF PutSection
<1>7. CASE LockSummary(p)  BY <1>0, <1>7 DEF LockSummary
<1>8. CASE UpdateSummary(p)  BY <1>0, <1>8 DEF UpdateSummary, Unlock
<1>9. CASE CreateSummary(p)  BY <1>0, <1>9 DEF CreateSummary, Unlock
<1>10. CASE PutSummaryID(p)  BY <1>0, <1>10 DEF PutSummaryID, Unlock
<1>11. CASE SnapshotPriors(p)  BY <1>0, <1>11 DEF SnapshotPriors
<1>12. CASE FilterInline(p)  BY <1>0, <1>12 DEF FilterInline
<1>13. CASE PostInline(p)  BY <1>0, <1>13 DEF PostInline
<1>14. CASE RecordFinding(p)  BY <1>0, <1>14 DEF RecordFinding
<1>15. CASE ResolveStale(p)  BY <1>0, <1>15 DEF ResolveStale
<1>16. CASE FinishInline(p)  BY <1>0, <1>16 DEF FinishInline, AfterInline
<1>17. CASE ReportCheck(p)  BY <1>0, <1>17 DEF ReportCheck
<1>18. CASE EditBody(p)  BY <1>0, <1>18 DEF EditBody
<1> QED
  BY <1>1, <1>2, <1>3, <1>4, <1>5, <1>6, <1>7, <1>8, <1>9, <1>10, <1>11, <1>12,
     <1>13, <1>14, <1>15, <1>16, <1>17, <1>18 DEF DispatchStep

\* A process between the read of the comment's id and its write holds the
\* mutex, and a mutex that is held is held by such a process.
LockHeld ==
  /\ \A p \in Procs : pc[p] \in Critical => mu[MuOf[p]] = p
  /\ \A m \in Mutexes : mu[m] # Free => MuOf[mu[m]] = m /\ pc[mu[m]] \in Critical

\* A step of a dispatcher keeps it so: every way out of postSummary, failing
\* ones included, releases summaryMu.
THEOREM DispatchStepKeepsLock ==
  ASSUME NEW p \in Procs, DispatcherTypeOK, LockHeld, DispatchStep(p)
  PROVE  LockHeld'
<1>1. /\ pc \in [Procs -> PCs] /\ mu \in [Mutexes -> Procs \cup {Free}]
      /\ MuOf \in [Procs -> Mutexes] /\ Free \notin Procs
  BY DispatcherAssumption DEF DispatcherTypeOK
<1>2. \A q \in Procs \ {p} : pc'[q] = pc[q]
  BY <1>1, StepAndMutex
<1>3. CASE mu' = mu /\ (pc[p] \in Critical <=> pc'[p] \in Critical)
  BY <1>1, <1>2, <1>3 DEF LockHeld
<1>4. CASE /\ mu[MuOf[p]] = Free /\ mu' = [mu EXCEPT ![MuOf[p]] = p]
           /\ pc[p] \notin Critical /\ pc'[p] \in Critical
  BY <1>1, <1>2, <1>4 DEF LockHeld
<1>5. CASE /\ mu' = [mu EXCEPT ![MuOf[p]] = Free]
           /\ pc[p] \in Critical /\ pc'[p] \notin Critical
  BY <1>1, <1>2, <1>5 DEF LockHeld
<1> QED
  BY <1>3, <1>4, <1>5, StepAndMutex

-----------------------------------------------------------------------------
(* One step of a dispatcher, told by the place its process is at.          *)

\* Every place but one has one action of its own.
LEMMA WhichStep ==
  ASSUME NEW p \in Procs, DispatchStep(p)
  PROVE  /\ pc[p] = "fetch" => Fetch(p)
         /\ pc[p] = "diff" => Diff(p)
         /\ pc[p] = "tool" => RunTool(p) \/ ToolFails(p)
         /\ pc[p] = "legacy" => LegacySummary(p)
         /\ pc[p] = "section" => PutSection(p)
         /\ pc[p] = "lock" => LockSummary(p)
         /\ pc[p] = "update" => UpdateSummary(p)
         /\ pc[p] = "create" => CreateSummary(p)
         /\ pc[p] = "putid" => PutSummaryID(p)
         /\ pc[p] = "inline" => SnapshotPriors(p)
         /\ pc[p] = "filter" => FilterInline(p)
         /\ pc[p] = "post" => PostInline(p)
         /\ pc[p] = "record" => RecordFinding(p)
         /\ pc[p] = "resolve" => ResolveStale(p) \/ FinishInline(p)
         /\ pc[p] = "check" => ReportCheck(p)
         /\ pc[p] = "body" => EditBody(p)
  BY DEF DispatchStep, Fetch, Diff, RunTool, ToolFails, LegacySummary, PutSection,
         LockSummary, UpdateSummary, CreateSummary, PutSummaryID, SnapshotPriors,
         FilterInline, PostInline, RecordFinding, ResolveStale, FinishInline,
         ReportCheck, EditBody

\* The places a process may have come from.
LEMMA CameFrom ==
  ASSUME NEW p \in Procs, DispatcherTypeOK, DispatchStep(p)
  PROVE  /\ pc'[p] \notin {"idle", "fetch", "killed"}
         /\ pc'[p] = "diff" => pc[p] = "fetch"
         /\ pc'[p] = "tool" => pc[p] = "diff"
         /\ pc'[p] \in {"legacy", "section"} => pc[p] = "tool"
         /\ pc'[p] = "lock" => pc[p] = "section"
         /\ pc'[p] = "update" => pc[p] = "lock"
         /\ pc'[p] = "create" => pc[p] \in {"lock", "update"}
         /\ pc'[p] = "putid" => pc[p] = "create"
         /\ pc'[p] = "inline" => pc[p] \in {"tool", "legacy", "update", "create", "putid"}
         /\ pc'[p] = "filter" => pc[p] = "inline"
         /\ pc'[p] = "post" => pc[p] = "filter"
         /\ pc'[p] = "record" => pc[p] \in {"post", "record"}
         /\ pc'[p] = "resolve" => pc[p] \in {"filter", "post", "record", "resolve"}
         /\ pc'[p] = "check" => pc[p] \in {"resolve", "check"}
         /\ pc'[p] = "body" => pc[p] \in {"resolve", "check"}
<1> USE DEF Goto, Finish
<1>0. pc \in [Procs -> PCs]
  BY DEF DispatcherTypeOK
<1>1. CASE Fetch(p)  BY <1>0, <1>1 DEF Fetch
<1>2. CASE Diff(p)  BY <1>0, <1>2 DEF Diff
<1>3. CASE RunTool(p)  BY <1>0, <1>3 DEF RunTool, AfterTool
<1>4. CASE ToolFails(p)  BY <1>0, <1>4 DEF ToolFails
<1>5. CASE LegacySummary(p)  BY <1>0, <1>5 DEF LegacySummary
<1>6. CASE PutSection(p)  BY <1>0, <1>6 DEF PutSection
<1>7. CASE LockSummary(p)  BY <1>0, <1>7 DEF LockSummary
<1>8. CASE UpdateSummary(p)  BY <1>0, <1>8 DEF UpdateSummary
<1>9. CASE CreateSummary(p)  BY <1>0, <1>9 DEF CreateSummary
<1>10. CASE PutSummaryID(p)  BY <1>0, <1>10 DEF PutSummaryID
<1>11. CASE SnapshotPriors(p)  BY <1>0, <1>11 DEF SnapshotPriors
<1>12. CASE FilterInline(p)  BY <1>0, <1>12 DEF FilterInline
<1>13. CASE PostInline(p)  BY <1>0, <1>13 DEF PostInline
<1>14. CASE RecordFinding(p)  BY <1>0, <1>14 DEF RecordFinding
<1>15. CASE ResolveStale(p)  BY <1>0, <1>15 DEF ResolveStale
<1>16. CASE FinishInline(p)  BY <1>0, <1>16 DEF FinishInline, AfterInline
<1>17. CASE ReportCheck(p)  BY <1>0, <1>17 DEF ReportCheck
<1>18. CASE EditBody(p)  BY <1>0, <1>18 DEF EditBody
<1> QED
  BY <1>1, <1>2, <1>3, <1>4, <1>5, <1>6, <1>7, <1>8, <1>9, <1>10, <1>11, <1>12,
     <1>13, <1>14, <1>15, <1>16, <1>17, <1>18 DEF DispatchStep

\* Another process stays where it is, with its locals.
LEMMA OthersStay ==
  ASSUME NEW p \in Procs, DispatcherTypeOK, DispatchStep(p), NEW q \in Procs \ {p}
  PROVE  pc'[q] = pc[q] /\ loc'[q] = loc[q]
<1> USE DEF Goto, Finish
<1>0. pc \in [Procs -> PCs] /\ loc \in [Procs -> Local]
  BY DEF DispatcherTypeOK
<1>1. CASE Fetch(p)  BY <1>0, <1>1 DEF Fetch
<1>2. CASE Diff(p)  BY <1>0, <1>2 DEF Diff
<1>3. CASE RunTool(p)  BY <1>0, <1>3 DEF RunTool
<1>4. CASE ToolFails(p)  BY <1>0, <1>4 DEF ToolFails
<1>5. CASE LegacySummary(p)  BY <1>0, <1>5 DEF LegacySummary
<1>6. CASE PutSection(p)  BY <1>0, <1>6 DEF PutSection
<1>7. CASE LockSummary(p)  BY <1>0, <1>7 DEF LockSummary
<1>8. CASE UpdateSummary(p)  BY <1>0, <1>8 DEF UpdateSummary, Unlock
<1>9. CASE CreateSummary(p)  BY <1>0, <1>9 DEF CreateSummary, Unlock
<1>10. CASE PutSummaryID(p)  BY <1>0, <1>10 DEF PutSummaryID, Unlock
<1>11. CASE SnapshotPriors(p)  BY <1>0, <1>11 DEF SnapshotPriors
<1>12. CASE FilterInline(p)  BY <1>0, <1>12 DEF FilterInline
<1>13. CASE PostInline(p)  BY <1>0, <1>13 DEF PostInline
<1>14. CASE RecordFinding(p)  BY <1>0, <1>14 DEF RecordFinding
<1>15. CASE ResolveStale(p)  BY <1>0, <1>15 DEF ResolveStale
<1>16. CASE FinishInline(p)  BY <1>0, <1>16 DEF FinishInline
<1>17. CASE ReportCheck(p)  BY <1>0, <1>17 DEF ReportCheck
<1>18. CASE EditBody(p)  BY <1>0, <1>18 DEF EditBody
<1> QED
  BY <1>1, <1>2, <1>3, <1>4, <1>5, <1>6, <1>7, <1>8, <1>9, <1>10, <1>11, <1>12,
     <1>13, <1>14, <1>15, <1>16, <1>17, <1>18 DEF DispatchStep

\* What a process carries along while it works: each local is written in one
\* place, and consumed in one.
LEMMA LocalsKept ==
  ASSUME NEW p \in Procs, DispatcherTypeOK, DispatchStep(p), pc'[p] \in Working
  PROVE  /\ pc[p] # "fetch" =>
              /\ loc'[p].head = loc[p].head
              /\ loc'[p].user = loc[p].user
         /\ pc[p] \notin {"fetch", "diff"} =>
              /\ loc'[p].incr = loc[p].incr
              /\ loc'[p].chg = loc[p].chg
         /\ pc[p] \notin {"fetch", "tool"} =>
              /\ loc'[p].res.inline = loc[p].res.inline
              /\ loc'[p].res.checks \subseteq loc[p].res.checks
         /\ pc[p] \notin {"fetch", "inline"} => loc'[p].prior \subseteq loc[p].prior
         /\ pc[p] \notin {"fetch", "filter"} => loc'[p].delta \subseteq loc[p].delta
         /\ pc[p] \notin {"fetch", "post"} => loc'[p].refs \subseteq loc[p].refs
<1> DEFINE Kept == /\ loc'[p].head = loc[p].head
                   /\ loc'[p].user = loc[p].user
                   /\ pc[p] # "diff" => /\ loc'[p].incr = loc[p].incr
                                        /\ loc'[p].chg = loc[p].chg
                   /\ pc[p] # "tool" => /\ loc'[p].res.inline = loc[p].res.inline
                                        /\ loc'[p].res.checks \subseteq loc[p].res.checks
                   /\ pc[p] # "inline" => loc'[p].prior \subseteq loc[p].prior
                   /\ pc[p] # "filter" => loc'[p].delta \subseteq loc[p].delta
                   /\ pc[p] # "post" => loc'[p].refs \subseteq loc[p].refs
<1> USE DEF Goto, Finish, Working, Finished
<1>0. pc \in [Procs -> PCs] /\ loc \in [Procs -> Local] /\ loc[p] \in Local
  BY DEF DispatcherTypeOK
<1>1. CASE Fetch(p)  BY <1>0, <1>1 DEF Fetch
<1>2. CASE Diff(p)
  <2>1. \/ loc' = loc
        \/ \E chg : loc' = [loc EXCEPT ![p].incr = TRUE, ![p].chg = chg]
    BY <1>2 DEF Diff
  <2>2. CASE loc' = loc  BY <2>2
  <2>3. ASSUME NEW chg, loc' = [loc EXCEPT ![p].incr = TRUE, ![p].chg = chg]
        PROVE  Kept
    BY <1>0, <1>2, <2>3 DEF Local, Diff
  <2> QED
    BY <1>2, <2>1, <2>2, <2>3 DEF Diff
<1>3. CASE RunTool(p)
  <2>1. PICK res : loc' = [loc EXCEPT ![p].res = res]
    BY <1>3 DEF RunTool
  <2> QED
    BY <1>0, <1>3, <2>1 DEF RunTool, Local
<1>4. CASE ToolFails(p)  BY <1>0, <1>4 DEF ToolFails
<1>5. CASE LegacySummary(p)  BY <1>0, <1>5 DEF LegacySummary
<1>6. CASE PutSection(p)  BY <1>0, <1>6 DEF PutSection
<1>7. CASE LockSummary(p)
  <2>1. PICK secs, existing : loc' = [loc EXCEPT ![p].secs = secs, ![p].existing = existing]
    BY <1>7 DEF LockSummary
  <2> QED
    BY <1>0, <1>7, <2>1 DEF LockSummary, Local
<1>8. CASE UpdateSummary(p)
  <2>1. loc' = loc \/ loc' = [loc EXCEPT ![p].secs = NoSections, ![p].existing = 0]
    BY <1>8 DEF UpdateSummary, Unlock
  <2>2. pc[p] = "update"
    BY <1>8 DEF UpdateSummary
  <2>3. CASE loc' = loc  BY <2>2, <2>3
  <2>4. CASE loc' = [loc EXCEPT ![p].secs = NoSections, ![p].existing = 0]
    BY <1>0, <2>2, <2>4 DEF Local
  <2> QED
    BY <2>1, <2>3, <2>4
<1>9. CASE CreateSummary(p)
  <2>1. \/ loc' = [loc EXCEPT ![p].existing = nextNote]
        \/ loc' = [loc EXCEPT ![p].secs = NoSections, ![p].existing = 0]
    BY <1>9 DEF CreateSummary, Unlock
  <2>2. pc[p] = "create"
    BY <1>9 DEF CreateSummary
  <2>3. CASE loc' = [loc EXCEPT ![p].existing = nextNote]
    BY <1>0, <2>2, <2>3 DEF Local
  <2>4. CASE loc' = [loc EXCEPT ![p].secs = NoSections, ![p].existing = 0]
    BY <1>0, <2>2, <2>4 DEF Local
  <2> QED
    BY <2>1, <2>3, <2>4
<1>10. CASE PutSummaryID(p)
  <2>1. loc' = [loc EXCEPT ![p].secs = NoSections, ![p].existing = 0]
    BY <1>10 DEF PutSummaryID, Unlock
  <2> QED
    BY <1>0, <1>10, <2>1 DEF PutSummaryID, Local
<1>11. CASE SnapshotPriors(p)
  <2>1. PICK prior : loc' = loc \/ loc' = [loc EXCEPT ![p].prior = prior]
    BY <1>11 DEF SnapshotPriors
  <2> QED
    BY <1>0, <1>11, <2>1 DEF SnapshotPriors, Local
<1>12. CASE FilterInline(p)
  <2>1. PICK delta : loc' = [loc EXCEPT ![p].delta = delta]
    BY <1>12 DEF FilterInline
  <2> QED
    BY <1>0, <1>12, <2>1 DEF FilterInline, Local
<1>13. CASE PostInline(p)
  <2>1. PICK refs : loc' = [loc EXCEPT ![p].refs = refs, ![p].delta = {}]
    BY <1>13 DEF PostInline
  <2> QED
    BY <1>0, <1>13, <2>1 DEF PostInline, Local
<1>14. CASE RecordFinding(p)
  <2>1. PICK ref : loc' = [loc EXCEPT ![p].refs = @ \ {ref}]
    BY <1>14 DEF RecordFinding
  <2> QED
    BY <1>0, <1>14, <2>1 DEF RecordFinding, Local
<1>15. CASE ResolveStale(p)
  <2>1. PICK f : loc' = [loc EXCEPT ![p].prior = @ \ {f}]
    BY <1>15 DEF ResolveStale
  <2> QED
    BY <1>0, <1>15, <2>1 DEF ResolveStale, Local
<1>16. CASE FinishInline(p)  BY <1>0, <1>16 DEF FinishInline
<1>17. CASE ReportCheck(p)
  <2>1. PICK k : \/ loc' = loc \/ loc' = [loc EXCEPT ![p].res.checks = @ \ {k}]
    BY <1>0, <1>17 DEF ReportCheck
  <2>2. pc[p] = "check"
    BY <1>17 DEF ReportCheck
  <2>3. CASE loc' = loc  BY <2>2, <2>3
  <2>4. CASE loc' = [loc EXCEPT ![p].res.checks = @ \ {k}]
    <3> DEFINE res == [loc[p].res EXCEPT !.checks = loc[p].res.checks \ {k}]
    <3>1. loc'[p] = [loc[p] EXCEPT !.res = res]
      BY <1>0, <2>4
    <3>2. /\ res.inline = loc[p].res.inline
          /\ res.checks = loc[p].res.checks \ {k}
      BY <1>0 DEF Local, Result
    <3>3. loc'[p].res = res
      BY <1>0, <3>1 DEF Local
    <3>4. /\ loc'[p].head = loc[p].head /\ loc'[p].user = loc[p].user
          /\ loc'[p].incr = loc[p].incr /\ loc'[p].chg = loc[p].chg
          /\ loc'[p].prior = loc[p].prior /\ loc'[p].delta = loc[p].delta
          /\ loc'[p].refs = loc[p].refs
      BY <1>0, <3>1 DEF Local
    <3> HIDE DEF res
    <3> QED
      BY <2>2, <3>2, <3>3, <3>4
  <2> QED
    BY <2>1, <2>3, <2>4
<1>18. CASE EditBody(p)  BY <1>0, <1>18 DEF EditBody
<1> QED
  BY <1>1, <1>2, <1>3, <1>4, <1>5, <1>6, <1>7, <1>8, <1>9, <1>10, <1>11, <1>12,
     <1>13, <1>14, <1>15, <1>16, <1>17, <1>18 DEF DispatchStep

\* Who writes what: outside these places the variable is left alone.
LEMMA WhoWrites ==
  ASSUME NEW p \in Procs, DispatchStep(p)
  PROVE  /\ UNCHANGED history
         /\ pc[p] \notin {"post", "resolve"} => UNCHANGED threads
         /\ pc[p] # "post" => UNCHANGED nextBatch
         /\ pc[p] \notin {"legacy", "update", "create"} => UNCHANGED notes
         /\ pc[p] \notin {"legacy", "create"} => UNCHANGED nextNote
         /\ pc[p] \notin {"section", "putid", "record"} => UNCHANGED store
         /\ pc[p] \notin {"fetch", "tool", "check"} => UNCHANGED checks
         /\ pc[p] # "body" => UNCHANGED prBody
  BY DEF DispatchStep, prVars, Fetch, Diff, RunTool, ToolFails, LegacySummary, PutSection,
         LockSummary, UpdateSummary, CreateSummary, PutSummaryID, SnapshotPriors,
         FilterInline, PostInline, RecordFinding, ResolveStale, FinishInline,
         ReportCheck, EditBody

-----------------------------------------------------------------------------
(* The threads of a pull request.                                          *)

\* What posting makes: one thread per comment at most, under ids nobody has;
\* an id that is answered names the thread of its comment; and unless posting
\* may fail, every comment has its thread.
LEMMA PostAnswer ==
  ASSUME NEW tool, NEW delta, NEW answer \in PostInlineComments(tool, delta)
  PROVE  /\ \A th \in answer.created :
              \E c \in delta, a \in BOOLEAN : th = NewThread(tool, c, a)
         /\ \A a, b \in answer.created : a.id = b.id => a = b
         /\ \A ref \in answer.refs :
              /\ ref.comment \in delta
              /\ ref.eid # NoId => ref.eid = [batch |-> nextBatch, comment |-> ref.comment]
         /\ "inline" \notin Faults =>
              \A c \in delta : \E a \in BOOLEAN : NewThread(tool, c, a) \in answer.created
<1> DEFINE Good(ans) ==
      /\ \A th \in ans.created : \E c \in delta, a \in BOOLEAN : th = NewThread(tool, c, a)
      /\ \A a, b \in ans.created : a.id = b.id => a = b
      /\ \A ref \in ans.refs :
           /\ ref.comment \in delta
           /\ ref.eid # NoId => ref.eid = [batch |-> nextBatch, comment |-> ref.comment]
      /\ "inline" \notin Faults =>
           \A c \in delta : \E a \in BOOLEAN : NewThread(tool, c, a) \in ans.created
<1>1. \A c, d, a, b : NewThread(tool, c, a).id = NewThread(tool, d, b).id => c = d
  BY DEF NewThread
<1>2. ASSUME "inline" \in Faults PROVE Good(NoAnswer)
  BY <1>2 DEF NoAnswer
<1>3. ASSUME answer \in GithubPost(tool, delta) PROVE Good(answer)
  <2> DEFINE all == {NewThread(tool, c, TRUE) : c \in delta}
             refs == {[comment |-> c, eid |-> NoId] : c \in delta}
  <2>a. \A th \in all : \E c \in delta : th = NewThread(tool, c, TRUE)
    OBVIOUS
  <2>b. \A a, b \in all : a.id = b.id => a = b
    <3>1. \A c, d \in delta : NewThread(tool, c, TRUE).id = NewThread(tool, d, TRUE).id => c = d
      BY DEF NewThread
    <3> QED
      BY <2>a, <3>1
  <2>1. /\ \A th \in all : \E c \in delta, a \in BOOLEAN : th = NewThread(tool, c, a)
        /\ \A a, b \in all : a.id = b.id => a = b
        /\ \A c \in delta : \E a \in BOOLEAN : NewThread(tool, c, a) \in all
    BY <2>a, <2>b
  <2>2. \A ref \in refs : ref.comment \in delta /\ ref.eid = NoId
    OBVIOUS
  <2>3. \/ answer = [created |-> all, refs |-> refs]
        \/ "inline" \in Faults /\ answer = NoAnswer
        \/ answer = [created |-> all, refs |-> {}]
    BY <1>3 DEF GithubPost
  <2> HIDE DEF all, refs
  <2>4. CASE answer = [created |-> all, refs |-> refs]
    BY <2>1, <2>2, <2>4
  <2>5. CASE answer = [created |-> all, refs |-> {}]
    BY <2>1, <2>5
  <2> QED
    BY <1>2, <2>3, <2>4, <2>5
<1>4. ASSUME answer \in GitlabPost(tool, delta) PROVE Good(answer)
  <2> DEFINE Made(o) == {c \in delta : o[c] # "fail"}
             Created(o) == {NewThread(tool, c, o[c] # "note") : c \in Made(o)}
             Refs(o) == {[comment |-> c,
                          eid |-> IF o[c] = "discussion"
                                  THEN [batch |-> nextBatch, comment |-> c] ELSE NoId]
                         : c \in delta}
             outs == {"discussion", "note"}
                     \cup (IF "inline" \in Faults THEN {"fail"} ELSE {})
                     \cup (IF "lost" \in Faults THEN {"lost"} ELSE {})
  <2>1. \/ "inline" \in Faults /\ answer = NoAnswer
        \/ \E o \in [delta -> outs] : answer = [created |-> Created(o), refs |-> Refs(o)]
    BY <1>4 DEF GitlabPost
  <2>2. ASSUME NEW o \in [delta -> outs],
               answer = [created |-> Created(o), refs |-> Refs(o)]
        PROVE  Good(answer)
    <3>1. "inline" \notin Faults => Made(o) = delta
      OBVIOUS
    <3>2. \A th \in Created(o) : \E c \in delta, a \in BOOLEAN : th = NewThread(tool, c, a)
      OBVIOUS
    <3>3. \A a, b \in Created(o) : a.id = b.id => a = b
      BY <1>1
    <3>4. \A ref \in Refs(o) :
            /\ ref.comment \in delta
            /\ ref.eid # NoId => ref.eid = [batch |-> nextBatch, comment |-> ref.comment]
      OBVIOUS
    <3>5. \A c \in Made(o) : \E a \in BOOLEAN : NewThread(tool, c, a) \in Created(o)
      OBVIOUS
    <3> HIDE DEF Created, Refs, Made, outs
    <3> QED
      BY <2>2, <3>1, <3>2, <3>3, <3>4, <3>5
  <2> QED
    BY <1>2, <2>1, <2>2
<1> QED
  BY <1>3, <1>4 DEF PostInlineComments

\* What a thread may become: it can lose its line and be closed once.
Becomes(a, b) ==
  /\ b.id = a.id /\ b.tool = a.tool /\ b.file = a.file /\ b.sev = a.sev
  /\ b.sk = a.sk /\ b.nt = a.nt /\ b.anchored = a.anchored
  /\ b.line \in {a.line, 0}
  /\ b.state # a.state => a.state = "open" /\ a.anchored

\* Threads have ids of their own, older than the next post; the key in the
\* marker is that of what is shown; only an anchored thread is ever closed.
ThreadsProper ==
  /\ \A th \in threads :
       /\ th.id.batch < nextBatch
       /\ th.sk = [tool |-> th.tool, file |-> th.file, sev |-> th.sev, nt |-> th.nt]
       /\ th.state # "open" => th.anchored
  /\ \A a, b \in threads : a.id = b.id => a = b

\* Threads that all change in place stay proper.
LEMMA ChangeInPlace ==
  ASSUME ThreadsProper, threads \subseteq Thread, UNCHANGED nextBatch,
         NEW F, threads' = {F[th] : th \in threads},
         \A th \in threads : Becomes(th, F[th])
  PROVE  /\ ThreadsProper'
         /\ \A a \in threads : \E b \in threads' : Becomes(a, b)
         /\ \A b \in threads' : \E a \in threads : Becomes(a, b)
<1>1. /\ \A a \in threads : \E b \in threads' : Becomes(a, b)
      /\ \A b \in threads' : \E a \in threads : Becomes(a, b)
  OBVIOUS
<1>2. \A a, b \in threads' : a.id = b.id => a = b
  BY DEF ThreadsProper, Becomes
<1>3. \A b \in threads' :
        /\ b.id.batch < nextBatch
        /\ b.sk = [tool |-> b.tool, file |-> b.file, sev |-> b.sev, nt |-> b.nt]
        /\ b.state # "open" => b.anchored
  <2> SUFFICES ASSUME NEW a \in threads, NEW b, Becomes(a, b)
               PROVE  /\ b.id.batch < nextBatch
                      /\ b.sk = [tool |-> b.tool, file |-> b.file, sev |-> b.sev, nt |-> b.nt]
                      /\ b.state # "open" => b.anchored
    BY <1>1
  <2> QED
    BY DEF ThreadsProper, Becomes
<1> QED
  BY <1>1, <1>2, <1>3 DEF ThreadsProper

\* What a step of a dispatcher does to the threads: it posts comments of its
\* tool, or closes a thread in place.
LEMMA StepThreads ==
  ASSUME NEW p \in Procs, DispatcherTypeOK, ThreadsProper, DispatchStep(p)
  PROVE  /\ ThreadsProper'
         /\ \A a \in threads : \E b \in threads' : Becomes(a, b)
         /\ \A b \in threads' :
              \/ \E a \in threads : Becomes(a, b)
              \/ /\ pc[p] = "post"
                 /\ \E c \in loc[p].delta, a \in BOOLEAN : b = NewThread(ToolOf[p], c, a)
<1>0. threads \subseteq Thread /\ nextBatch \in Nat
  BY DEF DispatcherTypeOK, PRTypeOK
<1>4. \A th \in threads : Becomes(th, th)
  BY DEF Becomes
<1>1. CASE UNCHANGED <<threads, nextBatch>>
  BY <1>1, <1>4 DEF ThreadsProper
<1>2. CASE PostInline(p)
  <2>1. PICK answer \in PostInlineComments(ToolOf[p], loc[p].delta) :
          threads' = threads \cup answer.created
    BY <1>2 DEF PostInline
  <2>2. pc[p] = "post" /\ nextBatch' = nextBatch + 1
    BY <1>2 DEF PostInline
  <2>3. \A th \in answer.created :
          \E c \in loc[p].delta, a \in BOOLEAN : th = NewThread(ToolOf[p], c, a)
    BY PostAnswer
  <2>4. \A a, b \in answer.created : a.id = b.id => a = b
    BY PostAnswer
  <2>5. \A th \in answer.created :
          /\ th.id.batch = nextBatch
          /\ th.sk = [tool |-> th.tool, file |-> th.file, sev |-> th.sev, nt |-> th.nt]
          /\ th.state = "open"
    <3> SUFFICES ASSUME NEW c, NEW a \in BOOLEAN
                 PROVE  LET th == NewThread(ToolOf[p], c, a)
                        IN  /\ th.id.batch = nextBatch
                            /\ th.sk = [tool |-> th.tool, file |-> th.file, sev |-> th.sev,
                                        nt |-> th.nt]
                            /\ th.state = "open"
      BY <2>3
    <3> QED
      BY DEF NewThread, StructuralKey
  <2>6. \A th \in threads : th.id.batch < nextBatch + 1 /\ th.id.batch # nextBatch
    <3> SUFFICES ASSUME NEW th \in threads
                 PROVE  th.id.batch < nextBatch + 1 /\ th.id.batch # nextBatch
      OBVIOUS
    <3>1. th.id.batch \in Nat
      BY <1>0 DEF Thread, ThreadId
    <3>2. th.id.batch < nextBatch
      BY DEF ThreadsProper
    <3> QED
      BY <1>0, <3>1, <3>2
  <2>7. \A a, b \in threads' : a.id = b.id => a = b
    <3>1. \A a \in threads, b \in answer.created : a.id # b.id
      BY <2>5, <2>6, ZenonT(40)
    <3> QED
      BY <2>1, <2>4, <3>1 DEF ThreadsProper
  <2>8. \A th \in threads' :
          /\ th.id.batch < nextBatch + 1
          /\ th.sk = [tool |-> th.tool, file |-> th.file, sev |-> th.sev, nt |-> th.nt]
          /\ th.state # "open" => th.anchored
    <3>1. \A th \in answer.created : th.id.batch < nextBatch + 1
      <4>1. nextBatch < nextBatch + 1
        BY <1>0
      <4> QED
        BY <2>5, <4>1
    <3>2. \A th \in threads :
            /\ th.sk = [tool |-> th.tool, file |-> th.file, sev |-> th.sev, nt |-> th.nt]
            /\ th.state # "open" => th.anchored
      BY DEF ThreadsProper
    <3>3. \A th \in threads' : th \in threads \/ th \in answer.created
      BY <2>1
    <3> SUFFICES ASSUME NEW th \in threads'
                 PROVE  /\ th.id.batch < nextBatch + 1
                        /\ th.sk = [tool |-> th.tool, file |-> th.file, sev |-> th.sev,
                                    nt |-> th.nt]
                        /\ th.state # "open" => th.anchored
      OBVIOUS
    <3>4. CASE th \in threads
      BY <2>6, <3>2, <3>4
    <3>5. CASE th \in answer.created
      BY <2>5, <3>1, <3>5
    <3> QED
      BY <3>3, <3>4, <3>5
  <2>9. ThreadsProper'
    BY <2>2, <2>7, <2>8 DEF ThreadsProper
  <2> QED
    BY <1>4, <2>1, <2>2, <2>3, <2>9
<1>3. CASE ResolveStale(p)
  <2>1. PICK f \in StalePriors(p) : threads' = ResolveThread(f.eid) \/ UNCHANGED threads
    BY <1>3 DEF ResolveStale
  <2>2. UNCHANGED nextBatch
    BY <1>3 DEF ResolveStale
  <2>3. CASE threads' = ResolveThread(f.eid)
    <3> DEFINE F == [th \in threads |->
                   IF th.id = f.eid /\ th.anchored /\ th.state = "open"
                   THEN [th EXCEPT !.state = "cadoo"] ELSE th]
    <3>1. threads' = {F[th] : th \in threads}
      BY <2>3 DEF ResolveThread
    <3>2. \A th \in threads : Becomes(th, F[th])
      BY <1>0 DEF Becomes, Thread
    <3> HIDE DEF F
    <3> QED
      BY <1>0, <2>2, <3>1, <3>2, ChangeInPlace
  <2> QED
    BY <1>1, <2>1, <2>2, <2>3
<1> QED
  BY <1>1, <1>2, <1>3, WhichStep, WhoWrites DEF FinishInline, prVars

\* A push leaves threads proper; some may lose their line.
LEMMA PushThreads ==
  ASSUME NEW maxHead, PRTypeOK, ThreadsProper, Push(maxHead)
  PROVE  /\ ThreadsProper'
         /\ \A a \in threads : \E b \in threads' : Becomes(a, b)
         /\ \A b \in threads' : \E a \in threads : Becomes(a, b)
<1>1. PICK tree \in Tree, outdates \in {FALSE, TRUE} :
        threads' = {IF outdates /\ tree[th.file] # history[HeadSHA][th.file]
                    THEN [th EXCEPT !.line = 0] ELSE th : th \in threads}
  BY DEF Push
<1>2. threads \subseteq Thread /\ UNCHANGED nextBatch
  BY DEF Push, PRTypeOK
<1> DEFINE F == [th \in threads |->
               IF outdates /\ tree[th.file] # history[HeadSHA][th.file]
               THEN [th EXCEPT !.line = 0] ELSE th]
<1>3. threads' = {F[th] : th \in threads}
  BY <1>1
<1>4. \A th \in threads : Becomes(th, F[th])
  BY <1>2 DEF Becomes, Thread
<1> HIDE DEF F
<1> QED
  BY <1>2, <1>3, <1>4, ChangeInPlace

\* A reviewer closes a thread in place.
LEMMA UserResolvesThreads ==
  ASSUME PRTypeOK, ThreadsProper, UserResolves
  PROVE  /\ ThreadsProper'
         /\ \A a \in threads : \E b \in threads' : Becomes(a, b)
         /\ \A b \in threads' : \E a \in threads : Becomes(a, b)
<1>1. PICK th \in threads :
        /\ th.anchored /\ th.state = "open"
        /\ threads' = (threads \ {th}) \cup {[th EXCEPT !.state = "user"]}
  BY DEF UserResolves
<1>2. threads \subseteq Thread /\ UNCHANGED nextBatch
  BY DEF UserResolves, PRTypeOK
<1> DEFINE F == [x \in threads |-> IF x = th THEN [th EXCEPT !.state = "user"] ELSE x]
<1>3. threads' = {F[x] : x \in threads}
  BY <1>1
<1>4. \A x \in threads : Becomes(x, F[x])
  BY <1>1, <1>2 DEF Becomes, Thread
<1> HIDE DEF F
<1> QED
  BY <1>2, <1>3, <1>4, ChangeInPlace

-----------------------------------------------------------------------------
(* What the records of a store are about.                                  *)

\* The markers of the model are not records of something.
LEMMA Markers ==
  /\ \A tool, c : Fingerprint(tool, c) # NoFp
  /\ \A tool, c, d : Fingerprint(tool, c) = Fingerprint(tool, d) => c = d
  /\ \A tool, c : Fingerprint(tool, c).tool = tool /\ Fingerprint(tool, c).comment = c
  BY DEF Fingerprint, NoFp

\* A record and a thread of one finding.
Mirrors(rec, th) ==
  rec.tool = th.tool /\ rec.file = th.file /\ rec.sev = th.sev /\ rec.nt = th.nt
  /\ rec.sk = th.sk

\* b is a, but for an id learned late.
SameFinding(a, b) ==
  /\ b.tool = a.tool /\ b.file = a.file /\ b.sev = a.sev /\ b.sk = a.sk /\ b.nt = a.nt
  /\ b.fp = a.fp /\ b.resolved = a.resolved /\ b.line = a.line

\* What RecordFinding makes of the records of a run.
LEMMA MemRecordIs ==
  ASSUME NEW recs \in SUBSET Rec, NEW tool \in Tools, NEW eid \in ThreadId \cup {NoId},
         NEW c \in Comment, NEW new, new = MemRecord(recs, tool, eid, c)
  PROVE  /\ \A a \in recs : \E b \in new : SameFinding(a, b)
         /\ \A b \in new :
              \/ b \in recs
              \/ b = NewRec(tool, eid, c)
              \/ \E a \in recs : /\ a.fp = Fingerprint(tool, c) /\ SameFinding(a, b)
                                 /\ b.eid = eid
         /\ \E b \in new : b.fp = Fingerprint(tool, c)
<1> DEFINE same == {r \in recs : r.fp = Fingerprint(tool, c)}
           Filled(r) == IF r \in same /\ r.eid = NoId THEN [r EXCEPT !.eid = eid] ELSE r
<1>1. CASE same = {}
  <2>1. new = recs \cup {NewRec(tool, eid, c)}
    BY <1>1 DEF MemRecord
  <2>2. NewRec(tool, eid, c).fp = Fingerprint(tool, c)
    BY DEF NewRec
  <2>3. \A a \in recs : SameFinding(a, a)
    BY DEF SameFinding
  <2> QED
    BY <2>1, <2>2, <2>3
<1>2. CASE same # {}
  <2>1. new = {Filled(r) : r \in recs}
    BY <1>2 DEF MemRecord
  <2>2. \A r \in recs :
          /\ SameFinding(r, Filled(r))
          /\ Filled(r) = r \/ (r \in same /\ Filled(r).eid = eid)
    <3> SUFFICES ASSUME NEW r \in recs
                 PROVE  /\ SameFinding(r, Filled(r))
                        /\ Filled(r) = r \/ (r \in same /\ Filled(r).eid = eid)
      OBVIOUS
    <3>1. CASE r \in same /\ r.eid = NoId
      <4>1. Filled(r) = [r EXCEPT !.eid = eid] /\ r \in Rec
        BY <3>1
      <4> QED
        BY <3>1, <4>1 DEF SameFinding, Rec
    <3>2. CASE ~(r \in same /\ r.eid = NoId)
      <4>1. Filled(r) = r
        BY <3>2
      <4> QED
        BY <4>1 DEF SameFinding
    <3> QED
      BY <3>1, <3>2
  <2>3. \A r \in same : r \in recs /\ r.fp = Fingerprint(tool, c)
    OBVIOUS
  <2> HIDE DEF Filled, same
  <2>4. \A a \in recs : \E b \in new : SameFinding(a, b)
    BY <2>1, <2>2
  <2>5. \A b \in new :
          \/ b \in recs
          \/ \E a \in recs : /\ a.fp = Fingerprint(tool, c) /\ SameFinding(a, b)
                             /\ b.eid = eid
    BY <2>1, <2>2, <2>3
  <2>6. \E b \in new : b.fp = Fingerprint(tool, c)
    BY <1>2, <2>1, <2>2, <2>3 DEF SameFinding
  <2> QED
    BY <2>4, <2>5, <2>6
<1> QED
  BY <1>1, <1>2

\* th shows exactly the finding c.
Shows(th, tool, c) ==
  /\ th.tool = tool /\ th.file = c.file /\ th.sev = c.sev
  /\ th.nt = normalizeTitle[c.body] /\ th.sk = StructuralKey(tool, c)

\* The two thresholds: titles similar enough for an open thread are similar
\* enough for a resolved one.
LEMMA SimilarEnough ==
  ASSUME NEW a \in Titles, NEW b \in Titles, SimilarTitle(a, b)
  PROVE  SimilarToResolved(a, b)
<1> DEFINE both == tokenize[a] \cap tokenize[b]
           either == tokenize[a] \cup tokenize[b]
<1>1. IsFiniteSet(tokenize[a]) /\ IsFiniteSet(tokenize[b])
  BY TextAssumption
<1>2. Cardinality(both) \in Nat /\ Cardinality(either) \in Nat
  BY <1>1, FS_CardinalityType, FS_Union, FS_Intersection
<1>3. /\ tokenize[a] # {} /\ tokenize[b] # {}
      /\ 2 * Cardinality(both) >= 1 * Cardinality(either)
  BY DEF SimilarTitle, SimilarAtLeast
<1> HIDE DEF both, either
<1>4. 10 * Cardinality(both) >= 3 * Cardinality(either)
  BY <1>2, <1>3
<1> QED
  BY <1>3, <1>4 DEF SimilarToResolved, SimilarAtLeast, both, either

\* A job that has ended has let go of its locals.
LEMMA EndsEmpty ==
  ASSUME NEW p \in Procs, DispatcherTypeOK, DispatchStep(p), pc'[p] \notin Working
  PROVE  loc'[p] = EmptyLocal
<1> USE DEF Goto, Finish, Working
<1>0. pc \in [Procs -> PCs] /\ loc \in [Procs -> Local] /\ DispatchStep(p)
  BY DEF DispatcherTypeOK
<1>1. CASE Fetch(p)  BY <1>0, <1>1 DEF Fetch
<1>2. CASE \/ Diff(p) \/ RunTool(p) \/ LegacySummary(p) \/ PutSection(p)
           \/ LockSummary(p) \/ UpdateSummary(p) \/ CreateSummary(p) \/ PutSummaryID(p)
           \/ SnapshotPriors(p) \/ FilterInline(p) \/ PostInline(p) \/ RecordFinding(p)
           \/ ResolveStale(p)
  BY <1>0, <1>2 DEF Diff, RunTool, AfterTool, LegacySummary, PutSection, LockSummary,
       UpdateSummary, CreateSummary, PutSummaryID, SnapshotPriors, FilterInline, PostInline,
       RecordFinding, ResolveStale
<1>3. CASE ToolFails(p)  BY <1>0, <1>3 DEF ToolFails
<1>4. CASE FinishInline(p)  BY <1>0, <1>4 DEF FinishInline, AfterInline
<1>5. CASE ReportCheck(p)  BY <1>0, <1>5 DEF ReportCheck
<1>6. CASE EditBody(p)  BY <1>0, <1>6 DEF EditBody
<1> QED
  BY <1>0, <1>1, <1>2, <1>3, <1>4, <1>5, <1>6 DEF DispatchStep

-----------------------------------------------------------------------------
(* The board of findings.                                                  *)

StateIn(T, k) ==
  IF \E th \in T : th.sk = k THEN (CHOOSE th \in T : th.sk = k).state ELSE "absent"

OneEach(T) == \A a, b \in T : a.sk = b.sk => a = b

\* What the board shows of a set of threads, one per finding at most.
LEMMA StateInIs ==
  ASSUME NEW T, OneEach(T)
  PROVE  /\ \A th \in T : StateIn(T, th.sk) = th.state
         /\ \A k : (\A th \in T : th.sk # k) => StateIn(T, k) = "absent"
<1>1. ASSUME NEW th \in T PROVE StateIn(T, th.sk) = th.state
  <2> DEFINE x == CHOOSE y \in T : y.sk = th.sk
  <2>1. x \in T /\ x.sk = th.sk
    OBVIOUS
  <2>2. x = th
    BY <2>1 DEF OneEach
  <2>3. StateIn(T, th.sk) = x.state
    BY DEF StateIn
  <2> QED
    BY <2>2, <2>3
<1>2. ASSUME NEW k, \A th \in T : th.sk # k PROVE StateIn(T, k) = "absent"
  BY <1>2 DEF StateIn
<1> QED
  BY <1>1, <1>2

\* Threads that change in place, with their states, leave the board alone.
LEMMA SameStates ==
  ASSUME NEW T, NEW U, OneEach(T), OneEach(U),
         \A a \in T : \E b \in U : b.sk = a.sk /\ b.state = a.state,
         \A b \in U : \E a \in T : b.sk = a.sk,
         NEW k
  PROVE  StateIn(U, k) = StateIn(T, k)
<1>1. ASSUME NEW a \in T, a.sk = k PROVE StateIn(U, k) = StateIn(T, k)
  <2>1. PICK b \in U : b.sk = a.sk /\ b.state = a.state
    OBVIOUS
  <2>2. StateIn(U, b.sk) = b.state /\ StateIn(T, a.sk) = a.state
    BY StateInIs
  <2> QED
    BY <1>1, <2>1, <2>2
<1>2. CASE \A a \in T : a.sk # k
  <2>1. \A b \in U : b.sk # k
    BY <1>2
  <2> QED
    BY <1>2, <2>1, StateInIs
<1> QED
  BY <1>1, <1>2

\* From T to U thread x goes to state s, and the others keep theirs.
OneMoves(T, U, x, s) ==
  /\ x \in T /\ OneEach(T) /\ OneEach(U)
  /\ \A a \in T : \E b \in U : b.sk = a.sk /\ b.state = IF a = x THEN s ELSE a.state
  /\ \A b \in U : \E a \in T : b.sk = a.sk

LEMMA OneChanges ==
  ASSUME NEW T, NEW U, NEW x, NEW s, OneMoves(T, U, x, s), NEW k
  PROVE  StateIn(U, k) = IF k = x.sk THEN s ELSE StateIn(T, k)
<1> USE DEF OneMoves
<1>1. ASSUME NEW a \in T, a.sk = k
      PROVE  StateIn(U, k) = IF k = x.sk THEN s ELSE StateIn(T, k)
  <2>1. PICK b \in U : b.sk = a.sk /\ b.state = IF a = x THEN s ELSE a.state
    OBVIOUS
  <2>2. StateIn(U, b.sk) = b.state /\ StateIn(T, a.sk) = a.state
    BY StateInIs
  <2>3. k = x.sk <=> a = x
    BY <1>1 DEF OneEach
  <2>4. StateIn(U, k) = IF a = x THEN s ELSE a.state
    BY <1>1, <2>1, <2>2
  <2>5. StateIn(T, k) = a.state
    BY <1>1, <2>2
  <2> QED
    BY <2>3, <2>4, <2>5
<1>2. CASE \A a \in T : a.sk # k
  <2>1. \A b \in U : b.sk # k
    BY <1>2
  <2>2. k # x.sk
    BY <1>2
  <2> QED
    BY <1>2, <2>1, <2>2, StateInIs
<1> QED
  BY <1>1, <1>2

\* Threads are added, for findings that had none.
LEMMA SomeAreAdded ==
  ASSUME NEW T, NEW C, OneEach(T), OneEach(T \cup C),
         \A c \in C : c.state = "open" /\ \A a \in T : a.sk # c.sk,
         NEW k
  PROVE  /\ StateIn(T \cup C, k) = IF k \in {c.sk : c \in C} THEN "open" ELSE StateIn(T, k)
         /\ k \in {c.sk : c \in C} => StateIn(T, k) = "absent"
<1>1. ASSUME NEW c \in C, c.sk = k
      PROVE  StateIn(T \cup C, k) = "open" /\ StateIn(T, k) = "absent"
  <2>1. c \in T \cup C /\ \A a \in T : a.sk # k
    BY <1>1
  <2>2. StateIn(T \cup C, c.sk) = c.state
    BY <2>1, StateInIs
  <2>3. StateIn(T, k) = "absent"
    BY <2>1, StateInIs
  <2> QED
    BY <1>1, <2>2, <2>3
<1>2. ASSUME \A c \in C : c.sk # k PROVE StateIn(T \cup C, k) = StateIn(T, k)
  <2>1. ASSUME NEW a \in T, a.sk = k PROVE StateIn(T \cup C, k) = StateIn(T, k)
    <3>1. StateIn(T \cup C, a.sk) = a.state /\ StateIn(T, a.sk) = a.state
      BY StateInIs
    <3> QED
      BY <2>1, <3>1
  <2>2. CASE \A a \in T : a.sk # k
    <3>1. \A b \in T \cup C : b.sk # k
      BY <1>2, <2>2
    <3> QED
      BY <2>2, <3>1, StateInIs
  <2> QED
    BY <2>1, <2>2
<1> QED
  BY <1>1, <1>2

BoardNow == [k \in Keys |-> StateOf(k)]
FoundNow == [p \in Answered |-> Reports(p)]

LEMMA BoardIs ==
  /\ BoardNow = [k \in Keys |-> StateIn(threads, k)]
  /\ BoardNow' = [k \in Keys |-> StateIn(threads', k)]
<1>1. \A k : StateOf(k) = StateIn(threads, k)
  BY DEF StateOf, StateIn
<1>2. \A k : StateOf(k)' = StateIn(threads', k)
  BY DEF StateOf, StateIn
<1> QED
  BY <1>1, <1>2 DEF BoardNow

LEMMA FoundIs ==
  /\ FoundNow = [p \in Answered |-> Reports(p)]
  /\ FoundNow' = [p \in Answered' |-> Reports(p)']
  BY DEF FoundNow

\* What a step of a dispatcher does to what has been reported: nothing, unless
\* its tool answers or its job ends.
LEMMA StepFound ==
  ASSUME NEW p \in Procs, DispatcherTypeOK, DispatchStep(p)
  PROVE  /\ \/ FoundNow' = FoundNow
            \/ /\ pc[p] = "tool" /\ p \notin Answered
               /\ FoundNow' = [q \in Answered \cup {p} |->
                                 IF q = p THEN Reports(p)' ELSE FoundNow[q]]
            \/ /\ pc'[p] \notin Working /\ p \in Answered
               /\ FoundNow' = [q \in Answered \ {p} |-> FoundNow[q]]
         /\ (p \in Answered /\ pc'[p] \in Working) => FoundNow' = FoundNow
<1> DEFINE Early == {"fetch", "diff", "tool"}
<1>1. /\ pc[p] \in Working
      /\ \A q \in Procs \ {p} : pc'[q] = pc[q] /\ loc'[q] = loc[q]
  BY StepAndMutex, OthersStay
<1>2. \A q \in Procs \ {p} : Reports(q)' = Reports(q) /\ (q \in Answered' <=> q \in Answered)
  BY <1>1 DEF Reports, Answered
<1>3. /\ p \in Answered <=> pc[p] \notin Early
      /\ p \in Answered' <=> pc'[p] \in Working /\ pc'[p] \notin Early
  BY <1>1 DEF Answered
<1>4. /\ pc'[p] \in Early => pc[p] \in Early
      /\ (pc[p] \in Early /\ pc'[p] \in Working /\ pc'[p] \notin Early) => pc[p] = "tool"
  BY CameFrom DEF Working
<1>5. ASSUME p \in Answered, p \in Answered' PROVE FoundNow' = FoundNow
  <2>1. loc'[p].res.inline = loc[p].res.inline
    BY <1>3, <1>5, LocalsKept
  <2>2. Reports(p)' = Reports(p)
    BY <2>1 DEF Reports
  <2>3. Answered' = Answered
    BY <1>2, <1>5 DEF Answered
  <2> QED
    BY <1>2, <2>2, <2>3, FoundIs DEF Answered
<1>6. ASSUME p \notin Answered, p \notin Answered' PROVE FoundNow' = FoundNow
  <2>1. Answered' = Answered /\ \A q \in Answered : q \in Procs \ {p}
    BY <1>2, <1>6 DEF Answered
  <2> QED
    BY <1>2, <2>1, FoundIs
<1>7. ASSUME p \notin Answered, p \in Answered'
      PROVE  FoundNow' = [q \in Answered \cup {p} |->
                            IF q = p THEN Reports(p)' ELSE FoundNow[q]]
  <2>1. Answered' = Answered \cup {p} /\ \A q \in Answered : q \in Procs \ {p}
    BY <1>2, <1>7 DEF Answered
  <2>2. \A q \in Answered : FoundNow[q] = Reports(q)'
    BY <1>2, <2>1, FoundIs
  <2> QED
    BY <2>1, <2>2, FoundIs
<1>8. ASSUME p \in Answered, p \notin Answered'
      PROVE  FoundNow' = [q \in Answered \ {p} |-> FoundNow[q]]
  <2>1. Answered' = Answered \ {p} /\ \A q \in Answered : q \in Procs
    BY <1>2, <1>8 DEF Answered
  <2>2. \A q \in Answered \ {p} : FoundNow[q] = Reports(q)'
    BY <1>2, <2>1, FoundIs
  <2> QED
    BY <2>1, <2>2, FoundIs
<1> QED
  BY <1>3, <1>4, <1>5, <1>6, <1>7, <1>8

\* The steps of FindingsBoard, on what a dispatcher's state shows.
LEMMA ReportShown ==
  ASSUME NEW p \in Procs, p \notin Answered, Reports(p)' \subseteq Board!Own(p),
         BoardNow' = BoardNow,
         FoundNow' = [q \in Answered \cup {p} |-> IF q = p THEN Reports(p)' ELSE FoundNow[q]]
  PROVE  Board!BoardNext
<1>1. DOMAIN FoundNow = Answered /\ DOMAIN FoundNow' = Answered \cup {p}
  BY FoundIs
<1>2. /\ p \in DOMAIN FoundNow' \ DOMAIN FoundNow
      /\ FoundNow' = [q \in DOMAIN FoundNow \cup {p} |->
                        IF q = p THEN Reports(p)' ELSE FoundNow[q]]
  BY <1>1
<1>3. Board!Report(p)
  BY <1>2 DEF Board!Report, BoardNow, FoundNow
<1> QED
  BY <1>3 DEF Board!BoardNext

LEMMA PostShown ==
  ASSUME NEW p \in Procs, p \in Answered, FoundNow' = FoundNow, NEW new,
         \A k \in new : k \in Reports(p) /\ k \in Keys /\ BoardNow[k] = "absent",
         BoardNow' = [k \in Keys |-> IF k \in new THEN "open" ELSE BoardNow[k]]
  PROVE  Board!BoardNext
<1>1. DOMAIN FoundNow = Answered /\ FoundNow[p] = Reports(p)
  BY FoundIs
<1>2. new \in SUBSET {k \in FoundNow[p] : BoardNow[k] = "absent"}
  BY <1>1
<1>3. Board!Post(p)
  BY <1>1, <1>2 DEF Board!Post, BoardNow, FoundNow
<1> QED
  BY <1>3 DEF Board!BoardNext

LEMMA CloseShown ==
  ASSUME NEW p \in Procs, p \in Answered, FoundNow' = FoundNow,
         NEW k \in Board!Own(p), k \notin Reports(p), BoardNow[k] = "open",
         BoardNow' = [BoardNow EXCEPT ![k] = "cadoo"]
  PROVE  Board!BoardNext
<1>1. DOMAIN FoundNow = Answered /\ FoundNow[p] = Reports(p)
  BY FoundIs
<1>2. k \in Board!Own(p) \ FoundNow[p]
  BY <1>1
<1>3. Board!CloseStale(p)
  BY <1>1, <1>2 DEF Board!CloseStale, BoardNow, FoundNow
<1> QED
  BY <1>3 DEF Board!BoardNext

LEMMA ReviewerShown ==
  ASSUME FoundNow' = FoundNow, NEW k \in Keys, BoardNow[k] = "open",
         BoardNow' = [BoardNow EXCEPT ![k] = "user"]
  PROVE  Board!BoardNext
<1>1. Board!CloseByReviewer
  BY DEF Board!CloseByReviewer, BoardNow, FoundNow
<1> QED
  BY <1>1 DEF Board!BoardNext

LEMMA EndShown ==
  ASSUME BoardNow' = BoardNow, NEW P \in SUBSET Answered,
         FoundNow' = [q \in Answered \ P |-> FoundNow[q]]
  PROVE  Board!BoardNext
<1>1. DOMAIN FoundNow = Answered
  BY FoundIs
<1>2. P \in SUBSET DOMAIN FoundNow /\ FoundNow' = [q \in DOMAIN FoundNow \ P |-> FoundNow[q]]
  BY <1>1
<1>3. Board!End
  BY <1>2 DEF Board!End, BoardNow, FoundNow
<1> QED
  BY <1>3 DEF Board!BoardNext

LEMMA NothingShown ==
  ASSUME BoardNow' = BoardNow, FoundNow' = FoundNow
  PROVE  UNCHANGED Board!boardVars
  BY DEF Board!boardVars, BoardNow, FoundNow

\* A push leaves the board alone.
LEMMA PushShown ==
  ASSUME NEW maxHead, PRTypeOK, NoTwinThreads, NoTwinThreads', Push(maxHead)
  PROVE  BoardNow' = BoardNow
<1>1. PICK tree \in Tree, outdates \in {FALSE, TRUE} :
        threads' = {IF outdates /\ tree[th.file] # history[HeadSHA][th.file]
                    THEN [th EXCEPT !.line = 0] ELSE th : th \in threads}
  BY DEF Push
<1> DEFINE F(th) == IF outdates /\ tree[th.file] # history[HeadSHA][th.file]
                    THEN [th EXCEPT !.line = 0] ELSE th
<1>2. \A a \in threads : F(a) \in threads' /\ F(a).sk = a.sk /\ F(a).state = a.state
  BY <1>1 DEF PRTypeOK, Thread
<1>3. \A b \in threads' : \E a \in threads : b = F(a)
  BY <1>1
<1> HIDE DEF F
<1>4. /\ \A a \in threads : \E b \in threads' : b.sk = a.sk /\ b.state = a.state
      /\ \A b \in threads' : \E a \in threads : b.sk = a.sk
  BY <1>2, <1>3
<1>5. OneEach(threads) /\ OneEach(threads')
  BY DEF NoTwinThreads, OneEach
<1>6. \A k : StateIn(threads', k) = StateIn(threads, k)
  BY <1>4, <1>5, SameStates
<1> QED
  BY <1>6, BoardIs

\* A post puts the findings posted on the board.
LEMMA PostKeepsBoard ==
  ASSUME NEW p \in Procs, DispatcherTypeOK, NoTwinThreads, NoTwinThreads', PostInline(p),
         FoundNow' = FoundNow, p \in Answered,
         \A c \in loc[p].delta :
           c \in loc[p].res.inline /\ \A th \in threads : th.sk # StructuralKey(ToolOf[p], c)
  PROVE  Board!BoardNext
<1>1. PICK answer \in PostInlineComments(ToolOf[p], loc[p].delta) :
        threads' = threads \cup answer.created
  BY DEF PostInline
<1> DEFINE C == answer.created
           new == {c.sk : c \in C}
<1>2. ASSUME NEW th \in C
      PROVE  /\ th.state = "open" /\ th.sk \in Reports(p) /\ th.sk \in Keys
             /\ \A a \in threads : a.sk # th.sk
  <2>1. PICK c \in loc[p].delta, a \in BOOLEAN : th = NewThread(ToolOf[p], c, a)
    BY PostAnswer
  <2>2. th.state = "open" /\ th.sk = StructuralKey(ToolOf[p], c)
    BY <2>1 DEF NewThread
  <2>3. c \in Comment /\ ToolOf[p] \in Tools
    BY StateTypes DEF Local
  <2>4. StructuralKey(ToolOf[p], c) \in Keys
    BY <2>3, StructuralKeyType
  <2> QED
    BY <2>2, <2>4 DEF Reports
<1>3. OneEach(threads) /\ OneEach(threads \cup C)
  BY <1>1 DEF NoTwinThreads, OneEach
<1> HIDE DEF C
<1>4. \A k : /\ StateIn(threads \cup C, k) = IF k \in new THEN "open" ELSE StateIn(threads, k)
             /\ k \in new => StateIn(threads, k) = "absent"
  BY <1>2, <1>3, SomeAreAdded
<1>5. \A k \in new : k \in Reports(p) /\ k \in Keys
  BY <1>2
<1> HIDE DEF new
<1>6. threads' = threads \cup C
  BY <1>1 DEF C
<1>7. \A k \in new : BoardNow[k] = "absent"
  BY <1>4, <1>5, BoardIs
<1>8. BoardNow' = [k \in Keys |-> IF k \in new THEN "open" ELSE BoardNow[k]]
  BY <1>4, <1>6, BoardIs
<1> QED
  BY <1>5, <1>7, <1>8, PostShown

\* Auto-resolution closes, one at a time, findings that are not reported.
LEMMA ResolveKeepsBoard ==
  ASSUME NEW p \in Procs, DispatcherTypeOK, ThreadsProper, NoTwinThreads, NoTwinThreads',
         ResolveStale(p), FoundNow' = FoundNow, p \in Answered,
         \A f \in StalePriors(p) : \A th \in threads :
           th.id = f.eid => th.tool = ToolOf[p] /\ th.sk \notin Reports(p)
  PROVE  [Board!BoardNext]_(Board!boardVars)
<1>1. PICK f \in StalePriors(p) : threads' = ResolveThread(f.eid) \/ UNCHANGED threads
  BY DEF ResolveStale
<1>2. CASE UNCHANGED threads
  <2>1. BoardNow' = BoardNow
    BY <1>2, BoardIs
  <2> QED
    BY <2>1, NothingShown
<1> DEFINE Hit(th) == th.id = f.eid /\ th.anchored /\ th.state = "open"
<1>3. ASSUME threads' = ResolveThread(f.eid), NEW x \in threads, Hit(x)
      PROVE  [Board!BoardNext]_(Board!boardVars)
  <2>1. threads \subseteq Thread
    BY DEF DispatcherTypeOK, PRTypeOK
  <2>2. \A a \in threads : Hit(a) <=> a = x
    BY <1>3 DEF ThreadsProper
  <2>3. threads' = {IF a = x THEN [a EXCEPT !.state = "cadoo"] ELSE a : a \in threads}
    BY <1>3, <2>2 DEF ResolveThread
  <2> DEFINE F(a) == IF a = x THEN [a EXCEPT !.state = "cadoo"] ELSE a
  <2>4. \A a \in threads :
          /\ F(a) \in threads' /\ F(a).sk = a.sk
          /\ F(a).state = IF a = x THEN "cadoo" ELSE a.state
    BY <2>1, <2>3 DEF Thread
  <2>5. \A b \in threads' : \E a \in threads : b = F(a)
    BY <2>3
  <2> HIDE DEF F
  <2>6. /\ \A a \in threads : \E b \in threads' :
             b.sk = a.sk /\ b.state = IF a = x THEN "cadoo" ELSE a.state
        /\ \A b \in threads' : \E a \in threads : b.sk = a.sk
    BY <2>4, <2>5
  <2>7. OneEach(threads) /\ OneEach(threads')
    BY DEF NoTwinThreads, OneEach
  <2>8. \A k : StateIn(threads', k) = IF k = x.sk THEN "cadoo" ELSE StateIn(threads, k)
    <3>1. OneMoves(threads, threads', x, "cadoo")
      BY <2>6, <2>7 DEF OneMoves
    <3> QED
      BY <3>1, OneChanges
  <2>9. BoardNow' = [BoardNow EXCEPT ![x.sk] = "cadoo"]
    BY <2>8, BoardIs
  <2>10. x.sk \in Keys /\ StateIn(threads, x.sk) = "open"
    BY <1>3, <2>1, <2>7, StateInIs DEF Thread
  <2>11. x.tool = ToolOf[p] /\ x.sk \notin Reports(p)
    BY <1>3
  <2>12. x.sk.tool = ToolOf[p]
    <3>1. x.sk = [tool |-> x.tool, file |-> x.file, sev |-> x.sev, nt |-> x.nt]
      BY DEF ThreadsProper
    <3> QED
      BY <2>11, <3>1
  <2>13. x.sk \in Board!Own(p) /\ BoardNow[x.sk] = "open"
    BY <2>10, <2>12, BoardIs DEF Board!Own
  <2> QED
    BY <2>9, <2>11, <2>13, CloseShown
<1>4. ASSUME threads' = ResolveThread(f.eid), \A th \in threads : ~Hit(th)
      PROVE  UNCHANGED threads
  BY <1>4 DEF ResolveThread
<1> QED
  BY <1>1, <1>2, <1>3, <1>4

\* Every step of a dispatcher is one of FindingsBoard, or invisible to it,
\* provided that what it posts is new and that its ids name stale findings.
THEOREM StepKeepsBoard ==
  ASSUME NEW p \in Procs, DispatcherTypeOK, DispatcherTypeOK', ThreadsProper,
         NoTwinThreads, NoTwinThreads', DispatchStep(p),
         pc[p] = "post" => \A c \in loc[p].delta :
           c \in loc[p].res.inline /\ \A th \in threads : th.sk # StructuralKey(ToolOf[p], c),
         pc[p] = "resolve" => \A f \in StalePriors(p) : \A th \in threads :
           th.id = f.eid => th.tool = ToolOf[p] /\ th.sk \notin Reports(p)
  PROVE  [Board!BoardNext]_(Board!boardVars)
<1>1. CASE UNCHANGED threads
  <2>1. BoardNow' = BoardNow
    BY <1>1, BoardIs
  <2>2. CASE FoundNow' = FoundNow
    BY <2>1, <2>2, NothingShown
  <2>3. CASE /\ p \notin Answered
             /\ FoundNow' = [q \in Answered \cup {p} |->
                               IF q = p THEN Reports(p)' ELSE FoundNow[q]]
    <3>1. \A c \in loc'[p].res.inline : c \in Comment
      BY DEF DispatcherTypeOK, Local, Result
    <3>2. \A c \in loc'[p].res.inline : StructuralKey(ToolOf[p], c) \in Keys
      BY <3>1, StateTypes, StructuralKeyType
    <3>3. \A c : StructuralKey(ToolOf[p], c).tool = ToolOf[p]
      BY DEF StructuralKey
    <3>4. Reports(p)' \subseteq Board!Own(p)
      BY <3>2, <3>3 DEF Reports, Board!Own
    <3> QED
      BY <2>1, <2>3, <3>4, ReportShown
  <2>4. CASE p \in Answered /\ FoundNow' = [q \in Answered \ {p} |-> FoundNow[q]]
    BY <2>1, <2>4, EndShown
  <2> QED
    BY <2>2, <2>3, <2>4, StepFound
<1>2. CASE PostInline(p)
  <2>1. pc[p] = "post" /\ pc'[p] \in {"record", "resolve"}
    BY <1>2 DEF PostInline, Goto, DispatcherTypeOK
  <2>2. p \in Answered /\ pc'[p] \in Working
    BY <2>1 DEF Answered, Working
  <2>3. FoundNow' = FoundNow
    BY <2>2, StepFound
  <2> QED
    BY <1>2, <2>1, <2>2, <2>3, PostKeepsBoard
<1>3. CASE ResolveStale(p)
  <2>1. pc[p] = "resolve" /\ pc' = pc
    BY <1>3 DEF ResolveStale
  <2>2. p \in Answered /\ pc'[p] \in Working
    BY <2>1 DEF Answered, Working
  <2>3. FoundNow' = FoundNow
    BY <2>2, StepFound
  <2> QED
    BY <1>3, <2>1, <2>2, <2>3, ResolveKeepsBoard
<1> QED
  BY <1>1, <1>2, <1>3, WhichStep, WhoWrites DEF FinishInline, prVars

=============================================================================
