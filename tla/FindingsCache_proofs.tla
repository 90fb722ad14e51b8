------------------------ MODULE FindingsCache_proofs ------------------------
(* Theorems about FindingsCache, with proofs for TLAPS.                    *)
EXTENDS FindingsCache, TLAPS

-----------------------------------------------------------------------------
(* Encoding and decoding.                                                  *)

\* A key is read back as the key it was written for (encodePRKey,
\* decodePRKey), whatever the number of PRs and services.
LEMMA PRKeyRoundTrip ==
  ASSUME NEW k \in PRKeys
  PROVE  decodePRKey(encodePRKey(k)) = k
  BY CacheAssumption DEF decodePRKey, encodePRKey

LEMMA SummaryKeyRoundTrip ==
  ASSUME NEW s \in SummaryKeys
  PROVE  decodeSummaryKey(encodeSummaryKey(s)) = s
<1>1. PICK k \in PRKeys, t \in Tools : s = <<k, t>>
  BY DEF SummaryKeys
<1>2. encodeSummaryKey(s) = <<k.provider, k.repo, k.number, t>>
  BY <1>1 DEF encodeSummaryKey
<1>3. decodeSummaryKey(encodeSummaryKey(s)) = <<k, t>>
  BY <1>2, CacheAssumption DEF decodeSummaryKey, decodePRKey
<1>4. QED
  BY <1>1, <1>3

\* What persist writes, load reads back unchanged.
LEMMA LoadMarshal ==
  ASSUME NEW m \in Contents
  PROVE  Load(Marshal(m)) = m
<1> DEFINE F == {<<encodePRKey(k), m.findings[k]>> : k \in PRKeys}
           U == {<<encodeSummaryKey(s), m.summaries[s]>> : s \in SummaryKeys}
           S == {<<encodePRKey(k), m.sections[k]>> : k \in PRKeys}
<1>1. ASSUME NEW k \in PRKeys PROVE Lookup(F, k, decodePRKey, {}) = m.findings[k]
  <2>1. <<encodePRKey(k), m.findings[k]>> \in F
    OBVIOUS
  <2>2. ASSUME NEW e \in F, decodePRKey(e[1]) = k PROVE e[2] = m.findings[k]
    BY <2>2, PRKeyRoundTrip
  <2>3. QED
    BY <2>1, <2>2, PRKeyRoundTrip DEF Lookup
<1>2. ASSUME NEW k \in PRKeys
      PROVE Lookup(S, k, decodePRKey, [t \in Tools |-> NoText]) = m.sections[k]
  <2>1. <<encodePRKey(k), m.sections[k]>> \in S
    OBVIOUS
  <2>2. ASSUME NEW e \in S, decodePRKey(e[1]) = k PROVE e[2] = m.sections[k]
    BY <2>2, PRKeyRoundTrip
  <2>3. QED
    BY <2>1, <2>2, PRKeyRoundTrip DEF Lookup
<1>3. ASSUME NEW s \in SummaryKeys
      PROVE Lookup(U, s, decodeSummaryKey, NoText) = m.summaries[s]
  <2>1. <<encodeSummaryKey(s), m.summaries[s]>> \in U
    OBVIOUS
  <2>2. ASSUME NEW e \in U, decodeSummaryKey(e[1]) = s PROVE e[2] = m.summaries[s]
    BY <2>2, SummaryKeyRoundTrip
  <2>3. QED
    BY <2>1, <2>2, SummaryKeyRoundTrip DEF Lookup
<1> DEFINE L == Load(Marshal(m))
<1>4. L = [findings  |-> [k \in PRKeys |-> Lookup(F, k, decodePRKey, {})],
           summaries |-> [s \in SummaryKeys |-> Lookup(U, s, decodeSummaryKey, NoText)],
           sections  |-> [k \in PRKeys |->
                            Lookup(S, k, decodePRKey, [t \in Tools |-> NoText])]]
  BY DEF Load, Marshal
<1> HIDE DEF F, U, S, L
<1>5. /\ L.findings = [k \in PRKeys |-> m.findings[k]]
      /\ L.summaries = [s \in SummaryKeys |-> m.summaries[s]]
      /\ L.sections = [k \in PRKeys |-> m.sections[k]]
  BY <1>1, <1>2, <1>3, <1>4
<1>6. /\ m = [findings |-> m.findings, summaries |-> m.summaries, sections |-> m.sections]
      /\ m.findings = [k \in PRKeys |-> m.findings[k]]
      /\ m.summaries = [s \in SummaryKeys |-> m.summaries[s]]
      /\ m.sections = [k \in PRKeys |-> m.sections[k]]
  BY DEF Contents
<1>7. L = [findings |-> L.findings, summaries |-> L.summaries, sections |-> L.sections]
  BY <1>4
<1>8. QED
  BY <1>5, <1>6, <1>7 DEF L

LEMMA MarshalIsWhole ==
  ASSUME NEW m \in Contents
  PROVE  WholeFile(Marshal(m))
  BY LoadMarshal DEF WholeFile

LEMMA EmptyIsContent == Empty \in Contents
<1>1. [t \in Tools |-> NoText] \in [Tools -> SectionTexts \cup {NoText}]
  OBVIOUS
<1>2. QED
  BY <1>1 DEF Empty, Contents

LEMMA LoadIsContent ==
  ASSUME NEW f, f \in {Missing, Torn} \/ WholeFile(f)
  PROVE  Load(f) \in Contents
<1>1. CASE f \in {Missing, Torn}
  BY <1>1, EmptyIsContent DEF Load, Missing, Torn
<1>2. CASE WholeFile(f)
  BY <1>2 DEF WholeFile
<1>3. QED
  BY <1>1, <1>2

-----------------------------------------------------------------------------
(* The inductive invariant.                                                *)

\* What persist has ready to rename is the content of the maps: the lock
\* keeps them still between json.Marshal and os.Rename.
RenamesCurrent == pc = "rename" => tmp = Marshal(mem)

HolderIsUp == mu # Free => up

CacheInv == TypeOK /\ RenamesCurrent /\ HolderIsUp /\ AckedIsSaved

LEMMA FilesLoad ==
  ASSUME TypeOK
  PROVE  Load(file) \in Contents
  BY LoadIsContent DEF TypeOK

LEMMA InitInv ==
  ASSUME Init
  PROVE  CacheInv
<1>1. Load(Missing) = Empty
  BY DEF Load, Missing
<1>2. TypeOK
  <2>1. mem \in Contents /\ file = Missing /\ tmp = Missing
    BY EmptyIsContent DEF Init
  <2>2. mu = Free /\ pc = "idle" /\ up \in BOOLEAN /\ failed \in BOOLEAN
    BY DEF Init
  <2>3. crashes \in 0..MaxCrashes
    BY CacheAssumption DEF Init
  <2>4. QED
    BY <2>1, <2>2, <2>3 DEF TypeOK
<1>3. RenamesCurrent /\ HolderIsUp
  BY DEF Init, RenamesCurrent, HolderIsUp
<1>4. AckedIsSaved
  BY <1>1 DEF Init, AckedIsSaved
<1>5. QED
  BY <1>2, <1>3, <1>4 DEF CacheInv

\* A record is what the store keeps of a comment.
LEMMA NewRecType ==
  ASSUME NEW tool \in Tools, NEW eid \in Ids \cup {NoId}, NEW c \in Comments
  PROVE  NewRec(tool, eid, c) \in Recs
<1>1. c \in Comment
  BY CacheAssumption
<1>2. normalizeTitle[c.body] \in Titles /\ firstLine[c.body] \in Bodies
  BY <1>1, TextAssumption DEF Comment
<1>3. StructuralKey(tool, c) \in Keys
  BY <1>1, <1>2 DEF StructuralKey, Keys, Comment
<1>4. Fingerprint(tool, c) \in Fps
  BY DEF Fps
<1>5. c.file \in Files /\ c.sev \in Severities
  BY <1>1 DEF Comment
<1> HIDE DEF Fingerprint
<1>6. QED
  BY <1>2, <1>3, <1>4, <1>5 DEF NewRec, Recs

\* memoryStore.record keeps every fingerprint it had.
LEMMA MemRecordKeeps ==
  ASSUME NEW recs \in SUBSET Recs, NEW tool \in Tools,
         NEW eid \in Ids \cup {NoId}, NEW c \in Comments
  PROVE  /\ MemRecord(recs, tool, eid, c) \in SUBSET Recs
         /\ \A r \in recs : \E s \in MemRecord(recs, tool, eid, c) : s.fp = r.fp
<1> DEFINE fp == Fingerprint(tool, c)
           Fill(r) == IF r \in {x \in recs : x.fp = fp} /\ r.eid = NoId
                      THEN [r EXCEPT !.eid = eid] ELSE r
<1>1. CASE {r \in recs : r.fp = fp} = {}
  <2>1. MemRecord(recs, tool, eid, c) = recs \cup {NewRec(tool, eid, c)}
    BY <1>1 DEF MemRecord
  <2>2. QED
    BY <2>1, NewRecType
<1>2. CASE {r \in recs : r.fp = fp} # {}
  <2>1. MemRecord(recs, tool, eid, c) = {Fill(r) : r \in recs}
    BY <1>2 DEF MemRecord
  <2>2. ASSUME NEW r \in recs PROVE Fill(r) \in Recs /\ Fill(r).fp = r.fp
    BY DEF Recs
  <2> HIDE DEF Fill
  <2>3. \A r \in recs : Fill(r) \in MemRecord(recs, tool, eid, c)
    BY <2>1
  <2>4. QED
    BY <2>1, <2>2, <2>3
<1>3. QED
  BY <1>1, <1>2

\* Each of the three mutators makes a legal change.
LEMMA RecordIsLegal ==
  ASSUME mem \in Contents, NEW k \in PRKeys, NEW tool \in Tools,
         NEW eid \in Ids \cup {NoId}, NEW c \in Comments
  PROVE  LET m == [mem EXCEPT !.findings[k] = MemRecord(mem.findings[k], tool, eid, c)]
         IN  m \in Contents /\ LegalChange(mem, m)
<1> DEFINE recs == MemRecord(mem.findings[k], tool, eid, c)
           m == [mem EXCEPT !.findings[k] = recs]
<1>1. mem.findings \in [PRKeys -> SUBSET Recs]
  BY DEF Contents
<1>2. /\ recs \in SUBSET Recs
      /\ \A r \in mem.findings[k] : \E s \in recs : s.fp = r.fp
  BY <1>1, MemRecordKeeps
<1> HIDE DEF recs
<1>3. /\ m.findings = [mem.findings EXCEPT ![k] = recs]
      /\ m.sections = mem.sections /\ m.summaries = mem.summaries
      /\ m \in Contents
  BY <1>1, <1>2 DEF Contents
<1>4. /\ m.findings[k] = recs
      /\ \A j \in PRKeys \ {k} : m.findings[j] = mem.findings[j]
  BY <1>1, <1>3
<1> HIDE DEF m
<1>5. LegalChange(mem, m)
  BY <1>2, <1>3, <1>4 DEF LegalChange
<1>6. QED
  BY <1>3, <1>5 DEF m, recs

LEMMA PutSummaryIsLegal ==
  ASSUME mem \in Contents, NEW k \in PRKeys, NEW tool \in Tools, NEW id \in Ids
  PROVE  LET m == [mem EXCEPT !.summaries[<<k, tool>>] = id]
         IN  m \in Contents /\ LegalChange(mem, m)
<1> DEFINE m == [mem EXCEPT !.summaries[<<k, tool>>] = id]
<1>1. mem.summaries \in [SummaryKeys -> Ids \cup {NoText}] /\ <<k, tool>> \in SummaryKeys
  BY DEF Contents, SummaryKeys
<1>2. /\ m.summaries = [mem.summaries EXCEPT ![<<k, tool>>] = id]
      /\ m.findings = mem.findings /\ m.sections = mem.sections
      /\ m \in Contents
  BY <1>1 DEF Contents
<1>3. ASSUME NEW j \in PRKeys \ {k}, NEW t \in Tools
      PROVE  mem.summaries[<<j, t>>] = m.summaries[<<j, t>>]
  <2>1. <<j, t>> \in SummaryKeys /\ <<j, t>> # <<k, tool>>
    BY DEF SummaryKeys
  <2>2. QED
    BY <1>1, <1>2, <2>1
<1> HIDE DEF m
<1>4. LegalChange(mem, m)
  BY <1>2, <1>3 DEF LegalChange
<1>5. QED
  BY <1>2, <1>4 DEF m

LEMMA PutSectionIsLegal ==
  ASSUME mem \in Contents, NEW k \in PRKeys, NEW tool \in Tools, NEW body \in SectionTexts
  PROVE  LET m == [mem EXCEPT !.sections[k][tool] = body]
         IN  m \in Contents /\ LegalChange(mem, m)
<1> DEFINE secs == [mem.sections[k] EXCEPT ![tool] = body]
           m == [mem EXCEPT !.sections[k][tool] = body]
<1>1. mem.sections \in [PRKeys -> [Tools -> SectionTexts \cup {NoText}]]
  BY DEF Contents
<1>2. secs \in [Tools -> SectionTexts \cup {NoText}]
  BY <1>1
<1>3. m.sections = [mem.sections EXCEPT ![k] = secs]
  BY <1>1 DEF Contents
<1>4. m.findings = mem.findings /\ m.summaries = mem.summaries
  BY DEF Contents
<1>5. m \in Contents
  <2>1. m.sections \in [PRKeys -> [Tools -> SectionTexts \cup {NoText}]]
    BY <1>1, <1>2, <1>3
  <2>2. m = [mem EXCEPT !.sections = m.sections]
    BY <1>1, <1>3 DEF Contents
  <2>3. QED
    BY <1>4, <2>1, <2>2 DEF Contents
<1>6. \A j \in PRKeys \ {k} : m.sections[j] = mem.sections[j]
  BY <1>1, <1>3
<1> HIDE DEF m
<1>7. LegalChange(mem, m)
  BY <1>4, <1>6 DEF LegalChange
<1>8. QED
  BY <1>5, <1>7 DEF m

\* An operation of some goroutine, as the step of the maps it makes.
Operates == \E t \in Threads, m \in Contents : LegalChange(mem, m) /\ Mutate(t, m)

LEMMA OperationsAreLegal ==
  ASSUME TypeOK, NEW t \in Threads, NEW k \in PRKeys, NEW tool \in Tools,
         \/ \E eid \in Ids \cup {NoId}, c \in Comments : Record(t, k, tool, eid, c)
         \/ \E id \in Ids : PutSummaryID(t, k, tool, id)
         \/ \E body \in SectionTexts : PutSection(t, k, tool, body)
  PROVE  Operates
<1>1. mem \in Contents
  BY DEF TypeOK
<1>2. ASSUME NEW eid \in Ids \cup {NoId}, NEW c \in Comments, Record(t, k, tool, eid, c)
      PROVE  Operates
  BY <1>1, <1>2, RecordIsLegal DEF Record, Operates
<1>3. ASSUME NEW id \in Ids, PutSummaryID(t, k, tool, id) PROVE Operates
  BY <1>1, <1>3, PutSummaryIsLegal DEF PutSummaryID, Operates
<1>4. ASSUME NEW body \in SectionTexts, PutSection(t, k, tool, body) PROVE Operates
  BY <1>1, <1>4, PutSectionIsLegal DEF PutSection, Operates
<1>5. QED
  BY <1>2, <1>3, <1>4

LEMMA MutateKeepsInv ==
  ASSUME CacheInv, Operates
  PROVE  CacheInv'
<1>1. PICK t \in Threads, m \in Contents : Mutate(t, m)
  BY DEF Operates
<1>2. TypeOK'
  BY <1>1, CacheAssumption DEF CacheInv, TypeOK, Mutate, WholeFile
<1>3. RenamesCurrent' /\ HolderIsUp' /\ AckedIsSaved'
  BY <1>1, CacheAssumption
     DEF CacheInv, RenamesCurrent, HolderIsUp, AckedIsSaved, Mutate
<1>4. QED
  BY <1>2, <1>3 DEF CacheInv

LEMMA MkdirKeepsInv ==
  ASSUME CacheInv, MkdirAll
  PROVE  CacheInv'
<1>1. TypeOK'
  BY DEF CacheInv, TypeOK, MkdirAll, Return, WholeFile
<1>2. RenamesCurrent' /\ HolderIsUp' /\ AckedIsSaved'
  BY DEF CacheInv, TypeOK, RenamesCurrent, HolderIsUp, AckedIsSaved, MkdirAll, Return
<1>3. QED
  BY <1>1, <1>2 DEF CacheInv

LEMMA OpenKeepsInv ==
  ASSUME CacheInv, OpenTmp
  PROVE  CacheInv'
<1>1. TypeOK'
  BY DEF CacheInv, TypeOK, OpenTmp, Return, WholeFile
<1>2. RenamesCurrent' /\ HolderIsUp' /\ AckedIsSaved'
  BY DEF CacheInv, TypeOK, RenamesCurrent, HolderIsUp, AckedIsSaved, OpenTmp, Return
<1>3. QED
  BY <1>1, <1>2 DEF CacheInv

LEMMA WriteKeepsInv ==
  ASSUME CacheInv, WriteTmp
  PROVE  CacheInv'
<1>1. tmp' = Marshal(mem) \/ tmp' = tmp
  BY DEF WriteTmp
<1>2. tmp' \in {Missing, Torn} \/ WholeFile(tmp')
  BY <1>1, MarshalIsWhole DEF CacheInv, TypeOK
<1>3. TypeOK'
  BY <1>2 DEF CacheInv, TypeOK, WriteTmp, Return, WholeFile
<1>4. RenamesCurrent' /\ HolderIsUp' /\ AckedIsSaved'
  BY DEF CacheInv, TypeOK, RenamesCurrent, HolderIsUp, AckedIsSaved, WriteTmp, Return
<1>5. QED
  BY <1>3, <1>4 DEF CacheInv

\* After the rename the file holds what the maps hold.
LEMMA RenameKeepsInv ==
  ASSUME CacheInv, Rename
  PROVE  CacheInv'
<1>1. tmp = Marshal(mem) /\ mem \in Contents
  BY DEF CacheInv, TypeOK, RenamesCurrent, Rename
<1>2. WholeFile(tmp) /\ Load(tmp) = mem
  BY <1>1, MarshalIsWhole, LoadMarshal
<1>3. TypeOK'
  BY <1>2 DEF CacheInv, TypeOK, Rename, Return, WholeFile
<1>4. RenamesCurrent' /\ HolderIsUp' /\ AckedIsSaved'
  BY <1>2 DEF CacheInv, TypeOK, RenamesCurrent, HolderIsUp, AckedIsSaved, Rename, Return
<1>5. QED
  BY <1>3, <1>4 DEF CacheInv

LEMMA CrashKeepsInv ==
  ASSUME CacheInv, Crash
  PROVE  CacheInv'
<1>1. TypeOK'
  <2>1. mem' \in Contents /\ mu' = Free /\ pc' = "idle" /\ up' = FALSE /\ failed' = FALSE
    BY EmptyIsContent DEF Crash
  <2>2. file' = file /\ tmp' = tmp
    BY DEF Crash
  <2>3. file' = Missing \/ WholeFile(file')
    BY <2>2 DEF CacheInv, TypeOK
  <2>4. tmp' \in {Missing, Torn} \/ WholeFile(tmp')
    BY <2>2 DEF CacheInv, TypeOK
  <2>5. crashes' \in 0..MaxCrashes
    BY CacheAssumption DEF CacheInv, TypeOK, Crash
  <2>6. QED
    BY <2>1, <2>3, <2>4, <2>5 DEF TypeOK, WholeFile
<1>2. RenamesCurrent' /\ HolderIsUp' /\ AckedIsSaved'
  BY DEF RenamesCurrent, HolderIsUp, AckedIsSaved, Crash
<1>3. QED
  BY <1>1, <1>2 DEF CacheInv

LEMMA StartKeepsInv ==
  ASSUME CacheInv, Start
  PROVE  CacheInv'
<1>1. TypeOK'
  BY FilesLoad DEF CacheInv, TypeOK, Start, WholeFile
<1>2. RenamesCurrent' /\ HolderIsUp' /\ AckedIsSaved'
  BY DEF CacheInv, TypeOK, RenamesCurrent, HolderIsUp, AckedIsSaved, Start
<1>3. QED
  BY <1>1, <1>2 DEF CacheInv

\* The operations of the goroutines in Next, as one step.
LEMMA NextCases ==
  ASSUME TypeOK, Next
  PROVE  Operates \/ MkdirAll \/ OpenTmp \/ WriteTmp \/ Rename \/ Crash \/ Start
  BY OperationsAreLegal DEF Next

THEOREM CacheInvariant == Spec => []CacheInv
<1>1. Init => CacheInv
  BY InitInv
<1>2. CacheInv /\ [Next]_cacheVars => CacheInv'
  <2> SUFFICES ASSUME CacheInv, [Next]_cacheVars PROVE CacheInv'
    OBVIOUS
  <2>1. CASE Next
    <3>1. TypeOK
      BY DEF CacheInv
    <3>2. QED
      BY <2>1, <3>1, NextCases, MutateKeepsInv, MkdirKeepsInv, OpenKeepsInv,
         WriteKeepsInv, RenameKeepsInv, CrashKeepsInv, StartKeepsInv
  <2>2. CASE UNCHANGED cacheVars
    BY <2>2 DEF CacheInv, TypeOK, WholeFile, RenamesCurrent, HolderIsUp, AckedIsSaved, cacheVars
  <2>3. QED
    BY <2>1, <2>2
<1>3. QED
  BY <1>1, <1>2, PTL DEF Spec

\* The file of the store is never torn, and every content is well formed.
THEOREM TypeCorrect == Spec => []TypeOK
<1>1. CacheInv => TypeOK
  BY DEF CacheInv
<1>2. QED
  BY <1>1, CacheInvariant, PTL

\* What an operation has done is on disk when it returns, unless an error of
\* the file system was ignored.
THEOREM ReturnedIsSaved == Spec => []AckedIsSaved
<1>1. CacheInv => AckedIsSaved
  BY DEF CacheInv
<1>2. QED
  BY <1>1, CacheInvariant, PTL

-----------------------------------------------------------------------------
(* Refinement.                                                             *)

LEMMA OperationIsChange ==
  ASSUME CacheInv, Operates
  PROVE  Durable!Change
<1>1. PICK t \in Threads, m \in Contents : LegalChange(mem, m) /\ Mutate(t, m)
  BY DEF Operates
<1>2. mem \in Contents
  BY DEF CacheInv, TypeOK
<1>3. up /\ up' /\ mem' = m /\ file' = file
  BY <1>1 DEF Mutate
<1>4. <<mem, mem'>> \in LegalChanges
  BY <1>1, <1>2, <1>3 DEF LegalChanges
<1>5. Load(file') = Load(file)
  BY <1>3
<1>6. QED
  BY <1>1, <1>3, <1>4, <1>5 DEF Durable!Change

\* Every step of the store with its file is a step of the durable store.
LEMMA StepRefines ==
  ASSUME CacheInv, [Next]_cacheVars
  PROVE  [Durable!DurableNext]_(Durable!durableVars)
<1> USE DEF Durable!DurableNext, Durable!durableVars
<1>1. CASE Operates
  BY <1>1, OperationIsChange
<1>2. CASE MkdirAll \/ OpenTmp \/ WriteTmp
  <2>1. up' = up /\ mem' = mem /\ file' = file
    BY <1>2 DEF MkdirAll, OpenTmp, WriteTmp
  <2>2. QED
    BY <2>1
<1>3. CASE Rename
  <2>1. tmp = Marshal(mem) /\ mem \in Contents /\ up
    BY <1>3 DEF CacheInv, TypeOK, RenamesCurrent, HolderIsUp, Rename
  <2>2. Load(tmp) = mem
    BY <2>1, LoadMarshal
  <2>3. CASE file' = tmp
    BY <1>3, <2>1, <2>2, <2>3 DEF Rename, Durable!Save
  <2>4. CASE file' = file
    BY <1>3, <2>4 DEF Rename
  <2>5. QED
    BY <1>3, <2>3, <2>4 DEF Rename
<1>4. CASE Crash
  BY <1>4 DEF Crash, Durable!Restart
<1>5. CASE Start
  BY <1>5 DEF Start
<1>6. CASE UNCHANGED cacheVars
  BY <1>6 DEF cacheVars
<1>7. TypeOK
  BY DEF CacheInv
<1>8. QED
  BY <1>1, <1>2, <1>3, <1>4, <1>5, <1>6, <1>7, NextCases

\* The memory store with its file implements the durable store: whatever step
\* of persist a crash or an error falls on, a restart gives back exactly the
\* last content that was saved, and only operations change what readers see.
THEOREM Implements == Spec => SurvivesRestarts
<1>1. Init => Durable!DurableInit
  <2>1. Load(Missing) = Empty
    BY DEF Load, Missing
  <2>2. QED
    BY <2>1 DEF Init, Durable!DurableInit
<1>2. CacheInv /\ [Next]_cacheVars => [Durable!DurableNext]_(Durable!durableVars)
  BY StepRefines
<1>3. QED
  BY <1>1, <1>2, CacheInvariant, PTL DEF Spec, SurvivesRestarts, Durable!DurableSpec

=============================================================================
