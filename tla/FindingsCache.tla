--------------------------- MODULE FindingsCache ----------------------------
(***************************************************************************)
(* The in-memory findings store and the JSON file it is kept in            *)
(* (memoryStore in internal/findings/findings.go): every change of the     *)
(* maps writes all of them to <path>.tmp and renames that over <path>,     *)
(* under the store's lock; errors are ignored; a process that starts reads *)
(* <path>, and starts empty from a file that is missing or does not parse. *)
(*                                                                         *)
(* A file is Missing, Torn (the beginning of a write that did not end) or  *)
(* whole.  The process may die between any two steps.  A machine that      *)
(* loses power is not modelled: the code does not sync the file.           *)
(***************************************************************************)
EXTENDS Findings

CONSTANTS PRKeys,      \* keys of PRs; the names in them have no "|"
          Threads,     \* goroutines that use the store
          Comments,    \* bound: comments that are recorded
          Ids,         \* bound: external ids
          SectionTexts,\* bound: section bodies
          MaxCrashes   \* bound: crashes

Free == "free"
NoText == "none"   \* an id or a section that is not there

ASSUME CacheAssumption ==
  /\ \A k \in PRKeys : k = [provider |-> k.provider, repo |-> k.repo, number |-> k.number]
  /\ Free \notin Threads
  /\ Comments \subseteq Comment
  /\ MaxCrashes \in Nat

VARIABLES mem,      \* the three maps of the process
          file,     \* <path>
          tmp,      \* <path>.tmp
          mu,       \* memoryStore.mu: the goroutine that holds it, or Free
          pc,       \* where in persist that goroutine is
          up,       \* the process runs
          failed,   \* the last persist gave up on an error
          crashes

cacheVars == <<mem, file, tmp, mu, pc, up, failed, crashes>>

-----------------------------------------------------------------------------
(* The content, and what the file makes of it.                             *)

Fps == {Fingerprint(t, c) : t \in Tools, c \in Comments}

Recs == [tool : Tools, file : Files, sev : Severities, sk : Keys,
         fp : Fps, nt : Titles, title : Bodies, eid : Ids \cup {NoId},
         resolved : {FALSE}, line : {0}]

SummaryKeys == PRKeys \X Tools

Contents == [findings  : [PRKeys -> SUBSET Recs],
             summaries : [SummaryKeys -> Ids \cup {NoText}],
             sections  : [PRKeys -> [Tools -> SectionTexts \cup {NoText}]]]

Empty == [findings  |-> [k \in PRKeys |-> {}],
          summaries |-> [s \in SummaryKeys |-> NoText],
          sections  |-> [k \in PRKeys |-> [t \in Tools |-> NoText]]]

\* "provider|repo|number", as its parts.
encodePRKey(k) == <<k.provider, k.repo, k.number>>
decodePRKey(e) == [provider |-> e[1], repo |-> e[2], number |-> e[3]]

\* "provider|repo|number|tool"
encodeSummaryKey(s) == <<s[1].provider, s[1].repo, s[1].number, s[2]>>
decodeSummaryKey(e) == <<decodePRKey(e), e[4]>>

Missing == [kind |-> "missing"]
Torn == [kind |-> "torn"]

\* Mutant: the ids of the top-level comments are not written.
MarshalNoSummaries(m) ==
  [kind      |-> "whole",
   findings  |-> {<<encodePRKey(k), m.findings[k]>> : k \in PRKeys},
   summaries |-> {},
   sections  |-> {<<encodePRKey(k), m.sections[k]>> : k \in PRKeys}]

\* persistedState: the maps with their encoded keys, as sets of entries.
Marshal(m) ==
  [kind      |-> "whole",
   findings  |-> {<<encodePRKey(k), m.findings[k]>> : k \in PRKeys},
   summaries |-> {<<encodeSummaryKey(s), m.summaries[s]>> : s \in SummaryKeys},
   sections  |-> {<<encodePRKey(k), m.sections[k]>> : k \in PRKeys}]

\* The value of the entry whose key decodes to k, or none.
Lookup(entries, k, Decode(_), none) ==
  IF \E e \in entries : Decode(e[1]) = k
  THEN (CHOOSE e \in entries : Decode(e[1]) = k)[2]
  ELSE none

\* memoryStore.load
Load(f) ==
  IF f.kind # "whole" THEN Empty
  ELSE [findings  |-> [k \in PRKeys |-> Lookup(f.findings, k, decodePRKey, {})],
        summaries |-> [s \in SummaryKeys |-> Lookup(f.summaries, s, decodeSummaryKey, NoText)],
        sections  |-> [k \in PRKeys |->
                         Lookup(f.sections, k, decodePRKey, [t \in Tools |-> NoText])]]

-----------------------------------------------------------------------------
Init ==
  /\ mem = Empty /\ file = Missing /\ tmp = Missing
  /\ mu = Free /\ pc = "idle"
  /\ up = TRUE /\ failed = FALSE /\ crashes = 0

\* A goroutine takes the lock, changes the maps and enters persist.
Mutate(t, m) ==
  /\ up /\ mu = Free
  /\ mem' = m
  /\ mu' = t
  /\ pc' = "mkdir"
  /\ UNCHANGED <<file, tmp, up, failed, crashes>>

\* memoryStore.record: nothing is written when nothing changed.
Record(t, k, tool, eid, c) ==
  LET recs == MemRecord(mem.findings[k], tool, eid, c)
  IN  /\ recs # mem.findings[k]
      /\ Mutate(t, [mem EXCEPT !.findings[k] = recs])

PutSummaryID(t, k, tool, id) == Mutate(t, [mem EXCEPT !.summaries[<<k, tool>>] = id])

PutSection(t, k, tool, body) == Mutate(t, [mem EXCEPT !.sections[k][tool] = body])

\* persist returns and the lock is released.
Return(giveUp) == mu' = Free /\ pc' = "idle" /\ failed' = giveUp

\* os.MkdirAll
MkdirAll ==
  /\ pc = "mkdir"
  /\ \/ pc' = "open" /\ UNCHANGED <<mu, failed>>
     \/ Return(TRUE)
  /\ UNCHANGED <<mem, file, tmp, up, crashes>>

\* Mutant: the store's file is written in place.
OpenTmpInPlace ==
  /\ pc = "open"
  /\ file' = Torn /\ pc' = "write"
  /\ UNCHANGED <<mem, tmp, mu, up, failed, crashes>>

\* os.WriteFile truncates ...
OpenTmp ==
  /\ pc = "open"
  /\ \/ tmp' = Torn /\ pc' = "write" /\ UNCHANGED <<mu, failed>>
     \/ Return(TRUE) /\ tmp' = tmp
  /\ UNCHANGED <<mem, file, up, crashes>>

\* ... and then writes; a write that fails leaves what it has written.
WriteTmp ==
  /\ pc = "write"
  /\ \/ tmp' = Marshal(mem) /\ pc' = "rename" /\ UNCHANGED <<mu, failed>>
     \/ Return(TRUE) /\ tmp' = tmp
  /\ UNCHANGED <<mem, file, up, crashes>>

\* os.Rename
Rename ==
  /\ pc = "rename"
  /\ \/ file' = tmp /\ tmp' = Missing /\ Return(FALSE)
     \/ Return(TRUE) /\ UNCHANGED <<file, tmp>>
  /\ UNCHANGED <<mem, up, crashes>>

\* The process dies; the files stay as they are.
Crash ==
  /\ up /\ crashes < MaxCrashes
  /\ crashes' = crashes + 1
  /\ up' = FALSE
  /\ mem' = Empty /\ mu' = Free /\ pc' = "idle" /\ failed' = FALSE
  /\ UNCHANGED <<file, tmp>>

\* Mutant: the temporary file is read when it is there.
StartFromTmp ==
  /\ ~up /\ up' = TRUE
  /\ mem' = Load(IF tmp = Missing THEN file ELSE tmp)
  /\ UNCHANGED <<file, tmp, mu, pc, failed, crashes>>

\* newMemoryStore
Start ==
  /\ ~up /\ up' = TRUE
  /\ mem' = Load(file)
  /\ UNCHANGED <<file, tmp, mu, pc, failed, crashes>>

Next ==
  \/ \E t \in Threads, k \in PRKeys, tool \in Tools :
       \/ \E eid \in Ids \cup {NoId}, c \in Comments : Record(t, k, tool, eid, c)
       \/ \E id \in Ids : PutSummaryID(t, k, tool, id)
       \/ \E body \in SectionTexts : PutSection(t, k, tool, body)
  \/ MkdirAll \/ OpenTmp \/ WriteTmp \/ Rename
  \/ Crash \/ Start

Spec == Init /\ [][Next]_cacheVars

-----------------------------------------------------------------------------
(* Properties.                                                             *)

\* A file one write of some content has left.
WholeFile(f) == Load(f) \in Contents /\ f = Marshal(Load(f))

\* The type of the state: the store's file is never torn, the temporary one
\* may be, and persist runs exactly while the lock is held.
TypeOK ==
  /\ mem \in Contents
  /\ file = Missing \/ WholeFile(file)
  /\ tmp \in {Missing, Torn} \/ WholeFile(tmp)
  /\ mu \in Threads \cup {Free}
  /\ pc \in {"idle", "mkdir", "open", "write", "rename"}
  /\ pc = "idle" <=> mu = Free
  /\ up \in BOOLEAN /\ failed \in BOOLEAN
  /\ crashes \in 0..MaxCrashes

\* An operation that has returned survives a crash, unless an error of the
\* file system was ignored: then the next operation that succeeds writes what
\* was missed ("the next mutation will retry").
AckedIsSaved == up /\ mu = Free /\ ~failed => Load(file) = mem

\* One operation changes one PR, and forgets none of its findings.
LegalChange(a, b) ==
  \E k \in PRKeys :
    /\ \A r \in a.findings[k] : \E s \in b.findings[k] : s.fp = r.fp
    /\ \A j \in PRKeys \ {k} :
         /\ a.findings[j] = b.findings[j] /\ a.sections[j] = b.sections[j]
         /\ \A t \in Tools : a.summaries[<<j, t>>] = b.summaries[<<j, t>>]

LegalChanges == {p \in Contents \X Contents : LegalChange(p[1], p[2])}

\* The store and its file implement a store that survives restarts: what is
\* read back is exactly the last content that was saved, whole, under the PRs
\* it was saved for.
Durable == INSTANCE DurableStore
             WITH Changes <- LegalChanges,
                  live <- IF up THEN mem ELSE Load(file),
                  saved <- Load(file)

SurvivesRestarts == Durable!DurableSpec

=============================================================================
