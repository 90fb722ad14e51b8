------------------------------ MODULE Findings ------------------------------
(***************************************************************************)
(* The identity of a finding and the records the findings store keeps of   *)
(* it (internal/findings/findings.go, internal/findings/prior.go).         *)
(*                                                                         *)
(* Text is abstracted to what the store tells apart.  A comment body is an *)
(* element of Bodies; normalizeTitle maps it, many to one, to its          *)
(* normalized title, and tokenize maps that title to its set of words (it  *)
(* may be empty: a title made of stop words, or a body that is one code    *)
(* fence).  A hash is the record of what is hashed.                        *)
(*                                                                         *)
(* The records of one PR form a set: every reader scans all of them and    *)
(* no result depends on their order.                                       *)
(***************************************************************************)
EXTENDS Integers, FiniteSets

CONSTANTS Tools,          \* tool names: "review", "improve", ...
          Files,          \* paths of the repository
          Severities,     \* block, warn, nit
          Bodies,         \* comment bodies a tool can produce
          Titles,         \* normalized titles
          normalizeTitle, \* [Bodies -> Titles]
          firstLine,      \* [Bodies -> Bodies], the first line as a body
          tokenize        \* [Titles -> finite sets of words]

ASSUME TextAssumption ==
  /\ normalizeTitle \in [Bodies -> Titles]
  /\ firstLine \in [Bodies -> Bodies]
  /\ DOMAIN tokenize = Titles
  /\ \A t \in Titles : IsFiniteSet(tokenize[t])

(***************************************************************************)
(* Identity.                                                               *)
(***************************************************************************)

\* vcs.InlineComment; line 0 is "no anchor".
Comment == [file : Files, sev : Severities, body : Bodies, ls : Nat, le : Nat]

\* Line numbers are not part of the key: a finding that moved keeps it.
StructuralKey(tool, c) ==
  [tool |-> tool, file |-> c.file, sev |-> c.sev, nt |-> normalizeTitle[c.body]]

\* Every field, body and lines included.
Fingerprint(tool, c) == [tool |-> tool, comment |-> c]

Keys == [tool : Tools, file : Files, sev : Severities, nt : Titles]

NoKey == [legacy |-> TRUE]   \* the empty string in the sk column
NoFp == [seeded |-> TRUE]    \* the empty Fingerprint of a seeded record
NoId == [unknown |-> TRUE]   \* the empty external comment id

\* jaccard(a, b) >= num/den; an empty side scores 0.
SimilarAtLeast(a, b, num, den) ==
  /\ a # {} /\ b # {}
  /\ den * Cardinality(a \cap b) >= num * Cardinality(a \cup b)

\* SimilarTitleThreshold = 0.5
SimilarTitle(nt1, nt2) == SimilarAtLeast(tokenize[nt1], tokenize[nt2], 1, 2)

\* ResolvedSuppressThreshold = 0.3
SimilarToResolved(nt1, nt2) == SimilarAtLeast(tokenize[nt1], tokenize[nt2], 3, 10)

(***************************************************************************)
(* The records of one PR.                                                  *)
(***************************************************************************)

\* Mutant: the file is forgotten.
SameBucketAnyFile(r, tool, c) == r.tool = tool /\ r.sev = c.sev

\* findingRec; eid is an external thread id or NoId.
SameBucket(r, tool, c) == r.tool = tool /\ r.file = c.file /\ r.sev = c.sev

OpenMatch(r, tool, c) ==
  \/ r.sk = StructuralKey(tool, c)
  \/ SimilarTitle(normalizeTitle[c.body], r.nt)

\* The widened rule for a thread that is resolved upstream: the new comment
\* covers its anchor line, or is similar enough.
ResolvedMatch(r, c) ==
  \/ r.line > 0 /\ c.ls > 0 /\ c.ls <= r.line /\ r.line <= c.le
  \/ SimilarToResolved(normalizeTitle[c.body], r.nt)

\* Mutant: a resolved record is matched like an open one.
MemHasOpenOnly(recs, tool, c) ==
  \E r \in recs : SameBucket(r, tool, c) /\ OpenMatch(r, tool, c)

\* memoryStore.has
MemHas(recs, tool, c) ==
  \E r \in recs : /\ SameBucket(r, tool, c)
                  /\ IF r.resolved THEN ResolvedMatch(r, c) ELSE OpenMatch(r, tool, c)

\* HasFinding against posted_findings, as the set of its possible answers.
\* The table has no resolved column; its rows come in no fixed order, and a
\* row written before structural_key existed is NULL there, which ends the
\* scan with an error: the caller then takes the finding for a new one.
DBHasAnswers(recs, tool, c) ==
  LET bucket == {r \in recs : SameBucket(r, tool, c)}
      legacy == {r \in bucket : r.sk = NoKey}
      found == \E r \in bucket \ legacy : OpenMatch(r, tool, c)
  IN  {found} \cup {FALSE : r \in legacy}

NewRec(tool, eid, c) ==
  [tool |-> tool, file |-> c.file, sev |-> c.sev,
   sk |-> StructuralKey(tool, c), fp |-> Fingerprint(tool, c),
   nt |-> normalizeTitle[c.body], title |-> firstLine[c.body],
   eid |-> eid, resolved |-> FALSE, line |-> 0]

\* memoryStore.record: idempotent on the fingerprint, and an id learned late
\* is filled in.
MemRecord(recs, tool, eid, c) ==
  LET same == {r \in recs : r.fp = Fingerprint(tool, c)}
  IN  IF same = {}
      THEN recs \cup {NewRec(tool, eid, c)}
      ELSE {IF r \in same /\ r.eid = NoId THEN [r EXCEPT !.eid = eid] ELSE r : r \in recs}

\* RecordFinding on the database: ON CONFLICT (fingerprint) DO NOTHING.
DBRecord(recs, tool, eid, c) ==
  IF \E r \in recs : r.fp = Fingerprint(tool, c)
  THEN recs ELSE recs \cup {NewRec(tool, eid, c)}

\* ListPostedFindings: the view of a record that a later dispatch reads.
\* It carries neither the resolved flag nor the anchor line.
Posted(r) ==
  [tool |-> r.tool, file |-> r.file, sev |-> r.sev, title |-> r.title,
   eid |-> r.eid, sk |-> r.sk]

ListPostedFindings(recs) == {Posted(r) : r \in recs}

\* NewFromPrior: the record rebuilt from an artifact read back from the PR.
SeedRec(pi) ==
  [tool |-> pi.tool, file |-> pi.file, sev |-> pi.sev, sk |-> pi.sk, fp |-> NoFp,
   nt |-> pi.nt, title |-> pi.title, eid |-> pi.eid,
   resolved |-> pi.resolved, line |-> pi.line]

=============================================================================
