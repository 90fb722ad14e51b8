--------------------------- MODULE ReviewVerdict ---------------------------
(***************************************************************************)
(* What /review makes of the model's findings (tools/review/review.go) and *)
(* of the diff it was shown (tools/diffanchor.go): the comments, with the  *)
(* lines the adapters anchor them at, and the status of the check run,     *)
(* which is the gate of the pull request.                                  *)
(***************************************************************************)
EXTENDS Naturals, FiniteSets, SequencesExt

\* A diff line: a hunk header and its new-file start, or a line by its first
\* character; a header that cannot be parsed has start NoStart, as has one of a
\* file that is deleted, which no added line follows.
NoStart == 0
Hunk(n) == [kind |-> "@@", start |-> n]
Added == [kind |-> "+", start |-> NoStart]
Removed == [kind |-> "-", start |-> NoStart]
Context == [kind |-> " ", start |-> NoStart]
NoNewline == [kind |-> "\\", start |-> NoStart]
DiffLine == [kind : {"@@", "+", "-", " ", "\\"}, start : Nat]

ScanState == [inHunk : BOOLEAN, line : Nat, changed : SUBSET Nat]
Before1stHunk == [inHunk |-> FALSE, line |-> 0, changed |-> {}]

\* Mutant: a removed line advances the line number too.
ScanCountsRemoved(s, l) ==
  CASE l.kind = "@@" -> IF l.start = NoStart THEN s
                        ELSE [s EXCEPT !.inHunk = TRUE, !.line = l.start]
    [] l.kind # "@@" /\ ~s.inHunk -> s
    [] l.kind = "\\" /\ s.inHunk -> s
    [] l.kind = "+" /\ s.inHunk -> [s EXCEPT !.line = @ + 1, !.changed = @ \cup {s.line}]
    [] OTHER -> [s EXCEPT !.line = @ + 1]

\* One line of the loop; the ranges are the set of lines they cover.
ScanLine(s, l) ==
  CASE l.kind = "@@" -> IF l.start = NoStart THEN s
                        ELSE [s EXCEPT !.inHunk = TRUE, !.line = l.start]
    [] l.kind # "@@" /\ ~s.inHunk -> s
    [] l.kind \in {"\\", "-"} /\ s.inHunk -> s
    [] l.kind = "+" /\ s.inHunk -> [s EXCEPT !.line = @ + 1, !.changed = @ \cup {s.line}]
    [] OTHER -> [s EXCEPT !.line = @ + 1]

\* The step is a function, which TLC applies to the value of s.
changedLineRanges(patch) ==
  FoldLeft(LAMBDA s, l : [t \in ScanState |-> ScanLine(t, l)][s], Before1stHunk, patch).changed

InChangedLines(changed, line) == line = 0 \/ line \in changed

Rank(sev) == CASE sev = "block" -> 3 [] sev = "warn" -> 2 [] OTHER -> 1

\* The elements of s at the indices I, in their order: what a loop appends
\* that skips the others.
At(s, I) == MapThenFoldSet(LAMBDA x, out : Append(out, x), <<>>, LAMBDA i : s[i], Max, I)

\* The findings that become comments, in the model's order; changed maps a
\* file to its changed lines, {} when the file was not shown.  A finding goes
\* from line to last, its line_end, which is passed on as the answer gives it.
convertFindings(findings, cfg, changed) ==
  LET Keep(f) == /\ InChangedLines(changed[f.file], f.line)
                 /\ Rank(f.sev) >= Rank(cfg.threshold)
      out == At(findings, {i \in DOMAIN findings : Keep(findings[i])})
  IN  SubSeq(out, 1, IF Len(out) < cfg.maxComments THEN Len(out) ELSE cfg.maxComments)

\* The line at which the GitHub adapter anchors a comment; one on a file as a
\* whole goes to line 1.
GithubLine(c) ==
  CASE c.line > 0 /\ c.last > c.line -> c.last
    [] c.line > 0 /\ c.last <= c.line -> c.line
    [] OTHER -> 1

\* The line at which the GitLab adapter anchors a comment, if it is in a hunk;
\* elsewhere, as for 0, the comment becomes a plain note.
GitlabLine(c) == IF c.last = 0 THEN c.line ELSE c.last

\* The comment policy: results that are reported by the check run alone.
Silenced(inline, cfg) ==
  \/ inline = <<>> /\ cfg.silentOnClean
  \/ /\ inline # <<>>
     /\ \/ cfg.skipIfOnlyNits /\ \A i \in DOMAIN inline : inline[i].sev = "nit"
        \/ Len(inline) < cfg.minToPost

hasBlocking(findings, blockOn) == \E i \in DOMAIN findings : findings[i].sev \in blockOn

\* The gate looks at all findings of the model, comments or not.
Gate(findings, inline, cfg) ==
  IF ~Silenced(inline, cfg) /\ hasBlocking(findings, cfg.blockOn) THEN "failed" ELSE "succeeded"

Posted(inline, cfg) == IF Silenced(inline, cfg) THEN <<>> ELSE inline

-----------------------------------------------------------------------------
(* What a diff says, without the loop: line n of the new file is added by  *)
(* the i-th diff line when the last header before i says so.               *)

AddedLines(patch) ==
  LET Headers(i) == {h \in 1 .. i - 1 : patch[h].kind = "@@" /\ patch[h].start # NoStart}
      LastHeader(i) == CHOOSE h \in Headers(i) : \A g \in Headers(i) : g <= h
      Shift(i) == Cardinality({k \in LastHeader(i) + 1 .. i - 1 : patch[k].kind \in {"+", " "}})
  IN  {patch[LastHeader(i)].start + Shift(i) :
         i \in {k \in DOMAIN patch : patch[k].kind = "+" /\ Headers(k) # {}}}
=============================================================================
