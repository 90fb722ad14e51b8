--------------------------- MODULE ContextBudget ---------------------------
(***************************************************************************)
(* Compress (internal/contextengine/compress.go): packing the files of a   *)
(* pull request into a budget of tokens, smallest first, one file a step.  *)
(*                                                                         *)
(* A file is its position in ListChangedFiles, which breaks ties as the    *)
(* stable sort does.  A patch is a sequence of lines of arbitrary lengths, *)
(* so how many of them are left of a truncated patch is arbitrary too.     *)
(***************************************************************************)
EXTENDS Integers, Sequences

CONSTANTS NFiles,
          Sizes,       \* token estimates of a patch
          Patches,     \* sequences of diff lines
          MaxTokens,   \* the budget
          PerFileMax   \* 0: no cap per file

Files == 1 .. NFiles

\* The marker that ends a truncated patch: 25 characters, at 4 to a token.
MarkerTokens == 7

ASSUME BudgetAssumption ==
  /\ NFiles \in Nat
  /\ Sizes \subseteq Nat
  /\ \A p \in Patches : Len(p) \in Nat
  /\ MaxTokens \in Nat \ {0}
  /\ PerFileMax \in Nat

VARIABLES size, patch, kept,  \* the diff, and its files that pass the filters
          left,            \* files of kept that are still to be considered
          budget,
          packed, truncated, skipped,
          tokens,          \* EstimateTokens of what is shown of a file
          lines            \* lines shown of it, the last one perhaps in part

diffVars == <<size, patch, kept>>
packVars == <<size, patch, kept, left, budget, packed, truncated, skipped, tokens, lines>>

\* The pull request: binary files and those outside the path filters are
\* skipped, the others kept.
PackInit ==
  /\ size \in [Files -> Sizes]
  /\ patch \in [Files -> Patches]
  /\ \A f \in Files : size[f] = 0 <=> patch[f] = <<>>
  /\ kept \in SUBSET Files
  /\ left = kept
  /\ skipped = Files \ kept
  /\ budget = MaxTokens
  /\ packed = {} /\ truncated = {}
  /\ tokens = [f \in Files |-> 0]
  /\ lines = [f \in Files |-> 0]

Before(f, g) == size[f] < size[g] \/ (size[f] = size[g] /\ f <= g)

\* Mutant: the files are not sorted.
SmallestUnsorted(f) == f \in left /\ \A g \in left : f <= g

\* The file the loop comes to.
Smallest(f) == f \in left /\ \A g \in left : Before(f, g)

\* Mutant: the cap of a file is not lowered to what is left of the budget.
FileCapUnlimited == IF PerFileMax = 0 THEN budget ELSE PerFileMax

FileCap == IF PerFileMax = 0 \/ PerFileMax > budget THEN budget ELSE PerFileMax

SkipForBudget(f) ==
  /\ Smallest(f)
  /\ budget <= 0
  /\ skipped' = skipped \cup {f}
  /\ left' = left \ {f}
  /\ UNCHANGED <<diffVars, budget, packed, truncated, tokens, lines>>

PackWhole(f) ==
  /\ Smallest(f)
  /\ budget > 0
  /\ size[f] <= FileCap
  /\ budget' = budget - size[f]
  /\ tokens' = [tokens EXCEPT ![f] = size[f]]
  /\ lines' = [lines EXCEPT ![f] = Len(patch[f])]
  /\ packed' = packed \cup {f}
  /\ left' = left \ {f}
  /\ UNCHANGED <<diffVars, truncated, skipped>>

\* truncatePatch at cap: what it may leave, in tokens and lines.  The marker
\* alone when there is no room for more than it; trailing newlines go, so
\* less than the cap may be used.
Remains(f, cap) ==
  IF cap < MarkerTokens THEN {<<MarkerTokens, 0>>}
  ELSE (MarkerTokens .. cap) \X (0 .. Len(patch[f]))

PackTruncated(f) ==
  /\ Smallest(f)
  /\ budget > 0
  /\ size[f] > FileCap
  /\ \E r \in Remains(f, FileCap) :
       /\ budget' = budget - r[1]
       /\ tokens' = [tokens EXCEPT ![f] = r[1]]
       /\ lines' = [lines EXCEPT ![f] = r[2]]
  /\ packed' = packed \cup {f}
  /\ truncated' = truncated \cup {f}
  /\ left' = left \ {f}
  /\ UNCHANGED <<diffVars, skipped>>

PackFile(f) == SkipForBudget(f) \/ PackWhole(f) \/ PackTruncated(f)

PackNext == \E f \in Files : PackFile(f)

PackSpec == PackInit /\ [][PackNext]_packVars

PackTypeOK ==
  /\ size \in [Files -> Nat] /\ patch \in [Files -> Patches]
  /\ budget \in Int
  /\ kept \subseteq Files /\ left \subseteq Files /\ packed \subseteq Files
  /\ truncated \subseteq Files /\ skipped \subseteq Files
  /\ tokens \in [Files -> Nat]
  /\ lines \in [Files -> Nat]

\* The budget and the cap of a file hold up to the marker of a file that was
\* cut with less room than that; what is not cut is shown whole.
WithinBudget ==
  /\ budget > -MarkerTokens
  /\ budget < 0 => \E f \in truncated : tokens[f] = MarkerTokens
  /\ PerFileMax > 0 => \A f \in packed :
       tokens[f] <= PerFileMax \/ (f \in truncated /\ tokens[f] = MarkerTokens)
  /\ \A f \in packed : tokens[f] <= MaxTokens \/ tokens[f] = MarkerTokens
  /\ \A f \in packed \ truncated : tokens[f] = size[f] /\ lines[f] = Len(patch[f])

\* Nothing is lost in silence: each file ends in exactly one of the lists, and
\* none is cut for want of room while a larger one is shown whole, or left out
\* for want of room while a larger one is shown at all.
NothingLost ==
  /\ left \cup packed \cup skipped = Files
  /\ left \cap packed = {} /\ left \cap skipped = {} /\ packed \cap skipped = {}
  /\ truncated \subseteq packed
  /\ \A f \in truncated, g \in packed \ truncated : Before(g, f)
  /\ \A f \in kept \cap skipped, g \in packed : Before(g, f)
=============================================================================
