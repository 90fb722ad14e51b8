------------------------ MODULE ContextBudget_proofs ------------------------
(***************************************************************************)
(* Proofs about packing: for every number of files, sizes, budget and cap  *)
(* per file, the budget is overrun by less than one marker, and no file is *)
(* lost or treated worse than a larger one.                                *)
(***************************************************************************)
EXTENDS ContextBudget, TLAPS

\* Why the loop may compare sizes once, at the sort: what it has dealt with is
\* smaller than what is left, and room once lacking lacks for ever.
Sorted ==
  /\ left \subseteq kept /\ packed \subseteq kept
  /\ budget <= MaxTokens
  /\ \A f \in kept \ left, g \in left : Before(f, g)
  /\ \A f \in truncated : budget <= 0 \/ size[f] > FileCap
  /\ \A f \in kept \cap skipped : budget <= 0

\* No more lines are shown than there are.
ShownIsPrefix == \A f \in Files : lines[f] <= Len(patch[f])

PackInv == PackTypeOK /\ Sorted /\ WithinBudget /\ NothingLost /\ ShownIsPrefix

\* Nothing is dealt with at first.
LEMMA InitPack == ASSUME PackInit PROVE PackInv
<1> USE BudgetAssumption DEF PackInit
<1>1. PackTypeOK
  <2>1. size \in [Files -> Nat]  OBVIOUS
  <2> QED  BY <2>1 DEF PackTypeOK
<1>2. Sorted  BY DEF Sorted
<1>3. WithinBudget  BY DEF WithinBudget, MarkerTokens
<1>4. NothingLost  BY DEF NothingLost
<1>5. ShownIsPrefix
  <2>1. \A f \in Files : Len(patch[f]) \in Nat  OBVIOUS
  <2> QED  BY <2>1 DEF ShownIsPrefix
<1> QED  BY <1>1, <1>2, <1>3, <1>4, <1>5 DEF PackInv

\* While there is budget left, the cap of a file is within it and positive.
LEMMA CapWithinBudget ==
  ASSUME PackTypeOK, budget > 0
  PROVE  /\ FileCap \in Nat /\ FileCap > 0 /\ FileCap <= budget
         /\ PerFileMax > 0 => FileCap <= PerFileMax
BY BudgetAssumption DEF PackTypeOK, FileCap

\* What is left of a truncated patch is within its cap, or the marker alone.
LEMMA RemainsWithinCap ==
  ASSUME PackTypeOK, budget > 0, NEW f \in Files, NEW r \in Remains(f, FileCap)
  PROVE  /\ r[1] \in Nat /\ r[2] \in Nat /\ r[2] <= Len(patch[f])
         /\ r[1] <= FileCap \/ (r[1] = MarkerTokens /\ FileCap < MarkerTokens)
<1> USE DEF MarkerTokens
<1>1. FileCap \in Nat  BY CapWithinBudget
<1> patch[f] \in Patches /\ Len(patch[f]) \in Nat  BY BudgetAssumption DEF PackTypeOK
<1>2. CASE FileCap < MarkerTokens
  <2>1. r = <<MarkerTokens, 0>>  BY <1>2 DEF Remains
  <2> QED  BY <1>2, <2>1
<1>3. CASE ~(FileCap < MarkerTokens)
  <2>1. r \in (MarkerTokens .. FileCap) \X (0 .. Len(patch[f]))  BY <1>3 DEF Remains
  <2>2. r[1] \in MarkerTokens .. FileCap /\ r[2] \in 0 .. Len(patch[f])  BY <2>1
  <2> QED  BY <1>1, <2>2
<1> QED  BY <1>2, <1>3

\* The cap does not grow as the budget is used up.
LEMMA CapFalls ==
  ASSUME PackTypeOK, budget' \in Int, budget' <= budget, budget' > 0
  PROVE  FileCap' <= FileCap /\ FileCap' \in Int /\ FileCap \in Int
BY BudgetAssumption DEF PackTypeOK, FileCap

LEMMA SkipKeepsInv ==
  ASSUME PackInv, NEW f \in Files, SkipForBudget(f)
  PROVE  PackInv'
<1> USE BudgetAssumption DEF PackInv, SkipForBudget, diffVars
<1>1. PackTypeOK'  BY DEF PackTypeOK
<1>2. f \in left /\ \A g \in left : Before(f, g)  BY DEF Smallest
<1>3. Sorted'
  <2>1. \A g \in kept' \ left', h \in left' : Before(g, h)'
    BY <1>2 DEF Sorted, Before, PackTypeOK
  <2>2. \A g \in truncated' : budget' <= 0  OBVIOUS
  <2> QED  BY <2>1, <2>2 DEF Sorted, PackTypeOK
<1>4. WithinBudget'  BY DEF WithinBudget
<1>5. NothingLost'
  <2>1. \A g \in packed : Before(g, f)  BY <1>2 DEF Sorted, NothingLost
  <2> QED  BY <1>2, <2>1 DEF NothingLost, Before, Sorted
<1>6. ShownIsPrefix'  BY DEF ShownIsPrefix
<1> QED  BY <1>1, <1>3, <1>4, <1>5, <1>6

LEMMA WholeKeepsInv ==
  ASSUME PackInv, NEW f \in Files, PackWhole(f)
  PROVE  PackInv'
<1> USE BudgetAssumption DEF PackInv, PackWhole, diffVars
<1>1. size[f] \in Nat /\ budget \in Int /\ budget' = budget - size[f]  BY DEF PackTypeOK
<1>2. FileCap \in Nat /\ FileCap <= budget /\ (PerFileMax > 0 => FileCap <= PerFileMax)
  BY CapWithinBudget
<1>3. budget' \in Nat /\ budget' <= budget  BY <1>1, <1>2
<1>4. f \in left /\ \A g \in left : Before(f, g)  BY DEF Smallest
<1>5. PackTypeOK'
  <2>1. lines' \in [Files -> Nat]  BY DEF PackTypeOK
  <2>2. tokens' \in [Files -> Nat]  BY <1>1 DEF PackTypeOK
  <2> QED  BY <1>3, <2>1, <2>2 DEF PackTypeOK
<1>6. Sorted'
  <2>1. \A g \in kept' \ left', h \in left' : Before(g, h)'
    BY <1>4, SMTT(30) DEF Sorted, Before, PackTypeOK
  <2>2. \A g \in truncated' : budget' <= 0 \/ size'[g] > FileCap'
    BY <1>3, CapFalls, SMTT(30) DEF Sorted, PackTypeOK
  <2>3. left' \subseteq kept' /\ packed' \subseteq kept' /\ budget' <= MaxTokens
    BY <1>1, <1>3, <1>4 DEF Sorted
  <2>4. kept' \cap skipped' = {}  BY DEF Sorted, PackTypeOK
  <2> QED  BY <2>1, <2>2, <2>3, <2>4 DEF Sorted
<1>7. WithinBudget'
  <2>1. \A g \in packed' : tokens'[g] = IF g = f THEN size[f] ELSE tokens[g]
    BY DEF PackTypeOK
  <2>2. lines'[f] = Len(patch[f]) /\ \A g \in Files : g # f => lines'[g] = lines[g]
    BY DEF PackTypeOK
  <2>3. f \notin truncated  BY <1>4 DEF NothingLost
  <2>4. size[f] <= MaxTokens  BY <1>1, <1>2 DEF Sorted
  <2>5. PerFileMax > 0 => size[f] <= PerFileMax  BY <1>1, <1>2
  <2> QED  BY <1>3, <2>1, <2>2, <2>3, <2>4, <2>5 DEF WithinBudget, MarkerTokens, PackTypeOK
<1>8. NothingLost'
  <2>1. \A g \in truncated : size[g] > FileCap  BY DEF Sorted, PackTypeOK
  <2>2. truncated = {}
    <3> SUFFICES ASSUME NEW g \in truncated PROVE FALSE  OBVIOUS
    <3>1. Before(g, f)  BY <1>4 DEF Sorted, NothingLost
    <3>2. size[g] <= size[f]  BY <1>1, <3>1 DEF Before, PackTypeOK
    <3> QED  BY <1>1, <1>2, <2>1, <3>2 DEF PackTypeOK
  <2>3. kept \cap skipped = {}  BY DEF Sorted, PackTypeOK
  <2> QED  BY <1>4, <2>2, <2>3 DEF NothingLost
<1>9. ShownIsPrefix'
  <2>1. \A g \in Files : lines'[g] = IF g = f THEN Len(patch[f]) ELSE lines[g]
    BY DEF PackTypeOK
  <2>2. Len(patch[f]) \in Nat  BY DEF PackTypeOK
  <2> QED  BY <2>1, <2>2 DEF ShownIsPrefix
<1> QED  BY <1>5, <1>6, <1>7, <1>8, <1>9

LEMMA TruncatedKeepsInv ==
  ASSUME PackInv, NEW f \in Files, PackTruncated(f)
  PROVE  PackInv'
<1> USE BudgetAssumption DEF PackInv, PackTruncated, diffVars
<1>1. PICK r \in Remains(f, FileCap) :
        /\ budget' = budget - r[1]
        /\ tokens' = [tokens EXCEPT ![f] = r[1]]
        /\ lines' = [lines EXCEPT ![f] = r[2]]
  OBVIOUS
<1>2. size[f] \in Nat /\ budget \in Int  BY DEF PackTypeOK
<1>3. FileCap \in Nat /\ FileCap <= budget /\ (PerFileMax > 0 => FileCap <= PerFileMax)
  BY CapWithinBudget
<1>4. /\ r[1] \in Nat /\ r[2] \in Nat /\ r[2] <= Len(patch[f])
      /\ r[1] <= FileCap \/ r[1] = MarkerTokens
  BY <1>1, RemainsWithinCap
<1>5. budget' \in Int /\ budget' <= budget /\ budget' > -MarkerTokens
      /\ (budget' < 0 => r[1] = MarkerTokens)
  BY <1>1, <1>2, <1>3, <1>4 DEF MarkerTokens
<1>6. f \in left /\ \A g \in left : Before(f, g)  BY DEF Smallest
<1>7. PackTypeOK'  BY <1>1, <1>4, <1>5 DEF PackTypeOK
<1>8. Sorted'
  <2>1. \A g \in kept' \ left', h \in left' : Before(g, h)'
    BY <1>6 DEF Sorted, Before, PackTypeOK
  <2>2. \A g \in truncated' : budget' <= 0 \/ size'[g] > FileCap'
    BY <1>2, <1>3, <1>5, CapFalls, SMTT(30) DEF Sorted, PackTypeOK
  <2>3. left' \subseteq kept' /\ packed' \subseteq kept' /\ budget' <= MaxTokens
    BY <1>2, <1>5, <1>6 DEF Sorted
  <2>4. kept' \cap skipped' = {}  BY DEF Sorted, PackTypeOK
  <2> QED  BY <2>1, <2>2, <2>3, <2>4 DEF Sorted
<1>9. WithinBudget'
  <2>1. \A g \in packed' : tokens'[g] = IF g = f THEN r[1] ELSE tokens[g]
    BY <1>1 DEF PackTypeOK
  <2>2. \A g \in Files : g # f => lines'[g] = lines[g]  BY <1>1 DEF PackTypeOK
  <2>3. r[1] <= MaxTokens \/ r[1] = MarkerTokens  BY <1>2, <1>3, <1>4 DEF Sorted
  <2>4. PerFileMax > 0 => r[1] <= PerFileMax \/ r[1] = MarkerTokens  BY <1>3, <1>4
  <2>5. \A g \in packed' \ truncated' : g \in packed \ truncated /\ g # f  OBVIOUS
  <2>6. budget' < 0 => \E g \in truncated' : tokens'[g] = MarkerTokens
    BY <1>5, <2>1
  <2>7. PerFileMax > 0 => \A g \in packed' :
          tokens'[g] <= PerFileMax \/ (g \in truncated' /\ tokens'[g] = MarkerTokens)
    BY <2>1, <2>4 DEF WithinBudget
  <2>8. \A g \in packed' : tokens'[g] <= MaxTokens \/ tokens'[g] = MarkerTokens
    BY <2>1, <2>3 DEF WithinBudget
  <2>9. \A g \in packed' \ truncated' : tokens'[g] = size'[g] /\ lines'[g] = Len(patch'[g])
    BY <2>1, <2>2, <2>5 DEF WithinBudget, PackTypeOK
  <2> QED  BY <1>5, <2>6, <2>7, <2>8, <2>9 DEF WithinBudget
<1>10. NothingLost'
  <2>1. kept \cap skipped = {}  BY DEF Sorted, PackTypeOK
  <2>2. \A g \in packed : Before(g, f)  BY <1>6 DEF Sorted, NothingLost
  <2> QED  BY <1>6, <2>1, <2>2 DEF NothingLost, Before
<1>11. ShownIsPrefix'
  <2>1. \A g \in Files : lines'[g] = IF g = f THEN r[2] ELSE lines[g]
    BY <1>1 DEF PackTypeOK
  <2> QED  BY <1>4, <2>1 DEF ShownIsPrefix
<1> QED  BY <1>7, <1>8, <1>9, <1>10, <1>11

\* Every step of the loop keeps the invariant, in Compress alone and inside a
\* tool's call.
LEMMA PackStepKeepsInv == ASSUME PackInv, [PackNext]_packVars PROVE PackInv'
<1>1. CASE PackNext
  <2>1. PICK f \in Files : PackFile(f)  BY <1>1 DEF PackNext
  <2> QED  BY <2>1, SkipKeepsInv, WholeKeepsInv, TruncatedKeepsInv DEF PackFile
<1>2. CASE UNCHANGED packVars
  BY <1>2 DEF packVars, PackInv, PackTypeOK, Sorted, WithinBudget, NothingLost, Before, FileCap,
     ShownIsPrefix
<1> QED  BY <1>1, <1>2

\* Packing keeps to its budget (the limits compress.go is called with), up to
\* one truncation marker, and loses no file.
THEOREM PackingSound == PackSpec => [](WithinBudget /\ NothingLost)
<1>1. PackInit => PackInv  BY InitPack
<1>2. PackInv /\ [PackNext]_packVars => PackInv'  BY PackStepKeepsInv
<1>3. PackInv => WithinBudget /\ NothingLost  BY DEF PackInv
<1> QED  BY <1>1, <1>2, <1>3, PTL DEF PackSpec
=============================================================================
