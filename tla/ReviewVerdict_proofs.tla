------------------------ MODULE ReviewVerdict_proofs ------------------------
(***************************************************************************)
(* Proofs about the operators of ReviewVerdict: the loop of                *)
(* changedLineRanges computes, for every diff, the lines the diff adds;    *)
(* and what becomes a comment is a finding that passed the filters.        *)
(*                                                                         *)
(* Loops are folds here.  What a fold computes is shown by induction over  *)
(* the natural numbers, which WFMin gives in the form of SetInduction; a   *)
(* fold is a CHOOSE among the functions of its recursion, so each proof    *)
(* first shows that there is one.                                          *)
(***************************************************************************)
EXTENDS ReviewVerdict, TLAPS, WellFoundedInduction, NaturalsInduction, SequenceTheorems,
        FiniteSetTheorems

-----------------------------------------------------------------------------
(* Induction over the natural numbers, and the folds it gives a meaning to. *)

\* Induction in the form of a set that holds 0 and, with a number, the next.
LEMMA SetInduction ==
  ASSUME NEW T, 0 \in T, \A n \in Nat : n \in T => n + 1 \in T
  PROVE  Nat \subseteq T
<1> DEFINE R == {nn \in Nat \X Nat : nn[1] < nn[2]}
           Out == Nat \ T
<1> SUFFICES ASSUME Out # {} PROVE FALSE  OBVIOUS
<1>1. IsWellFoundedOn(R, Nat)  BY NatLessThanWellFounded DEF OpToRel
<1> HIDE DEF R
<1>2. PICK n \in Out : \A m \in Out : ~(<<m, n>> \in R)
  <2>1. Out \subseteq Nat  OBVIOUS
  <2> HIDE DEF Out
  <2> QED  BY <1>1, <2>1, WFMin
<1>3. n \in Nat /\ n # 0 /\ n \notin T  OBVIOUS
<1>4. n - 1 \in Nat /\ n - 1 < n /\ (n - 1) + 1 = n  BY <1>3
<1>5. n - 1 \in Out  BY <1>3, <1>4
<1>6. <<n - 1, n>> \in R  BY <1>3, <1>4 DEF R
<1> QED  BY <1>2, <1>5, <1>6

HasIterates(n, A, base, g) ==
  \E h \in [0 .. n -> A] :
    h[0] = base /\ \A k \in 1 .. n : h[k] = g[<<h[k - 1], k>>]

\* The function a fold computes, one index at a time.
LEMMA Iterates ==
  ASSUME NEW A, NEW base \in A, NEW n \in Nat, NEW g \in [A \X (1 .. n) -> A]
  PROVE  HasIterates(n, A, base, g)
<1> DEFINE T == {m \in Nat : m <= n => \E h \in [0 .. m -> A] :
                   h[0] = base /\ \A k \in 1 .. m : h[k] = g[<<h[k - 1], k>>]}
<1>1. 0 \in T
  <2> DEFINE h == [k \in 0 .. 0 |-> base]
  <2>1. h \in [0 .. 0 -> A] /\ h[0] = base /\ \A k \in 1 .. 0 : h[k] = g[<<h[k - 1], k>>]
    OBVIOUS
  <2> QED  BY <2>1
<1>2. ASSUME NEW m \in Nat, m \in T PROVE m + 1 \in T
  <2> SUFFICES ASSUME m + 1 <= n
               PROVE  \E h \in [0 .. m + 1 -> A] :
                        h[0] = base /\ \A k \in 1 .. m + 1 : h[k] = g[<<h[k - 1], k>>]
    OBVIOUS
  <2>1. PICK h \in [0 .. m -> A] :
          h[0] = base /\ \A k \in 1 .. m : h[k] = g[<<h[k - 1], k>>]
    BY <1>2
  <2> DEFINE hh == [k \in 0 .. m + 1 |-> IF k = m + 1 THEN g[<<h[m], m + 1>>] ELSE h[k]]
  <2>2. m + 1 \in 1 .. n /\ m \in 0 .. m /\ \A k \in 0 .. m + 1 : k = m + 1 \/ k \in 0 .. m
    OBVIOUS
  <2>3. g[<<h[m], m + 1>>] \in A
    <3>1. h[m] \in A  BY <2>2
    <3>2. <<h[m], m + 1>> \in A \X (1 .. n)  BY <2>2, <3>1
    <3> QED  BY <3>2
  <2>4. hh \in [0 .. m + 1 -> A]
    <3>1. \A k \in 0 .. m + 1 : k # m + 1 => h[k] \in A  BY <2>2
    <3> QED  BY <2>3, <3>1
  <2>5. \A k \in 0 .. m : hh[k] = h[k]  OBVIOUS
  <2>6. hh[m + 1] = g[<<h[m], m + 1>>]  OBVIOUS
  <2> HIDE DEF hh
  <2>7. hh[0] = base  BY <2>1, <2>5
  <2>8. ASSUME NEW k \in 1 .. m + 1 PROVE hh[k] = g[<<hh[k - 1], k>>]
    <3>1. CASE k = m + 1
      <4>1. hh[k - 1] = h[m]  BY <2>5, <3>1
      <4> QED  BY <2>6, <3>1, <4>1
    <3>2. CASE k \in 1 .. m
      <4>1. hh[k] = h[k] /\ hh[k - 1] = h[k - 1]  BY <2>5, <3>2
      <4> QED  BY <2>1, <3>2, <4>1
    <3> QED  BY <3>1, <3>2
  <2> QED  BY <2>4, <2>7, <2>8
<1> HIDE DEF T
<1>3. Nat \subseteq T  BY <1>1, <1>2, SetInduction
<1>4. n \in T  BY <1>3
<1> QED  BY <1>4 DEF T, HasIterates

\* The greatest index of a set that has one.
LEMMA MaxIs ==
  ASSUME NEW S \in SUBSET Nat, NEW m \in S, \A k \in S : k <= m
  PROVE  Max(S) = m
<1>1. m \in S /\ \A y \in S : m >= y  OBVIOUS
<1>2. ASSUME NEW x \in S, \A y \in S : x >= y PROVE x = m
  BY <1>1, <1>2
<1> QED  BY <1>1, <1>2 DEF Max

\* What FoldLeft asks of the function on sets of indices it is defined by.
FoldFcn(f, n, base, g) ==
  \A s \in SUBSET (1 .. n) :
    f[s] = IF s = {} THEN base ELSE g[<<f[s \ {Max(s)}], Max(s)>>]

HasFold(n, A, base, g) == \E f \in [SUBSET (1 .. n) -> A] : FoldFcn(f, n, base, g)

\* There is such a function.
LEMMA FoldExists ==
  ASSUME NEW A, NEW base \in A, NEW n \in Nat, NEW g \in [A \X (1 .. n) -> A]
  PROVE  HasFold(n, A, base, g)
<1> DEFINE T == {m \in Nat : m <= n => HasFold(m, A, base, g)}
<1>1. 0 \in T
  <2> DEFINE f == [s \in SUBSET (1 .. 0) |-> base]
  <2>1. \A s \in SUBSET (1 .. 0) : s = {}  OBVIOUS
  <2>2. f \in [SUBSET (1 .. 0) -> A] /\ FoldFcn(f, 0, base, g)  BY <2>1 DEF FoldFcn
  <2> QED  BY <2>2 DEF HasFold
<1>2. ASSUME NEW m \in Nat, m \in T PROVE m + 1 \in T
  <2> SUFFICES ASSUME m + 1 <= n PROVE HasFold(m + 1, A, base, g)  OBVIOUS
  <2>0. HasFold(m, A, base, g)  BY <1>2
  <2>1. PICK f \in [SUBSET (1 .. m) -> A] : FoldFcn(f, m, base, g)  BY <2>0 DEF HasFold
  <2> DEFINE ff == [s \in SUBSET (1 .. m + 1) |->
                      IF m + 1 \in s THEN g[<<f[s \ {m + 1}], m + 1>>] ELSE f[s]]
  <2>2. /\ \A s \in SUBSET (1 .. m + 1) : m + 1 \notin s => s \in SUBSET (1 .. m)
        /\ \A s \in SUBSET (1 .. m + 1) : s \ {m + 1} \in SUBSET (1 .. m)
        /\ \A s \in SUBSET (1 .. m) : m + 1 \notin s /\ s \in SUBSET (1 .. m + 1)
    OBVIOUS
  <2>3. ff \in [SUBSET (1 .. m + 1) -> A]
    <3>1. ASSUME NEW s \in SUBSET (1 .. m + 1), m + 1 \in s
          PROVE  g[<<f[s \ {m + 1}], m + 1>>] \in A
      <4>1. f[s \ {m + 1}] \in A  BY <2>2
      <4>2. m + 1 \in 1 .. n  OBVIOUS
      <4>3. <<f[s \ {m + 1}], m + 1>> \in A \X (1 .. n)  BY <4>1, <4>2
      <4> QED  BY <4>3
    <3>2. ASSUME NEW s \in SUBSET (1 .. m + 1), m + 1 \notin s PROVE f[s] \in A
      BY <2>2, <3>2
    <3> QED  BY <3>1, <3>2
  <2>4. \A s \in SUBSET (1 .. m + 1) :
          ff[s] = IF m + 1 \in s THEN g[<<f[s \ {m + 1}], m + 1>>] ELSE f[s]
    OBVIOUS
  <2> HIDE DEF ff
  <2>5. \A s \in SUBSET (1 .. m) : ff[s] = f[s]  BY <2>2, <2>4
  <2>6. ASSUME NEW s \in SUBSET (1 .. m + 1)
        PROVE  ff[s] = IF s = {} THEN base ELSE g[<<ff[s \ {Max(s)}], Max(s)>>]
    <3>1. CASE m + 1 \in s
      <4>1. s \in SUBSET Nat /\ \A k \in s : k <= m + 1  OBVIOUS
      <4>2. Max(s) = m + 1  BY <3>1, <4>1, MaxIs
      <4>3. ff[s \ {m + 1}] = f[s \ {m + 1}]  BY <2>2, <2>5
      <4> QED  BY <2>4, <3>1, <4>2, <4>3
    <3>2. CASE m + 1 \notin s
      <4>1. s \in SUBSET (1 .. m) /\ s \ {Max(s)} \in SUBSET (1 .. m)  BY <2>2, <3>2
      <4>2. ff[s] = f[s] /\ ff[s \ {Max(s)}] = f[s \ {Max(s)}]  BY <2>5, <4>1
      <4> QED  BY <2>1, <4>1, <4>2 DEF FoldFcn
    <3> QED  BY <3>1, <3>2
  <2>7. FoldFcn(ff, m + 1, base, g)  BY <2>6 DEF FoldFcn
  <2> QED  BY <2>3, <2>7 DEF HasFold
<1> HIDE DEF T
<1>3. n \in T  BY <1>1, <1>2, SetInduction
<1> QED  BY <1>3 DEF T

\* A nonempty set of indices has a greatest one.
LEMMA GreatestIndex ==
  ASSUME NEW n \in Nat, NEW S \in SUBSET (1 .. n), S # {}
  PROVE  \E h \in S : \A k \in S : k <= h
<1> DEFINE T == {m \in Nat : \A s \in SUBSET (1 .. m) :
                   s # {} => \E h \in s : \A k \in s : k <= h}
<1>1. 0 \in T
  <2>1. \A s \in SUBSET (1 .. 0) : s = {}  OBVIOUS
  <2> QED  BY <2>1
<1>2. ASSUME NEW m \in Nat, m \in T PROVE m + 1 \in T
  <2> SUFFICES ASSUME NEW s \in SUBSET (1 .. m + 1), s # {}
               PROVE  \E h \in s : \A k \in s : k <= h
    OBVIOUS
  <2>1. CASE m + 1 \in s
    <3>1. \A k \in s : k <= m + 1  OBVIOUS
    <3> QED  BY <2>1, <3>1
  <2>2. CASE m + 1 \notin s
    <3>1. s \in SUBSET (1 .. m)  BY <2>2
    <3> QED  BY <1>2, <3>1
  <2> QED  BY <2>1, <2>2
<1> HIDE DEF T
<1>3. n \in T  BY <1>1, <1>2, SetInduction
<1> QED  BY <1>3 DEF T

LEMMA MaxIsIndex ==
  ASSUME NEW n \in Nat, NEW S \in SUBSET (1 .. n), S # {}
  PROVE  Max(S) \in S
<1>1. PICK h \in S : \A k \in S : k <= h  BY GreatestIndex
<1>2. S \in SUBSET Nat  OBVIOUS
<1> QED  BY <1>1, <1>2, MaxIs

LEMMA UpTo ==
  ASSUME NEW n \in Nat, NEW k \in 1 .. n
  PROVE  /\ 1 .. k \in SUBSET (1 .. n) /\ 1 .. k # {}
         /\ (1 .. k) \ {k} = 1 .. k - 1 /\ Max(1 .. k) = k
<1>1. 1 .. k \in SUBSET Nat /\ k \in 1 .. k /\ \A j \in 1 .. k : j <= k  OBVIOUS
<1>2. Max(1 .. k) = k  BY <1>1, MaxIs
<1> QED  BY <1>2

-----------------------------------------------------------------------------
(* The scan of a diff.                                                     *)

LEMMA ScanTyped ==
  ASSUME NEW s \in ScanState, NEW l \in DiffLine PROVE ScanLine(s, l) \in ScanState
<1>1. /\ s.inHunk \in BOOLEAN /\ s.line \in Nat /\ s.changed \in SUBSET Nat
      /\ l.start \in Nat /\ s.line + 1 \in Nat
  <2>1. s.inHunk \in BOOLEAN /\ s.line \in Nat /\ s.changed \in SUBSET Nat
    BY DEF ScanState
  <2>2. l.start \in Nat  BY DEF DiffLine
  <2> QED  BY <2>1, <2>2
<1>2. [s EXCEPT !.inHunk = TRUE, !.line = l.start] \in ScanState  BY <1>1 DEF ScanState
<1>3. [s EXCEPT !.line = @ + 1, !.changed = @ \cup {s.line}] \in ScanState
  BY <1>1 DEF ScanState
<1>4. [s EXCEPT !.line = @ + 1] \in ScanState  BY <1>1 DEF ScanState
<1> QED  BY <1>1, <1>2, <1>3, <1>4 DEF ScanLine

\* changedLineRanges goes through the diff line by line.
LEMMA ScanSteps ==
  ASSUME NEW p \in Seq(DiffLine)
  PROVE  \E h : /\ h[0] = Before1stHunk
                /\ \A k \in 1 .. Len(p) : h[k] = ScanLine(h[k - 1], p[k])
                /\ changedLineRanges(p) = h[Len(p)].changed
<1> DEFINE n == Len(p)
           g == [ak \in ScanState \X (1 .. n) |-> ScanLine(ak[1], p[ak[2]])]
           Step(a, l) == [t \in ScanState |-> ScanLine(t, l)][a]
           Is(f) == f = [s \in SUBSET DOMAIN p |->
                           IF s = {} THEN Before1stHunk
                           ELSE Step(f[s \ {Max(s)}], p[Max(s)])]
           iter == CHOOSE f : Is(f)
<1>1. n \in Nat /\ DOMAIN p = 1 .. n  OBVIOUS
<1>2. Before1stHunk \in ScanState  BY DEF Before1stHunk, ScanState
<1>3. g \in [ScanState \X (1 .. n) -> ScanState]
  <2>1. \A ak \in ScanState \X (1 .. n) : ak[1] \in ScanState /\ p[ak[2]] \in DiffLine
    OBVIOUS
  <2> QED  BY <2>1, ScanTyped
<1>4. HasFold(n, ScanState, Before1stHunk, g)
  <2> HIDE DEF g, n
  <2> QED  BY <1>1, <1>2, <1>3, FoldExists
<1>5. \E f : Is(f)
  <2>1. PICK f \in [SUBSET (1 .. n) -> ScanState] : FoldFcn(f, n, Before1stHunk, g)
    BY <1>4 DEF HasFold
  <2>2. ASSUME NEW s \in SUBSET (1 .. n), s # {}
        PROVE  f[s] = Step(f[s \ {Max(s)}], p[Max(s)])
    <3>1. Max(s) \in 1 .. n /\ s \ {Max(s)} \in SUBSET (1 .. n)
      BY <1>1, <2>2, MaxIsIndex
    <3>2. <<f[s \ {Max(s)}], Max(s)>> \in ScanState \X (1 .. n)  BY <3>1
    <3>3. f[s] = g[<<f[s \ {Max(s)}], Max(s)>>]  BY <2>1, <2>2 DEF FoldFcn
    <3>4. f[s] = ScanLine(f[s \ {Max(s)}], p[Max(s)])  BY <3>2, <3>3
    <3>5. f[s \ {Max(s)}] \in ScanState  BY <3>1
    <3> QED  BY <3>4, <3>5
  <2>3. f[{}] = Before1stHunk
    <3>1. {} \in SUBSET (1 .. n)  OBVIOUS
    <3> QED  BY <2>1, <3>1 DEF FoldFcn
  <2>4. Is(f)
    <3> HIDE DEF g, Step
    <3> QED  BY <1>1, <2>2, <2>3
  <2> QED  BY <2>4
<1>6. Is(iter)
  <2> HIDE DEF Is
  <2> QED  BY <1>5
<1>7. changedLineRanges(p) = iter[1 .. n].changed
  BY <1>1 DEF changedLineRanges, FoldLeft, MapThenFoldSet, Step
<1> HIDE DEF iter, g, n
<1>8. iter[1 .. 0] = Before1stHunk
  <2>1. 1 .. 0 = {} /\ {} \in SUBSET DOMAIN p  OBVIOUS
  <2> QED  BY <1>6, <2>1
<1> HIDE DEF Step
<1>9. ASSUME NEW k \in 1 .. n PROVE iter[1 .. k] = Step(iter[1 .. k - 1], p[k])
  <2>1. /\ 1 .. k \in SUBSET DOMAIN p /\ 1 .. k # {}
        /\ (1 .. k) \ {k} = 1 .. k - 1 /\ Max(1 .. k) = k
    BY <1>1, UpTo
  <2> QED  BY <1>6, <2>1
<1> DEFINE T == {k \in Nat : k <= n => iter[1 .. k] \in ScanState}
<1>10. ASSUME NEW k \in 1 .. n, iter[1 .. k - 1] \in ScanState
       PROVE  /\ iter[1 .. k] \in ScanState
              /\ iter[1 .. k] = ScanLine(iter[1 .. k - 1], p[k])
  <2>1. p[k] \in DiffLine  BY <1>1
  <2>2. iter[1 .. k] = ScanLine(iter[1 .. k - 1], p[k])  BY <1>9, <1>10 DEF Step
  <2> QED  BY <1>10, <2>1, <2>2, ScanTyped
<1>11. 0 \in T  BY <1>2, <1>8
<1>12. ASSUME NEW k \in Nat, k \in T PROVE k + 1 \in T
  <2> SUFFICES ASSUME k + 1 <= n PROVE iter[1 .. k + 1] \in ScanState  OBVIOUS
  <2>1. k + 1 \in 1 .. n /\ (k + 1) - 1 = k /\ iter[1 .. k] \in ScanState
    BY <1>1, <1>12
  <2>2. iter[1 .. (k + 1) - 1] \in ScanState  BY <2>1
  <2> QED  BY <1>10, <2>1, <2>2
<1> HIDE DEF T
<1>13. ASSUME NEW k \in 1 .. n PROVE iter[1 .. k] = ScanLine(iter[1 .. k - 1], p[k])
  <2>1. k - 1 \in Nat /\ k - 1 <= n  BY <1>1
  <2>2. k - 1 \in T  BY <1>11, <1>12, <2>1, SetInduction
  <2>3. iter[1 .. k - 1] \in ScanState  BY <2>1, <2>2 DEF T
  <2> QED  BY <1>10, <2>3
<1> DEFINE h == [k \in 0 .. n |-> iter[1 .. k]]
<1>14. h[0] = Before1stHunk /\ h[n] = iter[1 .. n]  BY <1>1, <1>8
<1>15. \A k \in 1 .. n : h[k] = ScanLine(h[k - 1], p[k])
  <2> SUFFICES ASSUME NEW k \in 1 .. n PROVE h[k] = ScanLine(h[k - 1], p[k])  OBVIOUS
  <2>1. k \in 0 .. n /\ k - 1 \in 0 .. n  BY <1>1
  <2> QED  BY <1>13, <2>1
<1> HIDE DEF h
<1> QED  BY <1>7, <1>14, <1>15 DEF n

\* AddedLines in parts: the headers before diff line i, the last of them, and
\* the number that line has, or would have, in the new file.
IsHeader(p, k) == p[k].kind = "@@" /\ p[k].start # NoStart
Headers(p, i) == {h \in 1 .. i - 1 : IsHeader(p, h)}
LastHeader(p, i) == CHOOSE h \in Headers(p, i) : \A g \in Headers(p, i) : g <= h
Advancing(p, i) == {k \in LastHeader(p, i) + 1 .. i - 1 : p[k].kind \in {"+", " "}}
NewLine(p, i) == p[LastHeader(p, i)].start + Cardinality(Advancing(p, i))
Adds(p, n) == {k \in 1 .. n : p[k].kind = "+" /\ Headers(p, k) # {}}
AddedIn(p, n) == {NewLine(p, k) : k \in Adds(p, n)}

LEMMA AddedLinesAre == ASSUME NEW p \in Seq(DiffLine) PROVE AddedLines(p) = AddedIn(p, Len(p))
<1>1. DOMAIN p = 1 .. Len(p)  OBVIOUS
<1> QED
  BY <1>1 DEF AddedLines, AddedIn, Adds, NewLine, Advancing, LastHeader, Headers, IsHeader

\* What a header does to the numbering, and what another line does.
LEMMA AfterHeader ==
  ASSUME NEW p \in Seq(DiffLine), NEW k \in 1 .. Len(p), IsHeader(p, k)
  PROVE  /\ Headers(p, k + 1) # {} /\ LastHeader(p, k + 1) \in Headers(p, k + 1)
         /\ NewLine(p, k + 1) = p[k].start
<1>1. k \in Headers(p, k + 1) /\ \A g \in Headers(p, k + 1) : g <= k /\ g \in Nat
  BY DEF Headers
<1>2. LastHeader(p, k + 1) = k
  <2>1. \A h \in Headers(p, k + 1) : (\A g \in Headers(p, k + 1) : g <= h) => h = k
    BY <1>1
  <2> QED  BY <1>1, <2>1 DEF LastHeader
<1>3. Advancing(p, k + 1) = {}
  <2>1. k + 1 .. (k + 1) - 1 = {}  OBVIOUS
  <2> QED  BY <1>2, <2>1 DEF Advancing
<1>4. p[k].start \in Nat
  <2>1. p[k] \in DiffLine  OBVIOUS
  <2> QED  BY <2>1 DEF DiffLine
<1>5. NewLine(p, k + 1) = p[k].start + 0  BY <1>2, <1>3, FS_EmptySet DEF NewLine
<1>6. NewLine(p, k + 1) = p[k].start  BY <1>4, <1>5
<1> QED  BY <1>1, <1>2, <1>6

LEMMA AfterLine ==
  ASSUME NEW p \in Seq(DiffLine), NEW k \in 1 .. Len(p), ~IsHeader(p, k)
  PROVE  /\ Headers(p, k + 1) = Headers(p, k) /\ LastHeader(p, k + 1) = LastHeader(p, k)
         /\ LastHeader(p, k) \in Headers(p, k) =>
              /\ NewLine(p, k) \in Nat
              /\ NewLine(p, k + 1) =
                   IF p[k].kind \in {"+", " "} THEN NewLine(p, k) + 1 ELSE NewLine(p, k)
<1>1. Headers(p, k + 1) = Headers(p, k)
  <2>1. 1 .. (k + 1) - 1 = (1 .. k - 1) \cup {k}  OBVIOUS
  <2> QED  BY <2>1 DEF Headers
<1>2. LastHeader(p, k + 1) = LastHeader(p, k)  BY <1>1 DEF LastHeader
<1>3. ASSUME LastHeader(p, k) \in Headers(p, k)
      PROVE  /\ NewLine(p, k) \in Nat
             /\ NewLine(p, k + 1) =
                  IF p[k].kind \in {"+", " "} THEN NewLine(p, k) + 1 ELSE NewLine(p, k)
  <2> DEFINE m == LastHeader(p, k)
  <2>1. m \in 1 .. k - 1 /\ m \in 1 .. Len(p)  BY <1>3 DEF Headers
  <2>2. p[m].start \in Nat
    <3>1. p[m] \in DiffLine  BY <2>1
    <3> QED  BY <3>1 DEF DiffLine
  <2>3. IsFiniteSet(Advancing(p, k)) /\ Cardinality(Advancing(p, k)) \in Nat
    <3>1. Advancing(p, k) \in SUBSET (m + 1 .. k - 1)  BY DEF Advancing
    <3>2. IsFiniteSet(m + 1 .. k - 1)  BY <2>1, FS_Interval
    <3>3. IsFiniteSet(Advancing(p, k))  BY <3>1, <3>2, FS_Subset
    <3> QED  BY <3>3, FS_CardinalityType
  <2>4. PICK c \in Nat : c = Cardinality(Advancing(p, k))  BY <2>3
  <2>5. PICK start \in Nat : start = p[m].start  BY <2>2
  <2>6. NewLine(p, k) = start + c  BY <2>4, <2>5 DEF NewLine
  <2>7. NewLine(p, k + 1) = start + Cardinality(Advancing(p, k + 1))
    BY <1>2, <2>5 DEF NewLine
  <2>8. m + 1 .. (k + 1) - 1 = (m + 1 .. k - 1) \cup {k} /\ k \notin m + 1 .. k - 1  BY <2>1
  <2>9. CASE p[k].kind \in {"+", " "}
    <3>1. Advancing(p, k + 1) = Advancing(p, k) \cup {k} /\ k \notin Advancing(p, k)
      BY <1>2, <2>8, <2>9 DEF Advancing
    <3>2. Cardinality(Advancing(p, k + 1)) = c + 1
      BY <2>3, <2>4, <3>1, FS_AddElement
    <3>3. NewLine(p, k + 1) = start + (c + 1)  BY <2>7, <3>2
    <3>4. NewLine(p, k) \in Nat /\ NewLine(p, k + 1) = NewLine(p, k) + 1  BY <2>6, <3>3
    <3> QED  BY <2>9, <3>4
  <2>10. CASE p[k].kind \notin {"+", " "}
    <3>1. Advancing(p, k + 1) = Advancing(p, k)  BY <1>2, <2>8, <2>10 DEF Advancing
    <3>2. NewLine(p, k) \in Nat /\ NewLine(p, k + 1) = NewLine(p, k)
      BY <2>4, <2>6, <2>7, <3>1
    <3> QED  BY <2>10, <3>2
  <2> QED  BY <2>9, <2>10
<1> QED  BY <1>1, <1>2, <1>3

\* The state of the scan after k lines.
ScanIs(s, p, k) ==
  /\ s \in ScanState
  /\ s.inHunk <=> Headers(p, k + 1) # {}
  /\ s.inHunk => LastHeader(p, k + 1) \in Headers(p, k + 1) /\ s.line = NewLine(p, k + 1)
  /\ s.changed = AddedIn(p, k)

LEMMA ScanStarts == ASSUME NEW p \in Seq(DiffLine) PROVE ScanIs(Before1stHunk, p, 0)
<1>1. Headers(p, 0 + 1) = {}  BY DEF Headers
<1>2. AddedIn(p, 0) = {}  BY DEF AddedIn, Adds
<1> QED  BY <1>1, <1>2 DEF ScanIs, Before1stHunk, ScanState

LEMMA ScanGoesOn ==
  ASSUME NEW p \in Seq(DiffLine), NEW k \in 1 .. Len(p), NEW s, ScanIs(s, p, k - 1)
  PROVE  ScanIs(ScanLine(s, p[k]), p, k)
<1> DEFINE l == p[k]
           t == ScanLine(s, l)
<1> SUFFICES ScanIs(t, p, k)  OBVIOUS
<1>1. l \in DiffLine /\ s \in ScanState /\ t \in ScanState /\ (k - 1) + 1 = k
  BY ScanTyped DEF ScanIs
<1>2. l.kind \in {"@@", "+", "-", " ", "\\"} /\ l.start \in Nat  BY <1>1 DEF DiffLine
<1>3. /\ s.inHunk \in BOOLEAN /\ s.line \in Nat /\ s.changed \in SUBSET Nat
      /\ s.inHunk <=> Headers(p, k) # {}
      /\ s.inHunk => LastHeader(p, k) \in Headers(p, k) /\ s.line = NewLine(p, k)
      /\ s.changed = AddedIn(p, k - 1)
  <2>1. s.inHunk \in BOOLEAN /\ s.line \in Nat /\ s.changed \in SUBSET Nat
    BY <1>1 DEF ScanState
  <2> QED  BY <1>1, <2>1 DEF ScanIs
<1>4. Adds(p, k) = IF l.kind = "+" /\ Headers(p, k) # {} THEN Adds(p, k - 1) \cup {k}
                                                         ELSE Adds(p, k - 1)
  <2>1. 1 .. k = (1 .. k - 1) \cup {k}  OBVIOUS
  <2> QED  BY <2>1 DEF Adds
<1>5. CASE IsHeader(p, k)
  <2>1. l.kind = "@@" /\ l.start # NoStart  BY <1>5 DEF IsHeader
  <2>2. t = [s EXCEPT !.inHunk = TRUE, !.line = l.start]  BY <2>1 DEF ScanLine
  <2>3. t.inHunk = TRUE /\ t.line = l.start /\ t.changed = s.changed
    BY <1>1, <2>2 DEF ScanState
  <2>4. AddedIn(p, k) = AddedIn(p, k - 1)  BY <1>4, <2>1 DEF AddedIn
  <2> HIDE DEF t
  <2> QED  BY <1>1, <1>3, <1>5, <2>3, <2>4, AfterHeader DEF ScanIs
<1>6. CASE ~IsHeader(p, k) /\ (~s.inHunk \/ l.kind \in {"@@", "\\", "-"})
  <2>1. ~(l.kind = "@@" /\ l.start # NoStart)  BY <1>6 DEF IsHeader
  <2>2. t = s  BY <1>2, <1>3, <1>6, <2>1 DEF ScanLine
  <2>3. AddedIn(p, k) = AddedIn(p, k - 1)  BY <1>3, <1>4, <1>6 DEF AddedIn
  <2>4. s.inHunk => NewLine(p, k + 1) = NewLine(p, k)
    <3> SUFFICES ASSUME s.inHunk PROVE NewLine(p, k + 1) = NewLine(p, k)  OBVIOUS
    <3>1. l.kind \notin {"+", " "}  BY <1>6
    <3> QED  BY <1>3, <1>6, <3>1, AfterLine
  <2>5. Headers(p, k + 1) = Headers(p, k) /\ LastHeader(p, k + 1) = LastHeader(p, k)
    BY <1>6, AfterLine
  <2> HIDE DEF t
  <2> QED  BY <1>1, <1>3, <2>2, <2>3, <2>4, <2>5 DEF ScanIs
<1>7. CASE ~IsHeader(p, k) /\ s.inHunk /\ l.kind \in {"+", " "}
  <2>1. /\ Headers(p, k + 1) = Headers(p, k) /\ LastHeader(p, k + 1) = LastHeader(p, k)
        /\ NewLine(p, k + 1) = NewLine(p, k) + 1
    BY <1>3, <1>7, AfterLine
  <2>2. CASE l.kind = "+"
    <3>1. t = [s EXCEPT !.line = @ + 1, !.changed = @ \cup {s.line}]
      BY <1>3, <1>7, <2>2 DEF ScanLine
    <3>2. t.inHunk = s.inHunk /\ t.line = s.line + 1 /\ t.changed = s.changed \cup {s.line}
      BY <1>1, <3>1 DEF ScanState
    <3>3. AddedIn(p, k) = AddedIn(p, k - 1) \cup {NewLine(p, k)}
      <4>1. Adds(p, k) = Adds(p, k - 1) \cup {k}  BY <1>3, <1>4, <1>7, <2>2
      <4> QED  BY <4>1 DEF AddedIn
    <3> HIDE DEF t
    <3> QED  BY <1>1, <1>3, <1>7, <2>1, <3>2, <3>3 DEF ScanIs
  <2>3. CASE l.kind = " "
    <3>1. t = [s EXCEPT !.line = @ + 1]  BY <1>3, <1>7, <2>3 DEF ScanLine
    <3>2. t.inHunk = s.inHunk /\ t.line = s.line + 1 /\ t.changed = s.changed
      BY <1>1, <3>1 DEF ScanState
    <3>3. AddedIn(p, k) = AddedIn(p, k - 1)  BY <1>4, <2>3 DEF AddedIn
    <3> HIDE DEF t
    <3> QED  BY <1>1, <1>3, <1>7, <2>1, <3>2, <3>3 DEF ScanIs
  <2> QED  BY <1>7, <2>2, <2>3
<1> QED  BY <1>2, <1>3, <1>5, <1>6, <1>7

\* For every diff, changedLineRanges is the set of lines the diff adds: the
\* anchor of a comment is not off by the removed lines, the markers of a
\* missing newline or the headers before it.
THEOREM ChangedLinesAreAdded ==
  ASSUME NEW p \in Seq(DiffLine) PROVE changedLineRanges(p) = AddedLines(p)
<1>1. PICK h : /\ h[0] = Before1stHunk
               /\ \A k \in 1 .. Len(p) : h[k] = ScanLine(h[k - 1], p[k])
               /\ changedLineRanges(p) = h[Len(p)].changed
  BY ScanSteps
<1> DEFINE T == {k \in Nat : k <= Len(p) => ScanIs(h[k], p, k)}
<1>2. 0 \in T  BY <1>1, ScanStarts
<1>3. ASSUME NEW k \in Nat, k \in T PROVE k + 1 \in T
  <2> SUFFICES ASSUME k + 1 <= Len(p) PROVE ScanIs(h[k + 1], p, k + 1)  OBVIOUS
  <2>1. k + 1 \in 1 .. Len(p) /\ (k + 1) - 1 = k  OBVIOUS
  <2>2. ScanIs(h[k], p, k)  BY <1>3
  <2>3. h[k + 1] = ScanLine(h[k], p[k + 1])  BY <1>1, <2>1
  <2> QED  BY <2>1, <2>2, <2>3, ScanGoesOn
<1> HIDE DEF T
<1>4. Len(p) \in Nat /\ Len(p) \in T  BY <1>2, <1>3, SetInduction
<1>5. ScanIs(h[Len(p)], p, Len(p))  BY <1>4 DEF T
<1> QED  BY <1>1, <1>5, AddedLinesAre DEF ScanIs

\* What is added in a prefix of a diff is added in the diff.
LEMMA AddedInPrefix ==
  ASSUME NEW p \in Seq(DiffLine), NEW n \in 0 .. Len(p)
  PROVE  /\ SubSeq(p, 1, n) \in Seq(DiffLine)
         /\ AddedLines(SubSeq(p, 1, n)) \subseteq AddedLines(p)
<1> DEFINE q == SubSeq(p, 1, n)
<1>1. q \in Seq(DiffLine) /\ Len(q) = n /\ \A k \in 1 .. n : q[k] = p[k]
  <2>1. n \in 0 .. Len(p)  OBVIOUS
  <2> QED  BY <2>1, SubSeqProperties
<1> HIDE DEF q
<1>2. \A k \in 1 .. n : Headers(q, k) = Headers(p, k)  BY <1>1 DEF Headers, IsHeader
<1>3. ASSUME NEW k \in Adds(q, n) PROVE k \in Adds(p, Len(p)) /\ NewLine(q, k) = NewLine(p, k)
  <2>1. k \in 1 .. n /\ k \in 1 .. Len(p)  BY DEF Adds
  <2>2. Headers(q, k) = Headers(p, k) /\ q[k] = p[k]  BY <1>1, <1>2, <2>1
  <2>3. k \in Adds(p, Len(p))  BY <2>1, <2>2 DEF Adds
  <2>4. LastHeader(q, k) = LastHeader(p, k)  BY <2>2 DEF LastHeader
  <2>5. LastHeader(p, k) \in Headers(p, k)
    <3>1. Headers(p, k) # {} /\ Headers(p, k) \in SUBSET (1 .. k - 1) /\ k - 1 \in Nat
      BY <2>1, <2>3 DEF Adds, Headers
    <3>2. \E h \in Headers(p, k) : \A g \in Headers(p, k) : g <= h
      BY <3>1, GreatestIndex
    <3> QED  BY <3>2 DEF LastHeader
  <2>6. LastHeader(p, k) \in 1 .. n  BY <2>1, <2>5 DEF Headers
  <2>7. Advancing(q, k) = Advancing(p, k)
    <3>1. \A j \in LastHeader(p, k) + 1 .. k - 1 : q[j] = p[j]
      BY <1>1, <2>1, <2>6
    <3> QED  BY <2>4, <3>1 DEF Advancing
  <2>8. q[LastHeader(q, k)] = p[LastHeader(p, k)]  BY <1>1, <2>4, <2>6
  <2> QED  BY <2>3, <2>7, <2>8 DEF NewLine
<1>4. AddedIn(q, Len(q)) \subseteq AddedIn(p, Len(p))  BY <1>1, <1>3 DEF AddedIn
<1>5. AddedLines(q) \subseteq AddedLines(p)  BY <1>1, <1>4, AddedLinesAre
<1> QED  BY <1>1, <1>5 DEF q

-----------------------------------------------------------------------------
(* What the loops over findings and rules return.                          *)

\* At returns elements of the sequence at the indices it is given.
LEMMA AtType ==
  ASSUME NEW D, NEW s \in Seq(D), NEW I \in SUBSET (1 .. Len(s))
  PROVE  At(s, I) \in Seq({s[i] : i \in I})
<1> DEFINE m == Len(s)
           A == Seq({s[i] : i \in I})
           g == [ak \in Seq(D) \X (1 .. m) |-> Append(ak[1], s[ak[2]])]
           Is(f) == f = [t \in SUBSET I |->
                           IF t = {} THEN <<>> ELSE Append(f[t \ {Max(t)}], s[Max(t)])]
           iter == CHOOSE f : Is(f)
<1>1. m \in Nat /\ I \in SUBSET (1 .. m) /\ \A k \in 1 .. m : s[k] \in D  OBVIOUS
<1>2. HasFold(m, Seq(D), <<>>, g)
  <2>1. g \in [Seq(D) \X (1 .. m) -> Seq(D)]
    <3>1. \A ak \in Seq(D) \X (1 .. m) : ak[1] \in Seq(D) /\ s[ak[2]] \in D  BY <1>1
    <3>2. \A ak \in Seq(D) \X (1 .. m) : Append(ak[1], s[ak[2]]) \in Seq(D)
      BY <3>1, AppendProperties
    <3> QED  BY <3>2
  <2>2. <<>> \in Seq(D)  OBVIOUS
  <2> HIDE DEF g, m
  <2> QED  BY <1>1, <2>1, <2>2, FoldExists
<1>3. \E f : Is(f)
  <2>1. PICK f \in [SUBSET (1 .. m) -> Seq(D)] : FoldFcn(f, m, <<>>, g)
    BY <1>2 DEF HasFold
  <2>2. ASSUME NEW t \in SUBSET (1 .. m), t # {}
        PROVE  f[t] = Append(f[t \ {Max(t)}], s[Max(t)])
    <3>1. Max(t) \in 1 .. m /\ t \ {Max(t)} \in SUBSET (1 .. m)
      BY <1>1, <2>2, MaxIsIndex
    <3>2. <<f[t \ {Max(t)}], Max(t)>> \in Seq(D) \X (1 .. m)  BY <3>1
    <3>3. f[t] = g[<<f[t \ {Max(t)}], Max(t)>>]  BY <2>1, <2>2 DEF FoldFcn
    <3> QED  BY <3>2, <3>3
  <2>3. f[{}] = <<>>
    <3>1. {} \in SUBSET (1 .. m)  OBVIOUS
    <3> QED  BY <2>1, <3>1 DEF FoldFcn
  <2> DEFINE r == [t \in SUBSET I |-> f[t]]
  <2>4. \A t \in SUBSET I : t \in SUBSET (1 .. m) /\ t \ {Max(t)} \in SUBSET I  BY <1>1
  <2>5. \A t \in SUBSET I :
          r[t] = IF t = {} THEN <<>> ELSE Append(r[t \ {Max(t)}], s[Max(t)])
    BY <2>2, <2>3, <2>4
  <2>6. Is(r)
    <3> HIDE DEF g, m
    <3> QED  BY <2>5
  <2> QED  BY <2>6
<1>4. Is(iter)
  <2> HIDE DEF Is
  <2> QED  BY <1>3
<1>5. At(s, I) = iter[I]  BY DEF At, MapThenFoldSet
<1> HIDE DEF iter, g
<1> DEFINE T == {k \in Nat : \A t \in SUBSET I : t \subseteq 1 .. k => iter[t] \in A}
<1>6. 0 \in T
  <2>1. iter[{}] = <<>>
    <3>1. {} \in SUBSET I  OBVIOUS
    <3> QED  BY <1>4, <3>1
  <2>2. <<>> \in A  OBVIOUS
  <2>3. \A t \in SUBSET I : t \subseteq 1 .. 0 => t = {}  OBVIOUS
  <2> HIDE DEF A
  <2> QED  BY <2>1, <2>2, <2>3
<1>7. ASSUME NEW k \in Nat, k \in T PROVE k + 1 \in T
  <2> SUFFICES ASSUME NEW t \in SUBSET I, t \subseteq 1 .. k + 1 PROVE iter[t] \in A
    OBVIOUS
  <2>1. CASE k + 1 \in t
    <3>1. t \in SUBSET Nat /\ \A j \in t : j <= k + 1  OBVIOUS
    <3>2. Max(t) = k + 1  BY <2>1, <3>1, MaxIs
    <3>3. t \ {k + 1} \in SUBSET I /\ t \ {k + 1} \subseteq 1 .. k  OBVIOUS
    <3>4. iter[t \ {k + 1}] \in A  BY <1>7, <3>3
    <3>5. iter[t] = Append(iter[t \ {k + 1}], s[k + 1])  BY <1>4, <2>1, <3>2
    <3>6. s[k + 1] \in {s[i] : i \in I}  BY <2>1
    <3> QED  BY <3>4, <3>5, <3>6, AppendProperties
  <2>2. CASE k + 1 \notin t
    <3>1. t \subseteq 1 .. k  BY <2>2
    <3> QED  BY <1>7, <3>1
  <2> QED  BY <2>1, <2>2
<1> HIDE DEF T
<1>8. m \in T  BY <1>1, <1>6, <1>7, SetInduction
<1>9. iter[I] \in A
  <2> HIDE DEF A
  <2> QED  BY <1>1, <1>8 DEF T
<1> QED  BY <1>5, <1>9

\* Flattening keeps to the elements of the sequences it joins.
LEMMA FlattenType ==
  ASSUME NEW C, NEW ss \in Seq(Seq(C)) PROVE FlattenSeq(ss) \in Seq(C)
<1> DEFINE n == Len(ss)
           A == Seq(C)
           g == [ai \in A \X (1 .. n) |-> ai[1] \o ss[ai[2]]]
           Is(f) == f = [i \in 1 .. n |-> IF i = 1 THEN ss[i] ELSE f[i - 1] \o ss[i]]
           flat == CHOOSE f : Is(f)
<1>1. n \in Nat /\ \A i \in 1 .. n : ss[i] \in A  OBVIOUS
<1>2. <<>> \in A /\ \A x, y \in A : x \o y \in A /\ <<>> \o x = x
  BY ConcatProperties, ConcatEmptySeq
<1>3. CASE n = 0
  <2>1. FlattenSeq(ss) = ss /\ ss = <<>>  BY <1>3 DEF FlattenSeq
  <2> QED  BY <2>1
<1>4. CASE n # 0
  <2> HIDE DEF A
  <2>1. g \in [A \X (1 .. n) -> A]
    <3> HIDE DEF n
    <3>1. \A ai \in A \X (1 .. n) : ai[1] \in A /\ ai[2] \in 1 .. n  OBVIOUS
    <3>2. \A ai \in A \X (1 .. n) : ai[1] \o ss[ai[2]] \in A  BY <1>1, <1>2, <3>1
    <3> QED  BY <3>2
  <2>2. PICK h \in [0 .. n -> A] :
          h[0] = <<>> /\ \A k \in 1 .. n : h[k] = g[<<h[k - 1], k>>]
    <3>1. n \in Nat /\ <<>> \in A  BY <1>1, <1>2
    <3> HIDE DEF g, n
    <3>2. HasIterates(n, A, <<>>, g)  BY <2>1, <3>1, Iterates
    <3> QED  BY <3>2 DEF HasIterates
  <2>3. \A k \in 1 .. n : h[k] = h[k - 1] \o ss[k]
    <3> SUFFICES ASSUME NEW k \in 1 .. n PROVE h[k] = h[k - 1] \o ss[k]  OBVIOUS
    <3>1. k - 1 \in 0 .. n  BY <1>1
    <3>2. h[k - 1] \in A  BY <3>1
    <3>3. <<h[k - 1], k>> \in A \X (1 .. n)  BY <3>2
    <3> QED  BY <2>2, <3>3
  <2> HIDE DEF g, n
  <2>4. h[1] = ss[1]
    <3>1. 1 \in 1 .. n /\ 1 - 1 = 0  BY <1>1, <1>4
    <3> QED  BY <1>1, <1>2, <2>2, <2>3, <3>1
  <2>5. Is([k \in 1 .. n |-> h[k]])
    <3> DEFINE f == [k \in 1 .. n |-> h[k]]
    <3>1. \A i \in 1 .. n : i # 1 => i - 1 \in 1 .. n  BY <1>1
    <3>2. \A i \in 1 .. n : f[i] = IF i = 1 THEN ss[i] ELSE f[i - 1] \o ss[i]
      BY <2>3, <2>4, <3>1
    <3> QED  BY <3>2
  <2>6. Is(flat)
    <3> HIDE DEF Is
    <3> QED  BY <2>5
  <2>7. FlattenSeq(ss) = flat[n]  BY <1>4 DEF FlattenSeq, n
  <2> HIDE DEF flat
  <2> DEFINE T == {k \in Nat : k + 1 <= n => flat[k + 1] \in A}
  <2>8. 0 \in T
    <3>1. 1 \in 1 .. n  BY <1>1, <1>4
    <3>2. flat[1] = ss[1]  BY <2>6, <3>1
    <3> QED  BY <1>1, <3>1, <3>2
  <2>9. ASSUME NEW k \in Nat, k \in T PROVE k + 1 \in T
    <3> SUFFICES ASSUME (k + 1) + 1 <= n PROVE flat[(k + 1) + 1] \in A  OBVIOUS
    <3>1. /\ (k + 1) + 1 \in 1 .. n /\ (k + 1) + 1 # 1 /\ ((k + 1) + 1) - 1 = k + 1
          /\ flat[k + 1] \in A
      BY <1>1, <2>9
    <3>2. flat[(k + 1) + 1] = flat[k + 1] \o ss[(k + 1) + 1]  BY <2>6, <3>1
    <3> QED  BY <1>1, <1>2, <3>1, <3>2
  <2> HIDE DEF T
  <2>10. Nat \subseteq T  BY <2>8, <2>9, SetInduction
  <2>11. n - 1 \in Nat /\ (n - 1) + 1 = n  BY <1>1, <1>4
  <2>12. flat[n] \in A
    <3>1. n - 1 \in T  BY <2>10, <2>11
    <3>2. flat[(n - 1) + 1] \in A  BY <1>1, <2>11, <3>1 DEF T
    <3> QED  BY <2>11, <3>2
  <2> QED  BY <2>7, <2>12 DEF A
<1> HIDE DEF n
<1> QED  BY <1>3, <1>4

LEMMA WiderSeq ==
  ASSUME NEW B, NEW C, B \subseteq C, NEW s \in Seq(B) PROVE s \in Seq(C)
OBVIOUS

\* What becomes a comment is a finding of the model, on a changed line or on a
\* file as a whole, and severe enough.
LEMMA ConvertType ==
  ASSUME NEW D, NEW s \in Seq(D), NEW cfg, cfg.maxComments \in Nat, NEW changed
  PROVE  convertFindings(s, cfg, changed) \in
           Seq({f \in {s[i] : i \in 1 .. Len(s)} : /\ InChangedLines(changed[f.file], f.line)
                                                 /\ Rank(f.sev) >= Rank(cfg.threshold)})
<1> DEFINE Keep(f) == /\ InChangedLines(changed[f.file], f.line)
                      /\ Rank(f.sev) >= Rank(cfg.threshold)
           I == {i \in DOMAIN s : Keep(s[i])}
           C == {f \in {s[i] : i \in 1 .. Len(s)} : Keep(f)}
           n == IF Len(At(s, I)) < cfg.maxComments THEN Len(At(s, I)) ELSE cfg.maxComments
<1>1. convertFindings(s, cfg, changed) = SubSeq(At(s, I), 1, n)  BY DEF convertFindings
<1>2. Len(s) \in Nat /\ DOMAIN s = 1 .. Len(s)  OBVIOUS
<1>3. I \in SUBSET (1 .. Len(s)) /\ {s[i] : i \in I} \subseteq C
  <2> HIDE DEF Keep
  <2> QED  BY <1>2
<1> HIDE DEF I, C
<1>4. At(s, I) \in Seq(C)
  <2>1. At(s, I) \in Seq({s[i] : i \in I})  BY <1>3, AtType
  <2> QED  BY <1>3, <2>1, WiderSeq
<1>5. n \in 0 .. Len(At(s, I))  BY <1>4
<1>6. SubSeq(At(s, I), 1, n) \in Seq(C)
  <2> DEFINE out == At(s, I)
  <2> HIDE DEF out, n
  <2>1. out \in Seq(C) /\ n \in 0 .. Len(out)  BY <1>4, <1>5 DEF out
  <2>2. \A k \in 1 .. n : out[k] \in C  BY <2>1
  <2>3. SubSeq(out, 1, n) \in Seq(C)  BY <2>1, <2>2
  <2> QED  BY <2>3 DEF out
<1> QED  BY <1>1, <1>6 DEF C
=============================================================================
