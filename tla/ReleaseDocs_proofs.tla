------------------------- MODULE ReleaseDocs_proofs -------------------------
(* Theorems about ReleaseDocs, with proofs for TLAPS.                      *)
EXTENDS ReleaseDocs, SequenceTheorems, FiniteSetTheorems, WellFoundedInduction, TLAPS

-----------------------------------------------------------------------------
(* Searching and splicing texts.                                           *)

LEMMA LeastNat ==
  ASSUME NEW T \in SUBSET Nat, T # {}
  PROVE  Min(T) \in T
<1>1. PICK x \in T : \A y \in T : ~ (<<y, x>> \in OpToRel(<, Nat))
  BY NatLessThanWellFounded, WFMin
<1>2. \A y \in T : x =< y
  <2> SUFFICES ASSUME NEW y \in T PROVE x =< y
    OBVIOUS
  <2>1. <<y, x>> \in Nat \X Nat  OBVIOUS
  <2>2. ~ (y < x)  BY <1>1, <2>1 DEF OpToRel
  <2> QED  BY <2>2
<1> QED  BY <1>1, <1>2 DEF Min

\* What is found is there, and what is there is found.
LEMMA FirstIndexFinds ==
  ASSUME NEW S, NEW s \in Seq(S), NEW x
  PROVE  /\ FirstIndex(s, x) \in 0 .. Len(s)
         /\ FirstIndex(s, x) > 0 => s[FirstIndex(s, x)] = x
         /\ FirstIndex(s, x) = 0 => \A i \in 1 .. Len(s) : s[i] # x
<1> DEFINE I == {i \in 1 .. Len(s) : s[i] = x}
<1>1. FirstIndex(s, x) = IF I # {} THEN Min(I) ELSE 0
  BY DEF FirstIndex, SelectInSeq
<1>2. Len(s) \in Nat  OBVIOUS
<1>3. I \in SUBSET Nat  BY <1>2
<1> HIDE DEF I
<1>4. I # {} => Min(I) \in I  BY <1>3, LeastNat
<1>5. CASE I = {}
  BY <1>1, <1>2, <1>5 DEF I
<1>6. CASE I # {}
  <2>1. FirstIndex(s, x) \in I  BY <1>1, <1>4, <1>6
  <2>2. FirstIndex(s, x) \in 1 .. Len(s) /\ s[FirstIndex(s, x)] = x  BY <2>1 DEF I
  <2> QED  BY <1>2, <2>2
<1> QED  BY <1>5, <1>6

AllUser(body) == \A i \in DOMAIN body : body[i][1] = "user"

\* The managed section stands at b.
ManagedAt(body, b) ==
  /\ b \in DOMAIN body /\ b + 2 \in DOMAIN body
  /\ body[b] = Begin /\ body[b + 1][1] = "notes" /\ body[b + 2] = End
  /\ \A i \in DOMAIN body \ {b, b + 1, b + 2} : body[i][1] = "user"

Whole(body) == AllUser(body) \/ \E b \in DOMAIN body : ManagedAt(body, b)

Shows(body) == \E i \in DOMAIN body : body[i] = Begin

\* How often a piece stands in a text.
Once(body, u) ==
  \E i \in DOMAIN body : body[i] = u /\ \A k \in DOMAIN body : body[k] = u => k = i

Never(body, u) == \A i \in DOMAIN body : body[i] # u

LEMMA ConcatCounts ==
  ASSUME NEW S, NEW a \in Seq(S), NEW b \in Seq(S), NEW u
  PROVE  /\ Never(a, u) /\ Never(b, u) => Never(a \o b, u)
         /\ Once(a, u) /\ Never(b, u) => Once(a \o b, u)
         /\ Never(a, u) /\ Once(b, u) => Once(a \o b, u)
<1> DEFINE m == a \o b
<1>1. /\ Len(a) \in Nat /\ Len(b) \in Nat
      /\ DOMAIN a = 1..Len(a) /\ DOMAIN b = 1..Len(b)
  OBVIOUS
<1>2. /\ m \in Seq(S) /\ Len(m) = Len(a) + Len(b)
      /\ \A i \in 1..Len(a) + Len(b) : m[i] = IF i <= Len(a) THEN a[i] ELSE b[i - Len(a)]
  BY ConcatProperties
<1> HIDE DEF m
<1>3. DOMAIN m = 1..Len(a) + Len(b)  BY <1>2
<1>4. \A i \in DOMAIN a : i \in DOMAIN m /\ m[i] = a[i]  BY <1>1, <1>2, <1>3
<1>5. \A i \in DOMAIN b : Len(a) + i \in DOMAIN m /\ m[Len(a) + i] = b[i]
  <2> SUFFICES ASSUME NEW i \in DOMAIN b
               PROVE  Len(a) + i \in DOMAIN m /\ m[Len(a) + i] = b[i]
    OBVIOUS
  <2>1. /\ Len(a) + i \in 1..Len(a) + Len(b) /\ ~(Len(a) + i <= Len(a))
        /\ Len(a) + i - Len(a) = i
    BY <1>1
  <2>2. m[Len(a) + i] = b[Len(a) + i - Len(a)]  BY <1>2, <2>1
  <2> QED  BY <1>3, <2>1, <2>2
<1>6. \A i \in DOMAIN m : \/ i \in DOMAIN a /\ m[i] = a[i]
                         \/ \E k \in DOMAIN b : i = Len(a) + k /\ m[i] = b[k]
  <2> SUFFICES ASSUME NEW i \in DOMAIN m, ~(i <= Len(a))
               PROVE  \E k \in DOMAIN b : i = Len(a) + k /\ m[i] = b[k]
    BY <1>1, <1>2, <1>3
  <2>1. i - Len(a) \in DOMAIN b /\ i = Len(a) + (i - Len(a))  BY <1>1, <1>3
  <2>2. m[i] = b[i - Len(a)]  BY <1>2, <1>3
  <2> QED  BY <2>1, <2>2
<1>7. Never(a, u) /\ Never(b, u) => Never(m, u)  BY <1>6 DEF Never
<1>8. Once(a, u) /\ Never(b, u) => Once(m, u)  BY <1>4, <1>6 DEF Never, Once
<1>9. ASSUME Never(a, u), Once(b, u) PROVE Once(m, u)
  <2>1. PICK i \in DOMAIN b : b[i] = u /\ \A k \in DOMAIN b : b[k] = u => k = i
    BY <1>9 DEF Once
  <2>2. Len(a) + i \in DOMAIN m /\ m[Len(a) + i] = u  BY <1>5, <2>1
  <2>3. \A k \in DOMAIN m : m[k] = u => k = Len(a) + i  BY <1>6, <1>9, <2>1 DEF Never
  <2> QED  BY <2>2, <2>3 DEF Once
<1> QED  BY <1>7, <1>8, <1>9 DEF m

\* The texts h and t hold what the operator wrote in body, as often.
Keeps(body, h, t) ==
  \A u : u[1] = "user" =>
    /\ Never(body, u) => Never(h, u) /\ Never(t, u)
    /\ Once(body, u) => (Once(h, u) /\ Never(t, u)) \/ (Never(h, u) /\ Once(t, u))

\* A managed section between two texts.
LEMMA Sandwich ==
  ASSUME NEW h \in Seq(Pieces), NEW t \in Seq(Pieces), NEW w \in Wordings,
         NEW m, m = h \o <<Begin, Notes(w), End>> \o t
  PROVE  /\ m \in Seq(Pieces) /\ Shows(m)
         /\ AllUser(h) /\ AllUser(t) => Whole(m)
<1> DEFINE mid == <<Begin, Notes(w), End>>
<1>1. mid \in Seq(Pieces) /\ Len(mid) = 3
  <2>1. Begin \in Pieces /\ Notes(w) \in Pieces /\ End \in Pieces  BY DEF Pieces
  <2> QED  BY <2>1
<1>2. mid[1] = Begin /\ mid[2] = Notes(w) /\ mid[3] = End  OBVIOUS
<1>3. Len(h) \in Nat /\ Len(t) \in Nat /\ DOMAIN h = 1..Len(h) /\ DOMAIN t = 1..Len(t)
  OBVIOUS
<1> HIDE DEF mid
<1>4. /\ h \o mid \in Seq(Pieces) /\ Len(h \o mid) = Len(h) + 3
      /\ \A i \in 1..Len(h) + 3 : (h \o mid)[i] = IF i <= Len(h) THEN h[i] ELSE mid[i - Len(h)]
  <2>1. /\ h \o mid \in Seq(Pieces) /\ Len(h \o mid) = Len(h) + Len(mid)
        /\ \A i \in 1..Len(h) + Len(mid) :
             (h \o mid)[i] = IF i <= Len(h) THEN h[i] ELSE mid[i - Len(h)]
    BY <1>1, ConcatProperties
  <2> QED  BY <1>1, <2>1
<1>5. m = (h \o mid) \o t  BY DEF mid
<1>6. /\ m \in Seq(Pieces) /\ Len(m) = Len(h) + 3 + Len(t)
      /\ \A i \in 1..Len(h) + 3 + Len(t) :
           m[i] = IF i <= Len(h) + 3 THEN (h \o mid)[i] ELSE t[i - (Len(h) + 3)]
  <2> DEFINE l == h \o mid
  <2>1. l \in Seq(Pieces) /\ Len(l) = Len(h) + 3  BY <1>4
  <2> HIDE DEF l
  <2>2. /\ l \o t \in Seq(Pieces) /\ Len(l \o t) = Len(l) + Len(t)
        /\ \A i \in 1..Len(l) + Len(t) :
             (l \o t)[i] = IF i <= Len(l) THEN l[i] ELSE t[i - Len(l)]
    BY <2>1, ConcatProperties
  <2> QED  BY <1>5, <2>1, <2>2 DEF l
<1> DEFINE b == Len(h) + 1
<1>7. DOMAIN m = 1..Len(h) + 3 + Len(t)  BY <1>6
<1>8. m[b] = Begin /\ m[b + 1] = Notes(w) /\ m[b + 2] = End
  <2>1. m[b] = mid[1]  BY <1>3, <1>4, <1>6
  <2>2. m[b + 1] = mid[2]  BY <1>3, <1>4, <1>6
  <2>3. m[b + 2] = mid[3]  BY <1>3, <1>4, <1>6
  <2> QED  BY <1>2, <2>1, <2>2, <2>3
<1>9. b \in DOMAIN m /\ b + 2 \in DOMAIN m  BY <1>3, <1>7
<1>10. ASSUME AllUser(h), AllUser(t), NEW i \in DOMAIN m \ {b, b + 1, b + 2}
       PROVE  m[i][1] = "user"
  <2>1. CASE i <= Len(h)
    <3>1. i \in DOMAIN h /\ m[i] = h[i]  BY <1>3, <1>4, <1>6, <1>7, <2>1
    <3> QED  BY <1>10, <3>1 DEF AllUser
  <2>2. CASE i > Len(h)
    <3>1. i > Len(h) + 3  BY <1>3, <1>7, <2>2
    <3>2. i - (Len(h) + 3) \in DOMAIN t /\ m[i] = t[i - (Len(h) + 3)]
      BY <1>3, <1>6, <1>7, <3>1
    <3> QED  BY <1>10, <3>2 DEF AllUser
  <2> QED  BY <1>3, <1>7, <2>1, <2>2
<1>11. m[b + 1][1] = "notes"  BY <1>8 DEF Notes
<1>12. AllUser(h) /\ AllUser(t) => Whole(m)
  BY <1>8, <1>9, <1>10, <1>11 DEF Whole, ManagedAt
<1> QED  BY <1>6, <1>8, <1>9, <1>12 DEF Shows

\* What SpliceReleaseBody keeps is what stood around the managed section.
LEMMA SpliceParts ==
  ASSUME NEW body \in Seq(Pieces), NEW w \in Wordings
  PROVE  \E h, t \in Seq(Pieces) :
           /\ SpliceReleaseBody(body, Notes(w)) = h \o <<Begin, Notes(w), End>> \o t
           /\ Whole(body) => AllUser(h) /\ AllUser(t) /\ Keeps(body, h, t)
<1> DEFINE b == FirstIndex(body, Begin)
           e == FirstIndex(body, End)
           managed == b > 0 /\ e > b
           head == IF managed THEN SubSeq(body, 1, b - 1) ELSE body
           tail == IF managed THEN SubSeq(body, e + 1, Len(body)) ELSE <<>>
<1>1. /\ b \in 0..Len(body) /\ e \in 0..Len(body)
      /\ b > 0 => body[b] = Begin
      /\ e > 0 => body[e] = End
      /\ b = 0 => \A i \in 1..Len(body) : body[i] # Begin
      /\ e = 0 => \A i \in 1..Len(body) : body[i] # End
  BY FirstIndexFinds
<1>2. SpliceReleaseBody(body, Notes(w)) = head \o <<Begin, Notes(w), End>> \o tail
  BY DEF SpliceReleaseBody
<1> HIDE DEF b, e
<1>3. Len(body) \in Nat /\ DOMAIN body = 1..Len(body)  OBVIOUS
<1>4. /\ SubSeq(body, 1, b - 1) \in Seq(Pieces)
      /\ managed => /\ Len(SubSeq(body, 1, b - 1)) = b - 1
                    /\ \A i \in 1..b - 1 : SubSeq(body, 1, b - 1)[i] = body[i]
  <2>1. \A i \in 1..b - 1 : body[i] \in Pieces  BY <1>1, <1>3
  <2>2. 1 \in Int /\ b - 1 \in Int  BY <1>1, <1>3
  <2>3. /\ SubSeq(body, 1, b - 1) \in Seq(Pieces)
        /\ Len(SubSeq(body, 1, b - 1)) = IF 1 <= b - 1 THEN b - 1 - 1 + 1 ELSE 0
        /\ \A i \in 1 .. b - 1 - 1 + 1 : SubSeq(body, 1, b - 1)[i] = body[1 + i - 1]
    BY <2>1, <2>2, SubSeqProperties
  <2> QED  BY <1>1, <1>3, <2>3
<1>5. /\ SubSeq(body, e + 1, Len(body)) \in Seq(Pieces)
      /\ managed => /\ Len(SubSeq(body, e + 1, Len(body))) = Len(body) - e
                    /\ \A i \in 1..Len(body) - e :
                         SubSeq(body, e + 1, Len(body))[i] = body[e + i]
  <2>1. \A i \in e + 1..Len(body) : body[i] \in Pieces  BY <1>1, <1>3
  <2>2. e + 1 \in Int /\ Len(body) \in Int  BY <1>1, <1>3
  <2>3. /\ SubSeq(body, e + 1, Len(body)) \in Seq(Pieces)
        /\ Len(SubSeq(body, e + 1, Len(body))) =
             IF e + 1 <= Len(body) THEN Len(body) - (e + 1) + 1 ELSE 0
        /\ \A i \in 1 .. Len(body) - (e + 1) + 1 :
             SubSeq(body, e + 1, Len(body))[i] = body[e + 1 + i - 1]
    BY <2>1, <2>2, SubSeqProperties
  <2> DEFINE rest == SubSeq(body, e + 1, Len(body))
  <2>6. /\ rest \in Seq(Pieces)
        /\ Len(rest) = IF e + 1 <= Len(body) THEN Len(body) - (e + 1) + 1 ELSE 0
        /\ \A i \in 1 .. Len(body) - (e + 1) + 1 : rest[i] = body[e + 1 + i - 1]
    BY <2>3
  <2> HIDE DEF rest
  <2>4. Len(rest) = Len(body) - e
    <3>1. e \in Nat /\ e <= Len(body) /\ Len(body) \in Nat  BY <1>1, <1>3
    <3>2. CASE e + 1 <= Len(body)
      <4>1. Len(rest) = Len(body) - (e + 1) + 1  BY <2>6, <3>2
      <4> QED  BY <3>1, <4>1
    <3>3. CASE ~ (e + 1 <= Len(body))
      <4>1. Len(rest) = 0  BY <2>6, <3>3
      <4> QED  BY <3>1, <3>3, <4>1
    <3> QED  BY <3>2, <3>3
  <2>5. ASSUME NEW i \in 1..Len(body) - e PROVE rest[i] = body[e + i]
    <3>1. i \in 1 .. Len(body) - (e + 1) + 1 /\ e + 1 + i - 1 = e + i
      BY <1>1, <1>3
    <3> QED  BY <2>6, <3>1
  <2> QED  BY <2>4, <2>5, <2>6 DEF rest
<1>6. head \in Seq(Pieces) /\ tail \in Seq(Pieces)
  BY <1>4, <1>5
<1>7. ASSUME Whole(body) PROVE AllUser(head) /\ AllUser(tail)
  <2>1. CASE AllUser(body)
    <3>1. ~ managed  BY <1>1, <1>3, <2>1 DEF AllUser, Begin
    <3> QED  BY <2>1, <3>1 DEF AllUser
  <2>2. CASE \E p \in DOMAIN body : ManagedAt(body, p)
    <3>1. PICK p \in DOMAIN body : ManagedAt(body, p)  BY <2>2
    <3>2. p \in 1..Len(body) /\ p + 2 \in 1..Len(body)  BY <1>3, <3>1 DEF ManagedAt
    <3>3. b = p
      <4>1. b > 0 /\ b \in DOMAIN body /\ body[b][1] = "begin"
        BY <1>1, <1>3, <3>1, <3>2 DEF ManagedAt, Begin
      <4>2. body[p + 1][1] = "notes" /\ body[p + 2][1] = "end"
        BY <3>1 DEF ManagedAt, End
      <4> QED  BY <3>1, <4>1, <4>2 DEF ManagedAt
    <3>4. e = p + 2
      <4>1. e > 0 /\ e \in DOMAIN body /\ body[e][1] = "end"
        BY <1>1, <1>3, <3>1, <3>2 DEF ManagedAt, End
      <4>2. body[p][1] = "begin" /\ body[p + 1][1] = "notes"
        BY <3>1 DEF ManagedAt, Begin
      <4> QED  BY <3>1, <4>1, <4>2 DEF ManagedAt
    <3>5. managed  BY <3>2, <3>3, <3>4
    <3>6. \A i \in 1..Len(body) : i < p \/ i > p + 2 => body[i][1] = "user"
      BY <1>3, <3>1, <3>2 DEF ManagedAt
    <3>7. AllUser(head)
      <4>1. DOMAIN head = 1..b - 1 /\ \A i \in 1..b - 1 : head[i] = body[i]
        BY <1>4, <1>6, <3>5
      <4> QED  BY <1>3, <3>2, <3>3, <3>6, <4>1 DEF AllUser
    <3>8. AllUser(tail)
      <4>1. DOMAIN tail = 1..Len(body) - e /\ \A i \in 1..Len(body) - e : tail[i] = body[e + i]
        BY <1>5, <1>6, <3>5
      <4> QED  BY <1>3, <3>2, <3>4, <3>6, <4>1, SMTT(30) DEF AllUser
    <3> QED  BY <3>7, <3>8
  <2> QED  BY <1>7, <2>1, <2>2 DEF Whole
<1>8. ASSUME Whole(body) PROVE Keeps(body, head, tail)
  <2>1. CASE ~ managed
    <3>1. head = body /\ tail = <<>> /\ DOMAIN tail = {}  BY <2>1
    <3> HIDE DEF head, tail
    <3> QED  BY <3>1 DEF Keeps, Never
  <2>2. CASE managed
    <3>1. DOMAIN head = 1..b - 1 /\ \A i \in 1..b - 1 : head[i] = body[i]
      BY <1>4, <1>6, <2>2
    <3>2. DOMAIN tail = 1..Len(body) - e /\ \A i \in 1..Len(body) - e : tail[i] = body[e + i]
      BY <1>5, <1>6, <2>2
    <3>3. ~ AllUser(body)  BY <1>1, <1>3, <2>2 DEF AllUser, Begin
    <3>4. PICK p \in DOMAIN body : ManagedAt(body, p)  BY <1>8, <3>3 DEF Whole
    <3>5. b = p /\ e = p + 2
      <4>1. /\ b > 0 /\ b \in DOMAIN body /\ body[b][1] = "begin"
            /\ e > 0 /\ e \in DOMAIN body /\ body[e][1] = "end"
        BY <1>1, <1>3, <2>2 DEF Begin, End
      <4>2. /\ body[p][1] = "begin" /\ body[p + 1][1] = "notes" /\ body[p + 2][1] = "end"
        BY <3>4 DEF ManagedAt, Begin, End
      <4>3. b = p  BY <3>4, <4>1, <4>2 DEF ManagedAt
      <4>4. e = p + 2  BY <3>4, <4>1, <4>2 DEF ManagedAt
      <4> QED  BY <4>3, <4>4
    <3>6. \A i \in 1..Len(body) : body[i][1] = "user" => i < b \/ i > e
      <4>1. body[b][1] # "user" /\ body[b + 1][1] # "user" /\ body[b + 2][1] # "user"
        BY <3>4, <3>5 DEF ManagedAt, Begin, End
      <4> QED  BY <1>1, <3>5, <4>1
    <3> HIDE DEF head, tail
    <3>7. \A i \in DOMAIN head : i \in DOMAIN body /\ head[i] = body[i] /\ i < b
      BY <1>1, <1>3, <3>1
    <3>8. \A i \in DOMAIN tail : e + i \in DOMAIN body /\ tail[i] = body[e + i] /\ e + i > b
      BY <1>1, <1>3, <2>2, <3>2, <3>5
    <3>9. ASSUME NEW i \in DOMAIN body, body[i][1] = "user"
          PROVE  \/ i \in DOMAIN head
                 \/ \E k \in DOMAIN tail : i = e + k
      <4>1. CASE i < b  BY <1>1, <1>3, <3>1, <4>1
      <4>2. CASE i > e
        <5>1. i - e \in 1..Len(body) - e /\ i = e + (i - e)  BY <1>1, <1>3, <4>2
        <5> QED  BY <3>2, <5>1
      <4> QED  BY <1>3, <3>6, <3>9, <4>1, <4>2
    <3>10. ASSUME NEW u, u[1] = "user", Once(body, u)
           PROVE  (Once(head, u) /\ Never(tail, u)) \/ (Never(head, u) /\ Once(tail, u))
      <4>1. PICK i \in DOMAIN body : body[i] = u /\ \A k \in DOMAIN body : body[k] = u => k = i
        BY <3>10 DEF Once
      <4>2. CASE i \in DOMAIN head
        <5>1. Once(head, u)  BY <3>7, <4>1, <4>2 DEF Once
        <5>2. \A k \in DOMAIN tail : e + k # i
          <6>1. i < b  BY <3>7, <4>2
          <6> QED  BY <1>1, <1>3, <3>8, <6>1
        <5>3. Never(tail, u)  BY <3>8, <4>1, <5>2 DEF Never
        <5> QED  BY <5>1, <5>3
      <4>3. CASE \E k \in DOMAIN tail : i = e + k
        <5>1. PICK k \in DOMAIN tail : i = e + k  BY <4>3
        <5>2. tail[k] = u  BY <3>8, <4>1, <5>1
        <5>3. \A q \in DOMAIN tail : tail[q] = u => q = k
          <6> SUFFICES ASSUME NEW q \in DOMAIN tail, tail[q] = u PROVE q = k
            OBVIOUS
          <6>1. e + q = e + k  BY <3>8, <4>1, <5>1
          <6>2. e \in Nat /\ q \in Nat /\ k \in Nat  BY <1>1, <1>3, <3>2
          <6> QED  BY <6>1, <6>2
        <5>4. Never(head, u)
          <6>1. \A q \in DOMAIN head : q # i  BY <1>1, <1>3, <3>7, <3>8, <5>1
          <6> QED  BY <3>7, <4>1, <6>1 DEF Never
        <5> QED  BY <5>2, <5>3, <5>4 DEF Once
      <4> QED  BY <3>9, <3>10, <4>1, <4>2, <4>3
    <3>11. ASSUME NEW u, Never(body, u) PROVE Never(head, u) /\ Never(tail, u)
      BY <3>7, <3>8, <3>11 DEF Never
    <3> QED  BY <3>10, <3>11 DEF Keeps
  <2> QED  BY <2>1, <2>2
<1> HIDE DEF head, tail, managed
<1> QED  BY <1>2, <1>6, <1>7, <1>8

\* What the operator wrote stays, as often, through SpliceReleaseBody.
LEMMA SpliceCounts ==
  ASSUME NEW body \in Seq(Pieces), Whole(body), NEW w \in Wordings,
         NEW u, u[1] = "user"
  PROVE  /\ Never(body, u) => Never(SpliceReleaseBody(body, Notes(w)), u)
         /\ Once(body, u) => Once(SpliceReleaseBody(body, Notes(w)), u)
<1>1. PICK h, t \in Seq(Pieces) :
        /\ SpliceReleaseBody(body, Notes(w)) = h \o <<Begin, Notes(w), End>> \o t
        /\ Keeps(body, h, t)
  BY SpliceParts
<1> DEFINE mid == <<Begin, Notes(w), End>>
<1>2. mid \in Seq(Pieces)
  <2>1. Begin \in Pieces /\ Notes(w) \in Pieces /\ End \in Pieces  BY DEF Pieces
  <2> QED  BY <2>1
<1>3. Never(mid, u)
  <2>1. mid[1][1] = "begin" /\ mid[2][1] = "notes" /\ mid[3][1] = "end" /\ DOMAIN mid = 1..3
    BY DEF Begin, Notes, End
  <2> HIDE DEF mid
  <2> QED  BY <2>1 DEF Never
<1>4. SpliceReleaseBody(body, Notes(w)) = (h \o mid) \o t  BY <1>1
<1> HIDE DEF mid
<1>5. h \o mid \in Seq(Pieces)  BY <1>2, ConcatProperties
<1>6. /\ Never(h, u) => Never(h \o mid, u)
      /\ Once(h, u) => Once(h \o mid, u)
  BY <1>2, <1>3, ConcatCounts
<1>7. /\ Never(h \o mid, u) /\ Never(t, u) => Never((h \o mid) \o t, u)
      /\ Once(h \o mid, u) /\ Never(t, u) => Once((h \o mid) \o t, u)
      /\ Never(h \o mid, u) /\ Once(t, u) => Once((h \o mid) \o t, u)
  BY <1>5, ConcatCounts
<1> QED  BY <1>1, <1>4, <1>6, <1>7 DEF Keeps

LEMMA SpliceType ==
  ASSUME NEW body \in Seq(Pieces), NEW w \in Wordings
  PROVE  /\ SpliceReleaseBody(body, Notes(w)) \in Seq(Pieces)
         /\ Shows(SpliceReleaseBody(body, Notes(w)))
         /\ Whole(body) => Whole(SpliceReleaseBody(body, Notes(w)))
<1>1. PICK h, t \in Seq(Pieces) :
        /\ SpliceReleaseBody(body, Notes(w)) = h \o <<Begin, Notes(w), End>> \o t
        /\ Whole(body) => AllUser(h) /\ AllUser(t)
  BY SpliceParts
<1> QED  BY <1>1, Sandwich

\* A text of the operator before or after a body.
LEMMA EditKeeps ==
  ASSUME NEW body \in Seq(Pieces), NEW n \in 0..MaxEdits,
         NEW m \in {<<User(n)>> \o body, body \o <<User(n)>>}
  PROVE  /\ m \in Seq(Pieces)
         /\ Whole(body) => Whole(m)
         /\ Shows(body) => Shows(m)
<1> DEFINE one == <<User(n)>>
<1>1. one \in Seq(Pieces) /\ Len(one) = 1 /\ one[1][1] = "user"
  <2>1. User(n) \in Pieces /\ User(n)[1] = "user"  BY DEF Pieces, User
  <2> QED  BY <2>1
<1>2. Len(body) \in Nat /\ DOMAIN body = 1..Len(body)  OBVIOUS
<1> HIDE DEF one
<1>3. CASE m = one \o body
  <2>1. /\ m \in Seq(Pieces) /\ DOMAIN m = 1..1 + Len(body)
        /\ \A i \in 1..1 + Len(body) : m[i] = IF i <= 1 THEN one[i] ELSE body[i - 1]
    <3>1. /\ one \o body \in Seq(Pieces) /\ Len(one \o body) = Len(one) + Len(body)
          /\ \A i \in 1..Len(one) + Len(body) :
               (one \o body)[i] = IF i <= Len(one) THEN one[i] ELSE body[i - Len(one)]
      BY <1>1, ConcatProperties
    <3>2. DOMAIN m = 1..Len(m)  BY <1>3, <3>1
    <3> QED  BY <1>1, <1>3, <3>1, <3>2
  <2>2. m[1][1] = "user" /\ 1 \in DOMAIN m  BY <1>1, <1>2, <2>1
  <2>3. \A i \in DOMAIN m : i # 1 => i - 1 \in DOMAIN body /\ m[i] = body[i - 1]
    BY <1>2, <2>1
  <2>4. \A i \in DOMAIN body : i + 1 \in DOMAIN m /\ m[i + 1] = body[i]
    BY <1>2, <2>1
  <2>5. AllUser(body) => AllUser(m)  BY <2>2, <2>3 DEF AllUser
  <2>6. ASSUME NEW b \in DOMAIN body, ManagedAt(body, b) PROVE ManagedAt(m, b + 1)
    <3>1. /\ b \in 1..Len(body) /\ b + 2 \in 1..Len(body) /\ b + 1 \in 1..Len(body)
          /\ body[b] = Begin /\ body[b + 1][1] = "notes" /\ body[b + 2] = End
      BY <1>2, <2>6 DEF ManagedAt
    <3>2. /\ m[b + 1] = Begin /\ m[b + 1 + 1][1] = "notes" /\ m[b + 1 + 2] = End
          /\ b + 1 \in DOMAIN m /\ b + 1 + 2 \in DOMAIN m
      <4>1. b \in DOMAIN body /\ b + 1 \in DOMAIN body /\ b + 2 \in DOMAIN body
        BY <1>2, <3>1
      <4>2. b + 1 + 1 = b + 2 /\ b + 1 + 2 = b + 2 + 1  BY <3>1
      <4>3. m[b + 1] = Begin /\ b + 1 \in DOMAIN m  BY <2>4, <3>1, <4>1
      <4>4. m[b + 1 + 1][1] = "notes"  BY <2>4, <3>1, <4>1
      <4>5. m[b + 2 + 1] = End /\ b + 2 + 1 \in DOMAIN m  BY <2>4, <3>1, <4>1
      <4> QED  BY <4>2, <4>3, <4>4, <4>5
    <3>3. ASSUME NEW i \in DOMAIN m \ {b + 1, b + 1 + 1, b + 1 + 2} PROVE m[i][1] = "user"
      <4>1. CASE i = 1  BY <2>2, <4>1
      <4>2. CASE i # 1
        <5>1. i - 1 \in DOMAIN body \ {b, b + 1, b + 2} /\ m[i] = body[i - 1]
          BY <2>1, <2>3, <3>1, <4>2, SMTT(30)
        <5> QED  BY <2>6, <5>1 DEF ManagedAt
      <4> QED  BY <4>1, <4>2
    <3> QED  BY <3>2, <3>3 DEF ManagedAt
  <2>7. Whole(body) => Whole(m)
    <3>1. ASSUME NEW b \in DOMAIN body, ManagedAt(body, b) PROVE Whole(m)
      BY <2>4, <2>6, <3>1 DEF Whole
    <3> QED  BY <2>5, <3>1 DEF Whole
  <2>8. Shows(body) => Shows(m)  BY <2>4 DEF Shows
  <2> QED  BY <2>1, <2>7, <2>8
<1>4. CASE m = body \o one
  <2>1. /\ m \in Seq(Pieces) /\ DOMAIN m = 1..Len(body) + 1
        /\ \A i \in 1..Len(body) + 1 :
             m[i] = IF i <= Len(body) THEN body[i] ELSE one[i - Len(body)]
    <3>1. /\ m \in Seq(Pieces) /\ Len(m) = Len(body) + 1
          /\ \A i \in 1..Len(body) + 1 :
               m[i] = IF i <= Len(body) THEN body[i] ELSE one[i - Len(body)]
      BY <1>1, <1>4, ConcatProperties
    <3> QED  BY <3>1
  <2>2. \A i \in DOMAIN body : i \in DOMAIN m /\ m[i] = body[i]  BY <1>2, <2>1
  <2>3. \A i \in DOMAIN m : i \in DOMAIN body \/ m[i][1] = "user"
    BY <1>1, <1>2, <2>1
  <2>4. AllUser(body) => AllUser(m)  BY <2>2, <2>3 DEF AllUser
  <2>5. ASSUME NEW b \in DOMAIN body, ManagedAt(body, b) PROVE ManagedAt(m, b)
    <3>1. b + 1 \in DOMAIN body  BY <1>2, <2>5 DEF ManagedAt
    <3> QED  BY <2>2, <2>3, <2>5, <3>1 DEF ManagedAt
  <2>6. Whole(body) => Whole(m)
    <3>1. ASSUME NEW b \in DOMAIN body, ManagedAt(body, b) PROVE Whole(m)
      BY <2>2, <2>5, <3>1 DEF Whole
    <3> QED  BY <2>4, <3>1 DEF Whole
  <2>7. Shows(body) => Shows(m)  BY <2>2 DEF Shows
  <2> QED  BY <2>1, <2>6, <2>7
<1> QED  BY <1>3, <1>4 DEF one

-----------------------------------------------------------------------------
(* Types.                                                                  *)

\* What a job r carries, when the releases are rel.
Sound(r, rel) ==
  /\ r.pc # "unused" => r.tag \in rel
  /\ r.pc = "available" => r.attempt < MaxAttempts
  /\ r.pc \notin {"unused", "available", "done", "skipped", "discarded"} => r.wording \in Wordings
  /\ r.pc \in {"available", "getBody", "putBody", "readLog", "list", "create"} => r.file = 0
  /\ r.pc \in {"ref", "head", "make", "sha", "put"} => r.file \in 0..Len(Pages)

TypeInv == TypeOK /\ \A j \in Jobs : Sound(job[j], released)

\* One job takes a step, and releases are never withdrawn.
LEMMA OneJobMoves ==
  ASSUME TypeInv, released \subseteq released', NEW j \in Jobs, NEW r \in Locals,
         Sound(r, released'), job' = [job EXCEPT ![j] = r]
  PROVE  job' \in [Jobs -> Locals] /\ \A i \in Jobs : Sound(job'[i], released')
<1>1. job \in [Jobs -> Locals]  BY DEF TypeInv, TypeOK
<1>2. ASSUME NEW i \in Jobs PROVE Sound(job'[i], released')
  <2>1. CASE i = j  BY <1>1, <2>1
  <2>2. CASE i # j
    <3>1. job'[i] = job[i] /\ Sound(job[i], released)  BY <1>1, <2>2 DEF TypeInv
    <3> QED  BY <3>1 DEF Sound
  <2> QED  BY <2>1, <2>2
<1> QED  BY <1>1, <1>2

LEMMA TypeFacts ==
  ASSUME TypeInv, NEW j \in Jobs
  PROVE  /\ job \in [Jobs -> Locals] /\ job[j] \in Locals
         /\ Sound(job[j], released)
         /\ Len(Pages) \in Nat
         /\ MaxAttempts \in Nat \ {0}
  BY ReleaseAssumption DEF TypeInv, TypeOK

\* A failed job waits for another attempt, or is given up.
Failed(r) ==
  [Fresh(r.tag, r.attempt) EXCEPT !.pc = IF r.attempt < MaxAttempts
                                         THEN "available" ELSE "discarded"]

LEMMA ErrorIsSound ==
  ASSUME TypeInv, NEW j \in Jobs, Running(j), Error(j)
  PROVE  /\ Failed(job[j]) \in Locals
         /\ Sound(Failed(job[j]), released)
         /\ job' = [job EXCEPT ![j] = Failed(job[j])]
<1> DEFINE r == job[j]
<1>1. job' = [job EXCEPT ![j] = Failed(job[j])]
  BY TypeFacts DEF Error, Failed
<1>2. /\ r.tag \in released /\ r.tag \in Tags /\ r.attempt \in 0..MaxAttempts
      /\ Len(Pages) \in Nat
  BY TypeFacts DEF Running, Sound, Locals, TypeInv, TypeOK
<1> HIDE DEF r
<1>3. Failed(r) = [tag |-> r.tag, pc |-> IF r.attempt < MaxAttempts THEN "available" ELSE "discarded",
                   attempt |-> r.attempt, wording |-> NoWording,
                   file |-> 0, got |-> <<>>, log |-> <<>>, sha |-> <<>>]
  BY DEF Failed, Fresh
<1>4. Failed(r) \in Locals
  BY <1>2, <1>3 DEF Locals
<1>5. Sound(Failed(r), released)
  BY <1>2, <1>3 DEF Sound
<1> QED  BY <1>1, <1>4, <1>5 DEF r

LEMMA NoText == <<>> \in Seq(Pieces) /\ <<>> \in Seq(Sections)
  OBVIOUS

LEMMA InitType == Init => TypeInv
<1> SUFFICES ASSUME Init PROVE TypeInv
  OBVIOUS
<1> USE ReleaseAssumption DEF Init
<1>1. job = [j \in Jobs |-> [tag |-> NoTag, pc |-> "unused", attempt |-> 0,
              wording |-> NoWording, file |-> 0, got |-> <<>>, log |-> <<>>, sha |-> <<>>]]
  BY DEF Fresh
<1>2. Len(Pages) \in Nat  OBVIOUS
<1>3. job \in [Jobs -> Locals]
  <2>1. /\ <<>> \in Seq(Pieces) /\ <<>> \in Seq(Sections)
        /\ 0 \in 0..MaxAttempts /\ 0 \in 0..Len(Pages) + 1
    BY <1>2
  <2>2. [tag |-> NoTag, pc |-> "unused", attempt |-> 0, wording |-> NoWording,
         file |-> 0, got |-> <<>>, log |-> <<>>, sha |-> <<>>] \in Locals
    BY <2>1 DEF Locals
  <2> QED  BY <1>1, <2>2
<1>4. \A j \in Jobs : Sound(job[j], released)  BY <1>1 DEF Sound
<1>5. treeLog \in [Tags -> Seq(Sections)] /\ base \in [Tags -> Seq(Sections)]
      /\ content \in [Slots -> Seq(Sections)] /\ mainLog \in Seq(Sections)
      /\ relBody \in [Tags -> Seq(Pieces)]
  OBVIOUS
<1>6. pr \in [Tags -> {"none", "open", "closed"}]  OBVIOUS
<1>7. /\ released \subseteq Tags /\ recorded \subseteq Tags
      /\ branches \subseteq Tags \cup {PagesBranch} /\ ahead \subseteq Tags
      /\ quiet \subseteq Tags \X (0..MaxEdits)
      /\ edits \in 0..MaxEdits /\ failures \in 0..MaxFailures
  OBVIOUS
<1>8. TypeOK  BY <1>3, <1>5, <1>6, <1>7 DEF TypeOK
<1> QED  BY <1>4, <1>8 DEF TypeInv

\* Where a job writes.
LEMMA SlotIsSlot ==
  ASSUME TypeInv, NEW j \in Jobs, job[j].pc \in {"make", "sha", "put", "ref"}
  PROVE  /\ Slot(j) \in Slots /\ Branch(j) \in Tags \cup {PagesBranch}
         /\ job[j].tag \in Tags
         /\ job[j].file = 0 => Slot(j) = LogSlot(job[j].tag)
         /\ job[j].file # 0 => /\ job[j].file \in 1..Len(Pages)
                               /\ Slot(j) = <<job[j].tag, Pages[job[j].file]>>
                               /\ Slot(j) \in PageSlots(job[j].tag)
<1>1. job[j].tag \in Tags /\ job[j].file \in 0..Len(Pages) /\ Len(Pages) \in Nat
  BY TypeFacts DEF Sound, TypeInv, TypeOK
<1>2. CASE job[j].file = 0
  <2>1. Slot(j) = LogSlot(job[j].tag) /\ Branch(j) = job[j].tag  BY <1>2 DEF Slot, Branch
  <2> QED  BY <1>1, <1>2, <2>1 DEF Slots
<1>3. CASE job[j].file # 0
  <2>1. job[j].file \in 1..Len(Pages)  BY <1>1, <1>3
  <2>2. Pages[job[j].file] \in ToSet(Pages)  BY <2>1, ReleaseAssumption DEF ToSet
  <2>3. Slot(j) = <<job[j].tag, Pages[job[j].file]>> /\ Branch(j) = PagesBranch
    BY <1>3 DEF Slot, Branch
  <2>4. Slot(j) \in PageSlots(job[j].tag)  BY <2>2, <2>3 DEF PageSlots
  <2> QED  BY <1>1, <1>3, <2>1, <2>3, <2>4 DEF Slots
<1> QED  BY <1>2, <1>3

\* What is committed is a changelog.
LEMMA DataType ==
  ASSUME TypeInv, NEW j \in Jobs, job[j].pc = "put"
  PROVE  /\ Section(job[j].tag, job[j].wording) \in Sections
         /\ job[j].log \in Seq(Sections)
         /\ Data(j) \in Seq(Sections)
<1>1. job[j].tag \in Tags /\ job[j].wording \in Wordings /\ job[j].log \in Seq(Sections)
  BY TypeFacts DEF Sound, Locals, TypeInv, TypeOK
<1>2. Section(job[j].tag, job[j].wording) \in Sections
  BY <1>1 DEF Section, Sections
<1>3. <<Section(job[j].tag, job[j].wording)>> \in Seq(Sections)  BY <1>2
<1>4. <<Section(job[j].tag, job[j].wording)>> \o job[j].log \in Seq(Sections)
  BY <1>1, <1>3
<1> QED  BY <1>1, <1>2, <1>3, <1>4 DEF Data

\* A step of one job that leaves all other state well typed.
LEMMA JobStepType ==
  ASSUME TypeInv, NEW j \in Jobs, NEW r \in Locals,
         Sound(r, released), job' = [job EXCEPT ![j] = r],
         UNCHANGED <<released, treeLog, mainLog, quiet, edits>>,
         relBody' \in [Tags -> Seq(Pieces)],
         branches' \subseteq Tags \cup {PagesBranch},
         ahead' \subseteq Tags,
         base' \in [Tags -> Seq(Sections)],
         content' \in [Slots -> Seq(Sections)],
         pr' \in [Tags -> {"none", "open", "closed"}],
         recorded' \subseteq Tags,
         failures' \in 0..MaxFailures
  PROVE  TypeInv'
<1>1. job' \in [Jobs -> Locals] /\ \A i \in Jobs : Sound(job'[i], released')
  BY OneJobMoves
<1>2. /\ released \subseteq Tags /\ treeLog \in [Tags -> Seq(Sections)]
      /\ mainLog \in Seq(Sections) /\ quiet \subseteq Tags \X (0..MaxEdits)
      /\ edits \in 0..MaxEdits
  BY DEF TypeInv, TypeOK
<1>3. TypeOK'  BY <1>1, <1>2 DEF TypeOK
<1> QED  BY <1>1, <1>3 DEF TypeInv

\* A step of one job alone.
LEMMA QuietStepType ==
  ASSUME TypeInv, NEW j \in Jobs, NEW r \in Locals,
         Sound(r, released), job' = [job EXCEPT ![j] = r],
         UNCHANGED <<hostVars, recorded>>, failures' \in 0..MaxFailures
  PROVE  TypeInv'
<1>1. /\ relBody \in [Tags -> Seq(Pieces)]
      /\ branches \subseteq Tags \cup {PagesBranch} /\ ahead \subseteq Tags
      /\ base \in [Tags -> Seq(Sections)]
      /\ content \in [Slots -> Seq(Sections)]
      /\ pr \in [Tags -> {"none", "open", "closed"}]
      /\ recorded \subseteq Tags
  BY DEF TypeInv, TypeOK
<1> QED  BY <1>1, JobStepType DEF hostVars

\* A job that has ended.
LEMMA EndedIsSound ==
  ASSUME TypeInv, NEW j \in Jobs, job[j].pc # "unused", NEW pc \in {"done", "skipped"}
  PROVE  LET r == [Fresh(job[j].tag, 0) EXCEPT !.pc = pc]
         IN  /\ r \in Locals /\ Sound(r, released)
             /\ r = [tag |-> job[j].tag, pc |-> pc, attempt |-> 0, wording |-> NoWording,
                     file |-> 0, got |-> <<>>, log |-> <<>>, sha |-> <<>>]
<1> DEFINE r == [Fresh(job[j].tag, 0) EXCEPT !.pc = pc]
<1>1. /\ job[j].tag \in released /\ job[j].tag \in Tags
      /\ Len(Pages) \in Nat /\ MaxAttempts \in Nat
  BY TypeFacts DEF Sound, TypeInv, TypeOK
<1>2. r = [tag |-> job[j].tag, pc |-> pc, attempt |-> 0, wording |-> NoWording,
           file |-> 0, got |-> <<>>, log |-> <<>>, sha |-> <<>>]
  BY DEF Fresh
<1>3. r \in Locals
  <2>1. 0 \in 0..MaxAttempts /\ 0 \in 0..Len(Pages) + 1  BY <1>1
  <2> HIDE DEF r
  <2> QED  BY <1>1, <1>2, <2>1, NoText DEF Locals
<1>4. Sound(r, released)  BY <1>1, <1>2 DEF Sound
<1> QED  BY <1>2, <1>3, <1>4

LEMMA SkipType ==
  ASSUME TypeInv, NEW j \in Jobs, Skip(j)
  PROVE  TypeInv'
<1> DEFINE r == [Fresh(job[j].tag, 0) EXCEPT !.pc = "skipped"]
<1>1. job' = [job EXCEPT ![j] = r]  BY TypeFacts DEF Skip
<1>2. failures' \in 0..MaxFailures  BY ReleaseAssumption DEF Skip, TypeInv, TypeOK
<1>3. r \in Locals /\ Sound(r, released)  BY EndedIsSound DEF Skip
<1> HIDE DEF r
<1> QED  BY <1>1, <1>2, <1>3, QuietStepType DEF Skip

LEMMA GenerateType ==
  ASSUME TypeInv, NEW j \in Jobs, Generate(j)
  PROVE  TypeInv'
<1>1. PICK w \in Wordings :
        job' = [job EXCEPT ![j].pc = "getBody", ![j].wording = w, ![j].attempt = @ + 1]
  BY DEF Generate
<1> DEFINE r == [job[j] EXCEPT !.pc = "getBody", !.wording = w, !.attempt = job[j].attempt + 1]
<1>2. job' = [job EXCEPT ![j] = r]  BY <1>1, TypeFacts
<1>3. job[j].pc = "available" /\ job[j] \in Locals /\ Sound(job[j], released)
  BY TypeFacts DEF Generate
<1>4. job[j].attempt + 1 \in 0..MaxAttempts
  BY <1>3, TypeFacts DEF Sound, Locals
<1>5. r \in Locals  BY <1>3, <1>4 DEF Locals
<1>6. /\ r.pc = "getBody" /\ r.wording = w /\ r.tag = job[j].tag
      /\ r.file = job[j].file
  BY <1>3 DEF Locals
<1>7. Sound(r, released)  BY <1>3, <1>6 DEF Sound
<1> HIDE DEF r
<1> QED  BY <1>2, <1>5, <1>7, QuietStepType DEF Generate, TypeInv, TypeOK

LEMMA GetBodyType ==
  ASSUME TypeInv, NEW j \in Jobs, GetBody(j)
  PROVE  TypeInv'
<1> DEFINE r == [job[j] EXCEPT !.pc = "putBody", !.got = relBody[job[j].tag]]
<1>1. job' = [job EXCEPT ![j] = r]  BY TypeFacts DEF GetBody
<1>2. job[j].pc = "getBody" /\ job[j] \in Locals /\ Sound(job[j], released)
  BY TypeFacts DEF GetBody
<1>3. relBody[job[j].tag] \in Seq(Pieces)
  BY <1>2 DEF Sound, TypeInv, TypeOK
<1>4. r \in Locals  BY <1>2, <1>3 DEF Locals
<1>5. Sound(r, released)  BY <1>2 DEF Sound, Locals
<1> HIDE DEF r
<1> QED  BY <1>1, <1>4, <1>5, QuietStepType DEF GetBody, TypeInv, TypeOK

LEMMA PutBodyType ==
  ASSUME TypeInv, NEW j \in Jobs, PutBody(j)
  PROVE  TypeInv'
<1> DEFINE r == [job[j] EXCEPT !.pc = "readLog", !.got = <<>>]
           new == SpliceReleaseBody(job[j].got, Notes(job[j].wording))
<1>1. job' = [job EXCEPT ![j] = r]  BY TypeFacts DEF PutBody
<1>2. job[j].pc = "putBody" /\ job[j] \in Locals /\ Sound(job[j], released)
  BY TypeFacts DEF PutBody
<1>3. r \in Locals  BY <1>2, NoText DEF Locals
<1>4. Sound(r, released)  BY <1>2 DEF Sound, Locals
<1>5. new \in Seq(Pieces)  BY <1>2, SpliceType DEF Sound, Locals
<1>6. relBody' = [relBody EXCEPT ![job[j].tag] = IF new = job[j].got THEN @ ELSE new]
  BY DEF PutBody
<1> HIDE DEF new, r
<1>7. relBody' \in [Tags -> Seq(Pieces)]
  BY <1>2, <1>5, <1>6 DEF TypeInv, TypeOK
<1> QED  BY <1>1, <1>3, <1>4, <1>7, JobStepType DEF PutBody, TypeInv, TypeOK

LEMMA ReadLogType ==
  ASSUME TypeInv, NEW j \in Jobs, ReadLog(j)
  PROVE  TypeInv'
<1>1. job[j].pc = "readLog" /\ job[j] \in Locals /\ Sound(job[j], released)
  BY TypeFacts DEF ReadLog
<1>2. treeLog[job[j].tag] \in Seq(Sections)
  BY <1>1 DEF Sound, TypeInv, TypeOK
<1>3. failures' \in 0..MaxFailures
  BY ReleaseAssumption DEF ReadLog, TypeInv, TypeOK
<1>4. CASE job' = [job EXCEPT ![j].pc = "ref", ![j].log = treeLog[job[j].tag]]
  <2> DEFINE r == [job[j] EXCEPT !.pc = "ref", !.log = treeLog[job[j].tag]]
  <2>1. job' = [job EXCEPT ![j] = r]  BY <1>4, TypeFacts
  <2>2. r \in Locals  BY <1>1, <1>2 DEF Locals
  <2>3. Sound(r, released)  BY <1>1, TypeFacts DEF Sound, Locals
  <2> HIDE DEF r
  <2> QED  BY <1>3, <2>1, <2>2, <2>3, QuietStepType DEF ReadLog
<1>5. CASE Goto(j, "ref")
  <2> DEFINE r == [job[j] EXCEPT !.pc = "ref"]
  <2>1. job' = [job EXCEPT ![j] = r]  BY <1>5, TypeFacts DEF Goto
  <2>2. r \in Locals  BY <1>1 DEF Locals
  <2>3. Sound(r, released)  BY <1>1, TypeFacts DEF Sound, Locals
  <2> HIDE DEF r
  <2> QED  BY <1>3, <2>1, <2>2, <2>3, QuietStepType DEF ReadLog
<1> QED  BY <1>4, <1>5 DEF ReadLog

LEMMA GetRefType ==
  ASSUME TypeInv, NEW j \in Jobs, GetRef(j)
  PROVE  TypeInv'
<1>1. PICK pc \in {"sha", "head"} : Goto(j, pc)  BY DEF GetRef
<1> DEFINE r == [job[j] EXCEPT !.pc = pc]
<1>2. job' = [job EXCEPT ![j] = r]  BY <1>1, TypeFacts DEF Goto
<1>3. job[j].pc = "ref" /\ job[j] \in Locals /\ Sound(job[j], released)
  BY TypeFacts DEF GetRef
<1>4. r \in Locals  BY <1>3 DEF Locals
<1>5. Sound(r, released)  BY <1>3 DEF Sound, Locals
<1>6. failures' \in 0..MaxFailures  BY ReleaseAssumption DEF GetRef, TypeInv, TypeOK
<1> HIDE DEF r
<1> QED  BY <1>2, <1>4, <1>5, <1>6, QuietStepType DEF GetRef

LEMMA GetHeadType ==
  ASSUME TypeInv, NEW j \in Jobs, GetHead(j)
  PROVE  TypeInv'
<1> DEFINE r == [job[j] EXCEPT !.pc = "make", !.sha = mainLog]
<1>1. job' = [job EXCEPT ![j] = r]  BY TypeFacts DEF GetHead
<1>2. /\ job[j].pc = "head" /\ job[j] \in Locals /\ Sound(job[j], released)
      /\ mainLog \in Seq(Sections)
  BY TypeFacts DEF GetHead, TypeInv, TypeOK
<1>3. r \in Locals  BY <1>2 DEF Locals
<1>4. Sound(r, released)  BY <1>2 DEF Sound, Locals
<1> HIDE DEF r
<1> QED  BY <1>1, <1>3, <1>4, QuietStepType DEF GetHead, TypeInv, TypeOK

LEMMA CreateRefType ==
  ASSUME TypeInv, NEW j \in Jobs, CreateRef(j)
  PROVE  TypeInv'
<1>1. /\ job[j].pc = "make" /\ job[j] \in Locals /\ Sound(job[j], released)
      /\ job[j].sha \in Seq(Sections)
  BY TypeFacts DEF CreateRef, Locals
<1>2. /\ UNCHANGED <<released, treeLog, relBody, mainLog, ahead, pr, quiet, edits,
                     recorded, failures>>
      /\ relBody \in [Tags -> Seq(Pieces)] /\ pr \in [Tags -> {"none", "open", "closed"}]
      /\ recorded \subseteq Tags /\ failures \in 0..MaxFailures
      /\ branches \subseteq Tags \cup {PagesBranch} /\ ahead \subseteq Tags
      /\ base \in [Tags -> Seq(Sections)] /\ content \in [Slots -> Seq(Sections)]
  BY DEF CreateRef, TypeInv, TypeOK
<1>3. CASE Branch(j) \in branches
  <2>1. Error(j) /\ UNCHANGED <<branches, base, content>>  BY <1>3 DEF CreateRef
  <2>2. Running(j)  BY <1>1 DEF Running
  <2> QED  BY <1>2, <2>1, <2>2, ErrorIsSound, JobStepType
<1>4. CASE Branch(j) \notin branches
  <2> DEFINE r == [job[j] EXCEPT !.pc = "sha", !.sha = <<>>]
  <2>1. job' = [job EXCEPT ![j] = r]  BY <1>4, TypeFacts DEF CreateRef
  <2>2. r \in Locals  BY <1>1, NoText DEF Locals
  <2>3. Sound(r, released)  BY <1>1 DEF Sound, Locals
  <2>4. branches' \subseteq Tags \cup {PagesBranch}
    BY <1>1, <1>2, <1>4, SlotIsSlot DEF CreateRef
  <2>5. base' \in [Tags -> Seq(Sections)] /\ content' \in [Slots -> Seq(Sections)]
    BY <1>1, <1>2, <1>4, SlotIsSlot DEF CreateRef
  <2> HIDE DEF r
  <2> QED  BY <1>2, <2>1, <2>2, <2>3, <2>4, <2>5, JobStepType
<1> QED  BY <1>3, <1>4

LEMMA GetContentsType ==
  ASSUME TypeInv, NEW j \in Jobs, GetContents(j)
  PROVE  TypeInv'
<1>1. job[j].pc = "sha" /\ job[j] \in Locals /\ Sound(job[j], released)
  BY TypeFacts DEF GetContents
<1>2. content[Slot(j)] \in Seq(Sections)
  BY <1>1, SlotIsSlot DEF TypeInv, TypeOK
<1>3. failures' \in 0..MaxFailures  BY ReleaseAssumption DEF GetContents, TypeInv, TypeOK
<1>4. CASE job' = [job EXCEPT ![j].pc = "put", ![j].sha = content[Slot(j)]]
  <2> DEFINE r == [job[j] EXCEPT !.pc = "put", !.sha = content[Slot(j)]]
  <2>1. job' = [job EXCEPT ![j] = r]  BY <1>4, TypeFacts
  <2>2. r \in Locals  BY <1>1, <1>2 DEF Locals
  <2>3. Sound(r, released)  BY <1>1 DEF Sound, Locals
  <2> HIDE DEF r
  <2> QED  BY <1>3, <2>1, <2>2, <2>3, QuietStepType DEF GetContents
<1>5. CASE Goto(j, "put")
  <2> DEFINE r == [job[j] EXCEPT !.pc = "put"]
  <2>1. job' = [job EXCEPT ![j] = r]  BY <1>5, TypeFacts DEF Goto
  <2>2. r \in Locals  BY <1>1 DEF Locals
  <2>3. Sound(r, released)  BY <1>1 DEF Sound, Locals
  <2> HIDE DEF r
  <2> QED  BY <1>3, <2>1, <2>2, <2>3, QuietStepType DEF GetContents
<1> QED  BY <1>4, <1>5 DEF GetContents

LEMMA PutFileType ==
  ASSUME TypeInv, NEW j \in Jobs, PutFile(j)
  PROVE  TypeInv'
<1>1. job[j].pc = "put" /\ job[j] \in Locals /\ Sound(job[j], released)
  BY TypeFacts DEF PutFile
<1>2. /\ UNCHANGED <<released, treeLog, relBody, mainLog, branches, base, pr,
                     quiet, edits, recorded, failures>>
      /\ relBody \in [Tags -> Seq(Pieces)] /\ pr \in [Tags -> {"none", "open", "closed"}]
      /\ recorded \subseteq Tags /\ failures \in 0..MaxFailures
      /\ branches \subseteq Tags \cup {PagesBranch} /\ ahead \subseteq Tags
      /\ base \in [Tags -> Seq(Sections)] /\ content \in [Slots -> Seq(Sections)]
  BY DEF PutFile, TypeInv, TypeOK
<1> DEFINE fits == Branch(j) \in branches /\ content[Slot(j)] = job[j].sha
<1>3. CASE ~ fits
  <2>1. Error(j) /\ UNCHANGED <<content, ahead>>  BY <1>3 DEF PutFile
  <2>2. Running(j)  BY <1>1 DEF Running
  <2> QED  BY <1>2, <2>1, <2>2, ErrorIsSound, JobStepType
<1>4. CASE fits
  <2>1. content' \in [Slots -> Seq(Sections)]
    BY <1>1, <1>2, <1>4, SlotIsSlot, DataType DEF PutFile
  <2>4. job[j].tag \in Tags  BY <1>1, SlotIsSlot
  <2>5. ahead' \subseteq Tags  BY <1>2, <1>4, <2>4 DEF PutFile
  <2>2. CASE job[j].file = 0
    <3> DEFINE r == [job[j] EXCEPT !.pc = "list", !.log = <<>>, !.sha = <<>>]
    <3>1. job' = [job EXCEPT ![j] = r]  BY <1>4, <2>2, TypeFacts DEF PutFile
    <3>2. r \in Locals  BY <1>1, NoText DEF Locals
    <3>3. Sound(r, released)  BY <1>1, <2>2 DEF Sound, Locals
    <3> HIDE DEF r
    <3> QED  BY <1>2, <2>1, <2>5, <3>1, <3>2, <3>3, JobStepType
  <2>3. CASE job[j].file # 0
    <3> DEFINE r == [job[j] EXCEPT !.pc = NextPage(job[j].file), !.file = @ + 1, !.sha = <<>>]
    <3>1. job' = [job EXCEPT ![j] = r]  BY <1>4, <2>3, TypeFacts DEF PutFile
    <3>2. job[j].file \in 1..Len(Pages) /\ Len(Pages) \in Nat
      BY <1>1, <2>3, SlotIsSlot, TypeFacts
    <3>3. r \in Locals
      <4>1. NextPage(job[j].file) \in {"ref", "record"} /\ job[j].file + 1 \in 0..Len(Pages) + 1
        BY <3>2 DEF NextPage
      <4> QED  BY <1>1, <4>1, NoText DEF Locals
    <3>4. Sound(r, released)  BY <1>1, <3>2 DEF Sound, Locals, NextPage
    <3> HIDE DEF r
    <3> QED  BY <1>2, <2>1, <2>5, <3>1, <3>3, <3>4, JobStepType
  <2> QED  BY <2>2, <2>3
<1> QED  BY <1>3, <1>4

\* From the changelog to the pages.
ToPages(r) == [r EXCEPT !.pc = NextPage(0), !.file = 1]

LEMMA ToPagesIsSound ==
  ASSUME TypeInv, NEW j \in Jobs, job[j].pc \in {"list", "create"}
  PROVE  ToPages(job[j]) \in Locals /\ Sound(ToPages(job[j]), released)
<1>1. /\ job[j] \in Locals /\ Sound(job[j], released) /\ Len(Pages) \in Nat
  BY TypeFacts
<1>2. ToPages(job[j]) \in Locals
  <2>1. 1 \in 0..Len(Pages) + 1 /\ NextPage(0) \in {"ref", "record"}  BY <1>1 DEF NextPage
  <2> QED  BY <1>1, <2>1 DEF ToPages, Locals
<1>3. Sound(ToPages(job[j]), released)  BY <1>1 DEF ToPages, NextPage, Locals, Sound
<1> QED  BY <1>2, <1>3

LEMMA ListPRsType ==
  ASSUME TypeInv, NEW j \in Jobs, ListPRs(j)
  PROVE  TypeInv'
<1>1. job[j].pc = "list" /\ job[j] \in Locals /\ Sound(job[j], released)
  BY TypeFacts DEF ListPRs
<1>2. UNCHANGED <<hostVars, recorded, failures>> /\ failures \in 0..MaxFailures
  BY DEF ListPRs, TypeInv, TypeOK
<1>3. CASE pr[job[j].tag] = "open"
  <2>1. job' = [job EXCEPT ![j] = ToPages(job[j])]
    BY <1>3, TypeFacts DEF ListPRs, ToPages
  <2> QED  BY <1>1, <1>2, <2>1, ToPagesIsSound, QuietStepType
<1>4. CASE pr[job[j].tag] # "open"
  <2> DEFINE r == [job[j] EXCEPT !.pc = "create"]
  <2>1. job' = [job EXCEPT ![j] = r]  BY <1>4, TypeFacts DEF ListPRs
  <2>2. r \in Locals  BY <1>1 DEF Locals
  <2>3. Sound(r, released)  BY <1>1 DEF Sound, Locals
  <2> HIDE DEF r
  <2> QED  BY <1>2, <2>1, <2>2, <2>3, QuietStepType
<1> QED  BY <1>3, <1>4

LEMMA CreatePRType ==
  ASSUME TypeInv, NEW j \in Jobs, CreatePR(j)
  PROVE  TypeInv'
<1>1. job[j].pc = "create" /\ job[j] \in Locals /\ Sound(job[j], released)
  BY TypeFacts DEF CreatePR
<1>2. /\ UNCHANGED <<released, treeLog, relBody, mainLog, branches, base, ahead, content,
                     quiet, edits, recorded, failures>>
      /\ relBody \in [Tags -> Seq(Pieces)] /\ pr \in [Tags -> {"none", "open", "closed"}]
      /\ recorded \subseteq Tags /\ failures \in 0..MaxFailures
      /\ branches \subseteq Tags \cup {PagesBranch} /\ ahead \subseteq Tags
      /\ base \in [Tags -> Seq(Sections)] /\ content \in [Slots -> Seq(Sections)]
  BY DEF CreatePR, TypeInv, TypeOK
<1> DEFINE new == pr[job[j].tag] # "open" /\ job[j].tag \in branches \cap ahead
<1>3. CASE new
  <2>1. job' = [job EXCEPT ![j] = ToPages(job[j])]
    BY <1>3, TypeFacts DEF CreatePR, ToPages
  <2>2. pr' \in [Tags -> {"none", "open", "closed"}]  BY <1>2, <1>3 DEF CreatePR
  <2> QED  BY <1>1, <1>2, <2>1, <2>2, ToPagesIsSound, JobStepType
<1>4. CASE ~ new
  <2>1. Error(j) /\ pr' = pr  BY <1>4 DEF CreatePR
  <2>2. Running(j)  BY <1>1 DEF Running
  <2> QED  BY <1>2, <2>1, <2>2, ErrorIsSound, JobStepType
<1> QED  BY <1>3, <1>4

LEMMA RecordType ==
  ASSUME TypeInv, NEW j \in Jobs, Record(j)
  PROVE  TypeInv'
<1> DEFINE r == [Fresh(job[j].tag, 0) EXCEPT !.pc = "done"]
<1>1. job' = [job EXCEPT ![j] = r]  BY TypeFacts DEF Record
<1>2. job[j].pc = "record" /\ job[j].tag \in Tags
  BY TypeFacts DEF Record, Sound, TypeInv, TypeOK
<1>3. r \in Locals /\ Sound(r, released)  BY <1>2, EndedIsSound
<1> HIDE DEF r
<1>4. recorded' \subseteq Tags  BY <1>2 DEF Record, TypeInv, TypeOK
<1> QED  BY <1>1, <1>3, <1>4, JobStepType DEF Record, TypeInv, TypeOK, hostVars

LEMMA FailType ==
  ASSUME TypeInv, NEW j \in Jobs, Fail(j)
  PROVE  TypeInv'
<1>1. failures' \in 0..MaxFailures  BY ReleaseAssumption DEF Fail, TypeInv, TypeOK
<1> QED  BY <1>1, ErrorIsSound, QuietStepType DEF Fail

LEMMA PeopleType ==
  ASSUME TypeInv, People
  PROVE  TypeInv'
<1> USE DEF TypeInv
<1>1. PICK t \in Tags : \/ Release(t) \/ EditBody(t) \/ MergePR(t) \/ ClosePR(t)
                        \/ \E j \in Jobs : EnqueueRelease(j, t)
  BY DEF People
<1>2. CASE Release(t)
  <2>1. \A j \in Jobs : Sound(job'[j], released')  BY <1>2 DEF Release, Sound
  <2> QED  BY <1>2, <2>1 DEF Release, TypeOK
<1>3. CASE EditBody(t)
  <2>1. edits \in 0..MaxEdits /\ relBody[t] \in Seq(Pieces)
    BY DEF TypeOK
  <2>3. <<User(edits)>> \o relBody[t] \in Seq(Pieces) /\ relBody[t] \o <<User(edits)>> \in Seq(Pieces)
    BY <2>1, EditKeeps
  <2>4. relBody' \in [Tags -> Seq(Pieces)]  BY <1>3, <2>3 DEF EditBody, TypeOK
  <2>5. edits' \in 0..MaxEdits /\ quiet' \subseteq Tags \X (0..MaxEdits)
    BY <1>3, ReleaseAssumption DEF EditBody, TypeOK
  <2>6. TypeOK'  BY <1>3, <2>4, <2>5 DEF EditBody, TypeOK
  <2> QED  BY <1>3, <2>6 DEF EditBody
<1>4. CASE MergePR(t)
  <2>1. LogSlot(t) \in Slots  BY DEF Slots
  <2>2. content[LogSlot(t)] \in Seq(Sections)  BY <2>1 DEF TypeOK
  <2>3. mainLog' \in Seq(Sections)  BY <1>4, <2>2 DEF MergePR, Merged, TypeOK
  <2>4. base' \in [Tags -> Seq(Sections)] /\ content' \in [Slots -> Seq(Sections)]
        /\ branches' \subseteq Tags \cup {PagesBranch}
    <3>1. CASE /\ base' = [base EXCEPT ![t] = content[LogSlot(t)]]
               /\ UNCHANGED <<branches, content>>
      BY <2>2, <3>1 DEF TypeOK
    <3>2. CASE /\ branches' = branches \ {t}
               /\ content' = [content EXCEPT ![LogSlot(t)] = <<>>]
               /\ base' = base
      BY <2>1, <3>2, NoText DEF TypeOK
    <3> QED  BY <1>4, <3>1, <3>2 DEF MergePR
  <2>5. pr' \in [Tags -> {"none", "open", "closed"}]  BY <1>4 DEF MergePR, TypeOK
  <2>6. TypeOK'  BY <1>4, <2>3, <2>4, <2>5 DEF MergePR, TypeOK
  <2> QED  BY <1>4, <2>6 DEF MergePR
<1>5. CASE ClosePR(t)
  BY <1>5 DEF ClosePR, TypeOK
<1>6. CASE \E j \in Jobs : EnqueueRelease(j, t)
  <2>1. PICK j \in Jobs : EnqueueRelease(j, t)  BY <1>6
  <2> DEFINE r == Fresh(t, 0)
  <2>2. job' = [job EXCEPT ![j] = r]  BY <2>1 DEF EnqueueRelease
  <2>3. r = [tag |-> t, pc |-> "available", attempt |-> 0, wording |-> NoWording,
             file |-> 0, got |-> <<>>, log |-> <<>>, sha |-> <<>>]
    BY DEF Fresh
  <2>4. Len(Pages) \in Nat /\ MaxAttempts \in Nat \ {0} /\ t \in released
    BY <2>1, TypeFacts DEF EnqueueRelease
  <2>5. r \in Locals
    <3>1. 0 \in 0..MaxAttempts /\ 0 \in 0..Len(Pages) + 1  BY <2>4
    <3> HIDE DEF r
    <3> QED  BY <2>3, <3>1, NoText DEF Locals
  <2>6. Sound(r, released)  BY <2>3, <2>4 DEF Sound
  <2> HIDE DEF r
  <2> QED  BY <2>1, <2>2, <2>5, <2>6, QuietStepType DEF EnqueueRelease, TypeOK
<1> QED  BY <1>1, <1>2, <1>3, <1>4, <1>5, <1>6

LEMMA StepKeepsType == TypeInv /\ [Next]_releaseVars => TypeInv'
<1> SUFFICES ASSUME TypeInv, [Next]_releaseVars PROVE TypeInv'
  OBVIOUS
<1>1. CASE People  BY <1>1, PeopleType
<1>2. ASSUME NEW j \in Jobs, JobStep(j) PROVE TypeInv'
  BY <1>2, SkipType, GenerateType, GetBodyType, PutBodyType, ReadLogType, GetRefType,
     GetHeadType, CreateRefType,
     GetContentsType, PutFileType, ListPRsType, CreatePRType, RecordType DEF JobStep
<1>3. ASSUME NEW j \in Jobs, Fail(j) PROVE TypeInv'
  BY <1>3, FailType
<1>4. CASE UNCHANGED releaseVars
  BY <1>4 DEF releaseVars, hostVars, TypeInv, TypeOK, Sound
<1> QED  BY <1>1, <1>2, <1>3, <1>4 DEF Next

LEMMA TypeInvariant == Spec => []TypeInv
BY InitType, StepKeepsType, PTL DEF Spec

\* The state has its type, whatever the numbers of releases, jobs, pages,
\* attempts and failures (internal/releasedocs, dispatcher.go).
THEOREM TypeCorrect == Spec => []TypeOK
<1>1. TypeInv => TypeOK  BY DEF TypeInv
<1> QED  BY <1>1, TypeInvariant, PTL

-----------------------------------------------------------------------------
(* What a step of a job does to what it has read.                          *)

LEMMA ErrorMoves ==
  ASSUME TypeInv, NEW j \in Jobs, Error(j)
  PROVE  /\ \A i \in Jobs \ {j} : job'[i] = job[i]
         /\ job'[j].tag = job[j].tag /\ job'[j].log = <<>> /\ job'[j].got = <<>>
         /\ job'[j].file = 0 /\ job'[j].pc \in {"available", "discarded"}
<1>1. job' = [job EXCEPT ![j] = Failed(job[j])]
  BY TypeFacts DEF Error, Failed
<1>2. Failed(job[j]) =
        [tag |-> job[j].tag,
         pc |-> IF job[j].attempt < MaxAttempts THEN "available" ELSE "discarded",
         attempt |-> job[j].attempt, wording |-> NoWording,
         file |-> 0, got |-> <<>>, log |-> <<>>, sha |-> <<>>]
  BY DEF Failed, Fresh
<1> QED  BY <1>1, <1>2, TypeFacts

LEMMA GotoMoves ==
  ASSUME TypeInv, NEW j \in Jobs, NEW pc, Goto(j, pc)
  PROVE  /\ job'[j].pc = pc
         /\ job'[j].tag = job[j].tag /\ job'[j].file = job[j].file
         /\ job'[j].attempt = job[j].attempt /\ job'[j].sha = job[j].sha
BY TypeFacts DEF Goto, Locals

LEMMA ActiveTag ==
  ASSUME TypeInv, NEW j \in Jobs, JobStep(j) \/ Fail(j)
  PROVE  job[j].tag \in released /\ job[j].tag \in Tags
<1>1. job[j].pc # "unused"
  BY DEF JobStep, Skip, Generate, GetBody, PutBody, ReadLog, GetRef, GetHead, CreateRef,
         GetContents, PutFile, ListPRs, CreatePR, Record, Fail, Running
<1> QED  BY <1>1, TypeFacts DEF Sound, TypeInv, TypeOK

LEMMA JobMoves ==
  ASSUME TypeInv, NEW j \in Jobs, JobStep(j) \/ Fail(j)
  PROVE  /\ \A i \in Jobs \ {j} : job'[i] = job[i]
         /\ job'[j].tag = job[j].tag
         /\ job'[j].log \in {job[j].log, <<>>} \/ job'[j].log = treeLog[job[j].tag]
         /\ \/ job'[j].got = <<>>
            \/ job'[j].got = job[j].got
            \/ GetBody(j) /\ job'[j].got = relBody[job[j].tag]
         /\ job'[j].pc = "make" => job'[j].sha = mainLog
         /\ UNCHANGED <<released, treeLog, mainLog, quiet, edits>>
         /\ PutBody(j) \/ relBody' = relBody
         /\ \/ content' = content
            \/ /\ CreateRef(j) /\ job[j].file = 0
               /\ content' = [content EXCEPT ![Slot(j)] = job[j].sha]
            \/ PutFile(j) /\ content' = [content EXCEPT ![Slot(j)] = Data(j)]
         /\ pr' = pr \/ pr' = [pr EXCEPT ![job[j].tag] = "open"]
         /\ Record(j) \/ recorded' = recorded
<1> USE TypeFacts DEF hostVars
<1> DEFINE P == /\ \A i \in Jobs \ {j} : job'[i] = job[i]
                /\ job'[j].tag = job[j].tag
                /\ job'[j].log \in {job[j].log, <<>>} \/ job'[j].log = treeLog[job[j].tag]
                /\ \/ job'[j].got = <<>>
                   \/ job'[j].got = job[j].got
                   \/ GetBody(j) /\ job'[j].got = relBody[job[j].tag]
                /\ job'[j].pc = "make" => job'[j].sha = mainLog
           Q == /\ UNCHANGED <<released, treeLog, mainLog, quiet, edits>>
                /\ PutBody(j) \/ relBody' = relBody
                /\ \/ content' = content
                   \/ /\ CreateRef(j) /\ job[j].file = 0
                      /\ content' = [content EXCEPT ![Slot(j)] = job[j].sha]
                   \/ PutFile(j) /\ content' = [content EXCEPT ![Slot(j)] = Data(j)]
                /\ pr' = pr \/ pr' = [pr EXCEPT ![job[j].tag] = "open"]
                /\ Record(j) \/ recorded' = recorded
<1>0. Error(j) => P  BY ErrorMoves
<1>1. CASE Generate(j)
  <2>1. P  BY <1>1 DEF Generate, Locals
  <2>2. Q  BY <1>1 DEF Generate
  <2> QED  BY <2>1, <2>2
<1>2. CASE GetBody(j)
  <2>1. P  BY <1>2 DEF GetBody, Locals
  <2>2. Q  BY <1>2 DEF GetBody
  <2> QED  BY <2>1, <2>2
<1>3. CASE PutBody(j)
  <2>1. P  BY <1>3 DEF PutBody, Locals
  <2>2. Q  BY <1>3 DEF PutBody
  <2> QED  BY <2>1, <2>2
<1>4. CASE ReadLog(j)
  <2>1. P  BY <1>4 DEF ReadLog, Goto, Locals
  <2>2. Q  BY <1>4 DEF ReadLog
  <2> QED  BY <2>1, <2>2
<1>5. CASE GetRef(j)
  <2>1. P  BY <1>5 DEF GetRef, Goto, Locals
  <2>2. Q  BY <1>5 DEF GetRef
  <2> QED  BY <2>1, <2>2
<1>13. CASE GetHead(j)
  <2>1. P  BY <1>13 DEF GetHead, Locals
  <2>2. Q  BY <1>13 DEF GetHead
  <2> QED  BY <2>1, <2>2
<1>6. CASE CreateRef(j)
  <2>1. job' = [job EXCEPT ![j].pc = "sha", ![j].sha = <<>>] => P  BY DEF Locals
  <2>2. P  BY <1>0, <1>6, <2>1 DEF CreateRef
  <2>3. Q  BY <1>6 DEF CreateRef
  <2> QED  BY <2>2, <2>3
<1>7. CASE GetContents(j)
  <2>1. P  BY <1>7 DEF GetContents, Goto, Locals
  <2>2. Q  BY <1>7 DEF GetContents
  <2> QED  BY <2>1, <2>2
<1>8. CASE PutFile(j)
  <2>1. CASE Branch(j) \in branches /\ content[Slot(j)] = job[j].sha
    <3>1. Q  BY <1>8, <2>1 DEF PutFile
    <3>2. CASE job[j].file = 0
      <4>1. job' = [job EXCEPT ![j].pc = "list", ![j].log = <<>>, ![j].sha = <<>>]
        BY <1>8, <2>1, <3>2 DEF PutFile
      <4>2. P  BY <4>1 DEF Locals
      <4> QED  BY <3>1, <4>2
    <3>3. CASE job[j].file # 0
      <4>1. job' = [job EXCEPT ![j].pc = NextPage(job[j].file), ![j].file = @ + 1,
                               ![j].sha = <<>>]
        BY <1>8, <2>1, <3>3 DEF PutFile
      <4>2. P  BY <4>1 DEF Locals, NextPage
      <4> QED  BY <3>1, <4>2
    <3> QED  BY <3>2, <3>3
  <2>2. CASE ~ (Branch(j) \in branches /\ content[Slot(j)] = job[j].sha)
    <3>1. Error(j) /\ Q  BY <1>8, <2>2 DEF PutFile
    <3> QED  BY <1>0, <3>1
  <2> QED  BY <2>1, <2>2
<1>9. CASE ListPRs(j)
  <2>1. P  BY <1>9 DEF ListPRs, Locals, NextPage
  <2>2. Q  BY <1>9 DEF ListPRs
  <2> QED  BY <2>1, <2>2
<1>10. CASE CreatePR(j)
  <2>1. CASE pr[job[j].tag] # "open" /\ job[j].tag \in branches \cap ahead
    <3>1. P  BY <1>10, <2>1 DEF CreatePR, Locals, NextPage
    <3>2. Q  BY <1>10, <2>1 DEF CreatePR
    <3> QED  BY <3>1, <3>2
  <2>2. CASE ~ (pr[job[j].tag] # "open" /\ job[j].tag \in branches \cap ahead)
    <3>1. Error(j) /\ Q  BY <1>10, <2>2 DEF CreatePR
    <3> QED  BY <1>0, <3>1
  <2> QED  BY <2>1, <2>2
<1>14. CASE Skip(j)
  <2>1. job' = [job EXCEPT ![j] = [Fresh(job[j].tag, 0) EXCEPT !.pc = "skipped"]]
    BY <1>14 DEF Skip
  <2>4. [Fresh(job[j].tag, 0) EXCEPT !.pc = "skipped"] =
          [tag |-> job[j].tag, pc |-> "skipped", attempt |-> 0, wording |-> NoWording,
           file |-> 0, got |-> <<>>, log |-> <<>>, sha |-> <<>>]
    BY <1>14, EndedIsSound DEF Skip
  <2>2. P  BY <2>1, <2>4
  <2>3. Q  BY <1>14 DEF Skip
  <2> QED  BY <2>2, <2>3
<1>11. CASE Record(j)
  <2>1. [Fresh(job[j].tag, 0) EXCEPT !.pc = "done"] =
          [tag |-> job[j].tag, pc |-> "done", attempt |-> 0, wording |-> NoWording,
           file |-> 0, got |-> <<>>, log |-> <<>>, sha |-> <<>>]
    BY <1>11, EndedIsSound DEF Record
  <2>2. job' = [job EXCEPT ![j] = [Fresh(job[j].tag, 0) EXCEPT !.pc = "done"]]
    BY <1>11 DEF Record
  <2>3. P  BY <2>1, <2>2
  <2>4. Q  BY <1>11 DEF Record
  <2> QED  BY <2>3, <2>4
<1>12. CASE Fail(j)
  <2>1. Q  BY <1>12 DEF Fail
  <2> QED  BY <1>0, <1>12, <2>1 DEF Fail
<1> QED
  BY <1>1, <1>2, <1>3, <1>4, <1>5, <1>6, <1>7, <1>8, <1>9, <1>10, <1>11, <1>12,
     <1>13, <1>14 DEF JobStep

-----------------------------------------------------------------------------
(* Changelogs.                                                             *)

Unique(l) == \A i, k \in DOMAIN l : l[i][1] = l[k][1] => i = k
Lists(l) == {l[i][1] : i \in DOMAIN l}

\* A changelog that lists only releases, each once.
LogOK(l, rel) == Unique(l) /\ Lists(l) \subseteq rel

\* A release is not in its own tree, hence not in what a job has read of it; a
\* head that is read is a changelog of the default branch.
LogInv ==
  /\ LogOK(mainLog, released)
  /\ \A t \in Tags : /\ LogOK(treeLog[t], released) /\ t \notin Lists(treeLog[t])
                     /\ LogOK(content[LogSlot(t)], released)
  /\ \A j \in Jobs : /\ LogOK(job[j].log, released)
                     /\ job[j].tag \notin Lists(job[j].log)
                     /\ job[j].pc = "make" => LogOK(job[j].sha, released)

LEMMA EmptyLog == \A rel : LogOK(<<>>, rel) /\ Lists(<<>>) = {}
BY DEF LogOK, Unique, Lists

LEMMA MoreReleases ==
  ASSUME NEW l, NEW rel, NEW more, LogOK(l, rel), rel \subseteq more
  PROVE  LogOK(l, more)
BY DEF LogOK

\* The section of a release before a changelog that does not list it.
LEMMA PrependKeepsLog ==
  ASSUME NEW l \in Seq(Sections), NEW rel, NEW t \in rel, NEW w,
         LogOK(l, rel), t \notin Lists(l), Section(t, w) \in Sections
  PROVE  LogOK(<<Section(t, w)>> \o l, rel)
<1> DEFINE m == <<Section(t, w)>> \o l
<1>1. /\ m \in Seq(Sections) /\ Len(m) = 1 + Len(l) /\ Len(l) \in Nat
      /\ \A i \in 1..1 + Len(l) : m[i] = IF i = 1 THEN Section(t, w) ELSE l[i - 1]
  <2>1. <<Section(t, w)>> \in Seq(Sections)  OBVIOUS
  <2> QED  BY <2>1, ConcatProperties
<1> HIDE DEF m
<1>2. m[1][1] = t  BY <1>1 DEF Section
<1>3. \A i \in 2..Len(m) : i - 1 \in DOMAIN l /\ m[i] = l[i - 1]  BY <1>1
<1>4. Lists(m) \subseteq rel
  <2> SUFFICES ASSUME NEW i \in DOMAIN m PROVE m[i][1] \in rel
    BY DEF Lists
  <2>1. CASE i = 1  BY <1>2, <2>1
  <2>2. CASE i # 1
    <3>1. i \in 2..Len(m)  BY <1>1, <2>2
    <3> QED  BY <1>3, <3>1 DEF LogOK, Lists
  <2> QED  BY <2>1, <2>2
<1>5. \A i \in 2..Len(m) : m[i][1] # t  BY <1>3 DEF Lists
<1>6. Unique(m)
  <2> SUFFICES ASSUME NEW i \in DOMAIN m, NEW k \in DOMAIN m, m[i][1] = m[k][1]
               PROVE  i = k
    BY DEF Unique
  <2>1. i \in 1..Len(m) /\ k \in 1..Len(m)  BY <1>1
  <2>2. CASE i = 1 \/ k = 1  BY <1>1, <1>2, <1>5, <2>1, <2>2
  <2>3. CASE i # 1 /\ k # 1
    <3>1. i \in 2..Len(m) /\ k \in 2..Len(m)  BY <1>1, <2>1, <2>3
    <3>2. i - 1 = k - 1  BY <1>3, <3>1 DEF LogOK, Unique
    <3> QED  BY <1>1, <3>1, <3>2
  <2> QED  BY <2>2, <2>3
<1> QED  BY <1>4, <1>6 DEF LogOK, m

LEMMA InitLog == Init => LogInv
<1> SUFFICES ASSUME Init PROVE LogInv
  OBVIOUS
<1>1. \A j \in Jobs : job[j].log = <<>> /\ job[j].pc = "unused"  BY DEF Init, Fresh
<1>2. \A t \in Tags : LogSlot(t) \in Slots  BY DEF Slots
<1> QED  BY <1>1, <1>2, EmptyLog DEF Init, LogInv

\* Pages are not changelogs.
LEMMA PageIsNotLog ==
  ASSUME TypeInv, NEW j \in Jobs, job[j].pc \in {"make", "sha", "put", "ref"},
         job[j].file # 0, NEW t \in Tags
  PROVE  Slot(j) # LogSlot(t)
<1>1. job[j].file \in 1..Len(Pages) /\ Slot(j) = <<job[j].tag, Pages[job[j].file]>>
  BY SlotIsSlot
<1>2. Pages[job[j].file] # "log"  BY <1>1, ReleaseAssumption
<1> QED  BY <1>1, <1>2 DEF LogSlot

LEMMA JobStepKeepsLog ==
  ASSUME TypeInv, LogInv, NEW j \in Jobs, JobStep(j) \/ Fail(j)
  PROVE  LogInv'
<1>1. UNCHANGED <<released, treeLog, mainLog>>  BY JobMoves
<1>2. ASSUME NEW i \in Jobs
      PROVE  /\ LogOK(job'[i].log, released) /\ job'[i].tag \notin Lists(job'[i].log)
             /\ job'[i].pc = "make" => LogOK(job'[i].sha, released)
  <2>1. CASE i # j  BY <2>1, JobMoves DEF LogInv
  <2>2. CASE i = j
    <3>5. job'[j].pc = "make" => LogOK(job'[j].sha, released)  BY JobMoves DEF LogInv
    <3>1. job'[j].tag = job[j].tag  BY JobMoves
    <3>2. CASE job'[j].log = job[j].log  BY <2>2, <3>1, <3>2, <3>5 DEF LogInv
    <3>3. CASE job'[j].log = <<>>  BY <2>2, <3>3, <3>5, EmptyLog
    <3>4. CASE job'[j].log = treeLog[job[j].tag] /\ job'[j].log # job[j].log
      <4>1. job[j].tag \in Tags  BY ActiveTag
      <4> QED  BY <2>2, <3>1, <3>4, <3>5, <4>1 DEF LogInv
    <3> QED  BY <3>2, <3>3, <3>4, JobMoves
  <2> QED  BY <2>1, <2>2
<1>3. ASSUME NEW t \in Tags PROVE LogOK(content'[LogSlot(t)], released)
  <2>1. content \in [Slots -> Seq(Sections)]  BY DEF TypeInv, TypeOK
  <2>2. LogSlot(t) \in Slots  BY DEF Slots
  <2>3. LogOK(content[LogSlot(t)], released)  BY DEF LogInv
  <2>4. CASE content' = content  BY <2>3, <2>4
  <2>5. CASE /\ CreateRef(j) /\ job[j].file = 0
             /\ content' = [content EXCEPT ![Slot(j)] = job[j].sha]
    BY <2>1, <2>2, <2>3, <2>5 DEF LogInv, CreateRef
  <2>6. CASE PutFile(j) /\ content' = [content EXCEPT ![Slot(j)] = Data(j)]
    <3>1. job[j].pc = "put"  BY <2>6 DEF PutFile
    <3>2. CASE job[j].file # 0
      BY <2>1, <2>2, <2>3, <2>6, <3>1, <3>2, PageIsNotLog
    <3>3. CASE job[j].file = 0
      <4>1. job[j].tag \in released  BY <3>1, TypeFacts DEF Sound
      <4>2. /\ job[j].log \in Seq(Sections)
            /\ Section(job[j].tag, job[j].wording) \in Sections
        BY <3>1, DataType
      <4>3. LogOK(Data(j), released)
        BY <3>3, <4>1, <4>2, PrependKeepsLog DEF Data, LogInv
      <4> QED  BY <2>1, <2>2, <2>3, <2>6, <4>3
    <3> QED  BY <3>2, <3>3
  <2> QED  BY <2>4, <2>5, <2>6, JobMoves
<1> QED  BY <1>1, <1>2, <1>3 DEF LogInv

LEMMA PeopleKeepLog ==
  ASSUME TypeInv, LogInv, People
  PROVE  LogInv'
<1>1. PICK t \in Tags : \/ Release(t) \/ EditBody(t) \/ MergePR(t) \/ ClosePR(t)
                        \/ \E j \in Jobs : EnqueueRelease(j, t)
  BY DEF People
<1>2. CASE Release(t)
  <2>1. /\ t \notin released /\ released' = released \cup {t}
        /\ treeLog' = [treeLog EXCEPT ![t] = mainLog]
        /\ UNCHANGED <<mainLog, content, job>>
    BY <1>2 DEF Release
  <2>2. released \subseteq released'  BY <2>1
  <2>3. LogOK(mainLog', released')  BY <2>1, <2>2, MoreReleases DEF LogInv
  <2>4. t \notin Lists(mainLog)  BY <2>1 DEF LogInv, LogOK
  <2>5. ASSUME NEW u \in Tags
        PROVE  /\ LogOK(treeLog'[u], released') /\ u \notin Lists(treeLog'[u])
               /\ LogOK(content'[LogSlot(u)], released')
    <3>1. LogOK(content'[LogSlot(u)], released')  BY <2>1, <2>2, MoreReleases DEF LogInv
    <3>2. CASE u = t
      <4>1. treeLog'[u] = mainLog  BY <2>1, <3>2 DEF TypeInv, TypeOK
      <4> QED  BY <2>1, <2>3, <2>4, <3>1, <3>2, <4>1
    <3>3. CASE u # t
      <4>1. treeLog'[u] = treeLog[u]  BY <2>1, <3>3 DEF TypeInv, TypeOK
      <4> QED  BY <2>2, <3>1, <4>1, MoreReleases DEF LogInv
    <3> QED  BY <3>2, <3>3
  <2>6. ASSUME NEW j \in Jobs
        PROVE  /\ LogOK(job'[j].log, released') /\ job'[j].tag \notin Lists(job'[j].log)
               /\ job'[j].pc = "make" => LogOK(job'[j].sha, released')
    BY <2>1, <2>2, MoreReleases DEF LogInv
  <2> QED  BY <2>3, <2>5, <2>6 DEF LogInv
<1>3. CASE EditBody(t) \/ ClosePR(t)
  <2>1. UNCHANGED <<released, treeLog, mainLog, content, job>>
    BY <1>3 DEF EditBody, ClosePR
  <2> QED  BY <2>1 DEF LogInv
<1>4. CASE MergePR(t)
  <2>1. UNCHANGED <<released, treeLog, job>>  BY <1>4 DEF MergePR
  <2>2. LogOK(mainLog', released)  BY <1>4 DEF MergePR, Merged, LogInv
  <2>3. content' = content \/ content' = [content EXCEPT ![LogSlot(t)] = <<>>]
    BY <1>4 DEF MergePR
  <2>4. content \in [Slots -> Seq(Sections)] /\ \A u \in Tags : LogSlot(u) \in Slots
    BY DEF TypeInv, TypeOK, Slots
  <2>5. \A u \in Tags : LogOK(content'[LogSlot(u)], released)
    BY <2>3, <2>4, EmptyLog DEF LogInv
  <2> QED  BY <2>1, <2>2, <2>5 DEF LogInv
<1>5. CASE \E j \in Jobs : EnqueueRelease(j, t)
  <2>1. PICK j \in Jobs : EnqueueRelease(j, t)  BY <1>5
  <2>2. UNCHANGED <<released, treeLog, mainLog, content>>
    BY <2>1 DEF EnqueueRelease, hostVars
  <2>3. /\ job' = [job EXCEPT ![j] = Fresh(t, 0)]
        /\ Fresh(t, 0).log = <<>> /\ Fresh(t, 0).pc = "available"
    BY <2>1 DEF EnqueueRelease, Fresh
  <2>4. \A i \in Jobs : \/ job'[i] = job[i]
                        \/ job'[i].log = <<>> /\ job'[i].pc = "available"
    BY <2>3, TypeFacts
  <2>5. \A i \in Jobs : /\ LogOK(job'[i].log, released) /\ job'[i].tag \notin Lists(job'[i].log)
                        /\ job'[i].pc = "make" => LogOK(job'[i].sha, released)
    BY <2>4, EmptyLog DEF LogInv
  <2> QED  BY <2>2, <2>5 DEF LogInv
<1> QED  BY <1>1, <1>2, <1>3, <1>4, <1>5

LEMMA LogInvariant == Spec => []LogInv
<1>1. TypeInv /\ LogInv /\ [Next]_releaseVars => LogInv'
  <2> SUFFICES ASSUME TypeInv, LogInv, [Next]_releaseVars PROVE LogInv'
    OBVIOUS
  <2>1. CASE UNCHANGED releaseVars
    BY <2>1 DEF releaseVars, hostVars, LogInv
  <2> QED  BY <2>1, JobStepKeepsLog, PeopleKeepLog DEF Next
<1> QED  BY <1>1, InitLog, TypeInvariant, PTL DEF Spec

\* However often a release is published, by whatever number of jobs, attempts
\* and failures, no changelog lists it twice (changelogpr.go).
THEOREM NoReleaseListedTwice == Spec => []NoSectionTwice
<1>1. LogInv => NoSectionTwice
  BY DEF LogInv, NoSectionTwice, LogOK, Unique
<1> QED  BY <1>1, LogInvariant, PTL

-----------------------------------------------------------------------------
(* Release bodies, and what a job has reached.                             *)

BodyInv ==
  /\ \A t \in Tags : Whole(relBody[t])
  /\ \A j \in Jobs : Whole(job[j].got)

LEMMA EmptyBody == Whole(<<>>) /\ ~ Shows(<<>>)
BY DEF Whole, AllUser, Shows

LEMMA InitBody == Init => BodyInv
BY EmptyBody DEF Init, Fresh, BodyInv

\* The write of a body.
LEMMA PutBodyWrites ==
  ASSUME TypeInv, NEW j \in Jobs, PutBody(j)
  PROVE  /\ job[j].tag \in Tags /\ job[j].got \in Seq(Pieces)
         /\ \E new \in Seq(Pieces) :
              /\ Shows(new)
              /\ Whole(job[j].got) => Whole(new)
              /\ relBody' = [relBody EXCEPT ![job[j].tag] =
                               IF new = job[j].got THEN @ ELSE new]
<1> DEFINE new == SpliceReleaseBody(job[j].got, Notes(job[j].wording))
<1>1. job[j].tag \in Tags /\ job[j].got \in Seq(Pieces) /\ job[j].wording \in Wordings
  BY TypeFacts DEF PutBody, Sound, Locals, TypeInv, TypeOK
<1>2. new \in Seq(Pieces) /\ Shows(new) /\ (Whole(job[j].got) => Whole(new))
  BY <1>1, SpliceType
<1>3. relBody' = [relBody EXCEPT ![job[j].tag] = IF new = job[j].got THEN @ ELSE new]
  BY DEF PutBody
<1> HIDE DEF new
<1> QED  BY <1>1, <1>2, <1>3

\* What the operator does to bodies.
LEMMA PeopleAndBodies ==
  ASSUME TypeInv, People
  PROVE  /\ \A t \in Tags : /\ Whole(relBody[t]) => Whole(relBody'[t])
                            /\ Shows(relBody[t]) => Shows(relBody'[t])
         /\ \A j \in Jobs : \/ job'[j] = job[j]
                            \/ /\ job'[j].tag \in Tags /\ job'[j].pc = "available"
                               /\ job'[j].got = <<>> /\ job'[j].file = 0
<1>1. PICK t \in Tags : \/ Release(t) \/ EditBody(t) \/ MergePR(t) \/ ClosePR(t)
                        \/ \E j \in Jobs : EnqueueRelease(j, t)
  BY DEF People
<1>2. CASE Release(t) \/ MergePR(t) \/ ClosePR(t)
  <2>1. UNCHANGED <<relBody, job>>  BY <1>2 DEF Release, MergePR, ClosePR
  <2> QED  BY <2>1
<1>3. CASE EditBody(t)
  <2>1. relBody[t] \in Seq(Pieces) /\ edits \in 0..MaxEdits /\ relBody \in [Tags -> Seq(Pieces)]
    BY DEF TypeInv, TypeOK
  <2>2. PICK m \in {<<User(edits)>> \o relBody[t], relBody[t] \o <<User(edits)>>} :
          relBody' = [relBody EXCEPT ![t] = m] /\ job' = job
    BY <1>3 DEF EditBody
  <2>3. (Whole(relBody[t]) => Whole(m)) /\ (Shows(relBody[t]) => Shows(m))
    BY <2>1, EditKeeps
  <2> QED  BY <2>1, <2>2, <2>3
<1>4. CASE \E j \in Jobs : EnqueueRelease(j, t)
  <2>1. PICK j \in Jobs : EnqueueRelease(j, t)  BY <1>4
  <2>2. relBody' = relBody /\ job' = [job EXCEPT ![j] = Fresh(t, 0)]
    BY <2>1 DEF EnqueueRelease, hostVars
  <2>3. /\ Fresh(t, 0).tag = t /\ Fresh(t, 0).pc = "available"
        /\ Fresh(t, 0).got = <<>> /\ Fresh(t, 0).file = 0
    BY DEF Fresh
  <2> QED  BY <2>2, <2>3, TypeFacts
<1> QED  BY <1>1, <1>2, <1>3, <1>4

LEMMA BodyInvariant == Spec => []BodyInv
<1>1. ASSUME TypeInv, BodyInv, NEW j \in Jobs, JobStep(j) \/ Fail(j) PROVE BodyInv'
  <2>1. relBody \in [Tags -> Seq(Pieces)] /\ job[j].tag \in Tags
    BY <1>1, ActiveTag DEF TypeInv, TypeOK
  <2>2. ASSUME NEW t \in Tags PROVE Whole(relBody'[t])
    <3>1. CASE relBody' = relBody  BY <1>1, <3>1 DEF BodyInv
    <3>2. CASE PutBody(j)
      <4>1. PICK new \in Seq(Pieces) :
              /\ Shows(new)
              /\ Whole(job[j].got) => Whole(new)
              /\ relBody' = [relBody EXCEPT ![job[j].tag] =
                               IF new = job[j].got THEN @ ELSE new]
        BY <1>1, <3>2, PutBodyWrites
      <4>2. Whole(new)  BY <1>1, <4>1 DEF BodyInv
      <4> QED  BY <1>1, <2>1, <4>1, <4>2 DEF BodyInv
    <3> QED  BY <1>1, <3>1, <3>2, JobMoves
  <2>3. ASSUME NEW i \in Jobs PROVE Whole(job'[i].got)
    <3>1. CASE i # j  BY <1>1, <3>1, JobMoves DEF BodyInv
    <3>2. CASE i = j
      <4>1. CASE job'[j].got = <<>>  BY <3>2, <4>1, EmptyBody
      <4>2. CASE job'[j].got = job[j].got  BY <1>1, <3>2, <4>2 DEF BodyInv
      <4>3. CASE job'[j].got = relBody[job[j].tag]  BY <1>1, <2>1, <3>2, <4>3 DEF BodyInv
      <4> QED  BY <1>1, <4>1, <4>2, <4>3, JobMoves
    <3> QED  BY <3>1, <3>2
  <2> QED  BY <2>2, <2>3 DEF BodyInv
<1>2. ASSUME TypeInv, BodyInv, People PROVE BodyInv'
  BY <1>2, PeopleAndBodies, EmptyBody DEF BodyInv
<1>3. TypeInv /\ BodyInv /\ [Next]_releaseVars => BodyInv'
  <2> SUFFICES ASSUME TypeInv, BodyInv, [Next]_releaseVars PROVE BodyInv'
    OBVIOUS
  <2>1. CASE UNCHANGED releaseVars
    BY <2>1 DEF releaseVars, hostVars, BodyInv
  <2> QED  BY <1>1, <1>2, <2>1 DEF Next
<1> QED  BY <1>3, InitBody, TypeInvariant, PTL DEF Spec

\* A release body has at most one managed section, and that one whole,
\* whatever jobs, retries and edits come between the read and the write of it
\* (releasebody.go, SpliceReleaseBody).
THEOREM ManagedSectionIsOne == Spec => []OneManagedSection
<1>1. BodyInv => OneManagedSection
  BY DEF BodyInv, OneManagedSection, Whole, AllUser, ManagedAt
<1> QED  BY <1>1, BodyInvariant, PTL

-----------------------------------------------------------------------------
(* What the operator writes.                                               *)

\* A job reads a body and writes it later: what is quiet was there before the
\* read of every job that is about to write.
QuietInv ==
  /\ \A t \in Tags, n \in Nat : n >= edits => Never(relBody[t], User(n))
  /\ \A j \in Jobs, n \in Nat : n >= edits => Never(job[j].got, User(n))
  /\ \A e \in quiet : Once(relBody[e[1]], User(e[2]))
  /\ \A e \in quiet, j \in Jobs : job[j].pc = "putBody" /\ job[j].tag = e[1] =>
       Once(job[j].got, User(e[2]))

LEMMA NothingWritten == \A u : Never(<<>>, u)
<1>1. DOMAIN <<>> = {}  OBVIOUS
<1> QED  BY <1>1 DEF Never

LEMMA InitQuiet == Init => QuietInv
<1> SUFFICES ASSUME Init PROVE QuietInv  OBVIOUS
<1>1. quiet = {} /\ \A t \in Tags : relBody[t] = <<>>  BY DEF Init
<1>2. \A j \in Jobs : job[j].got = <<>>  BY DEF Init, Fresh
<1> QED  BY <1>1, <1>2, NothingWritten DEF QuietInv

\* Only its read takes a job to its write.
LEMMA ReadBeforeWrite ==
  ASSUME TypeInv, NEW j \in Jobs, JobStep(j) \/ Fail(j), job'[j].pc = "putBody"
  PROVE  GetBody(j)
<1> USE TypeFacts
<1> SUFFICES ASSUME ~GetBody(j) PROVE job'[j].pc # "putBody"  OBVIOUS
<1>1. ASSUME Error(j) PROVE job'[j].pc # "putBody"  BY <1>1, ErrorMoves
<1>2. ASSUME NEW pc, Goto(j, pc) PROVE job'[j].pc = pc  BY <1>2 DEF Goto
<1>3. \A i : NextPage(i) # "putBody"  BY DEF NextPage
<1>4. CASE Generate(j)  BY <1>4 DEF Generate
<1>5. CASE PutBody(j)  BY <1>5 DEF PutBody
<1>6. CASE ReadLog(j)
  <2>1. CASE job' = [job EXCEPT ![j].pc = "ref", ![j].log = treeLog[job[j].tag]]
    BY <2>1
  <2>2. CASE Goto(j, "ref")  BY <1>2, <2>2
  <2> QED  BY <1>6, <2>1, <2>2 DEF ReadLog
<1>7. CASE GetRef(j)  BY <1>2, <1>7 DEF GetRef
<1>8. CASE CreateRef(j)
  <2>1. Error(j) \/ job' = [job EXCEPT ![j].pc = "sha", ![j].sha = <<>>]
    BY <1>8 DEF CreateRef
  <2>2. CASE job' = [job EXCEPT ![j].pc = "sha", ![j].sha = <<>>]  BY <2>2
  <2> QED  BY <1>1, <2>1, <2>2
<1>9. CASE GetContents(j)
  <2>1. \/ job' = [job EXCEPT ![j].pc = "put", ![j].sha = content[Slot(j)]]
        \/ Goto(j, "put")
    BY <1>9 DEF GetContents
  <2>2. CASE job' = [job EXCEPT ![j].pc = "put", ![j].sha = content[Slot(j)]]  BY <2>2
  <2> QED  BY <1>2, <2>1, <2>2
<1>10. CASE PutFile(j)
  <2>1. \/ Error(j)
        \/ job' = [job EXCEPT ![j].pc = "list", ![j].log = <<>>, ![j].sha = <<>>]
        \/ job' = [job EXCEPT ![j].pc = NextPage(job[j].file), ![j].file = @ + 1,
                              ![j].sha = <<>>]
    BY <1>10 DEF PutFile
  <2>2. CASE job' = [job EXCEPT ![j].pc = NextPage(job[j].file), ![j].file = @ + 1,
                                ![j].sha = <<>>]
    <3>1. job'[j].pc = NextPage(job[j].file)  BY <2>2
    <3> QED  BY <1>3, <3>1
  <2>3. CASE job' = [job EXCEPT ![j].pc = "list", ![j].log = <<>>, ![j].sha = <<>>]
    BY <2>3
  <2> QED  BY <1>1, <2>1, <2>2, <2>3
<1>11. CASE ListPRs(j) \/ CreatePR(j)
  <2>1. \/ Error(j)
        \/ job' = [job EXCEPT ![j].pc = NextPage(0), ![j].file = 1]
        \/ job' = [job EXCEPT ![j].pc = "create"]
    BY <1>11 DEF ListPRs, CreatePR
  <2>2. CASE job' = [job EXCEPT ![j].pc = NextPage(0), ![j].file = 1]
    <3>1. job'[j].pc = NextPage(0)  BY <2>2
    <3> QED  BY <1>3, <3>1
  <2>3. CASE job' = [job EXCEPT ![j].pc = "create"]  BY <2>3
  <2> QED  BY <1>1, <2>1, <2>2, <2>3
<1>12. CASE Record(j)  BY <1>12 DEF Record, Fresh
<1>13. CASE Fail(j)  BY <1>1, <1>13 DEF Fail
<1>14. CASE Skip(j)  BY <1>14 DEF Skip, Fresh
<1>15. CASE GetHead(j)  BY <1>15 DEF GetHead
<1> QED
  BY <1>4, <1>5, <1>6, <1>7, <1>8, <1>9, <1>10, <1>11, <1>12, <1>13, <1>14, <1>15 DEF JobStep

\* The write of a body, and what the job had read.
LEMMA PutBodyKeeps ==
  ASSUME TypeInv, BodyInv, NEW j \in Jobs, PutBody(j), NEW u, u[1] = "user"
  PROVE  /\ Never(job[j].got, u) /\ Never(relBody[job[j].tag], u) =>
              Never(relBody'[job[j].tag], u)
         /\ Once(job[j].got, u) /\ Once(relBody[job[j].tag], u) =>
              Once(relBody'[job[j].tag], u)
<1> DEFINE new == SpliceReleaseBody(job[j].got, Notes(job[j].wording))
<1>1. job[j].tag \in Tags /\ job[j].got \in Seq(Pieces) /\ job[j].wording \in Wordings
      /\ relBody \in [Tags -> Seq(Pieces)]
  BY TypeFacts DEF PutBody, Sound, Locals, TypeInv, TypeOK
<1>2. Whole(job[j].got)  BY DEF BodyInv
<1>3. (Never(job[j].got, u) => Never(new, u)) /\ (Once(job[j].got, u) => Once(new, u))
  BY <1>1, <1>2, SpliceCounts
<1>4. relBody' = [relBody EXCEPT ![job[j].tag] = IF new = job[j].got THEN @ ELSE new]
  BY DEF PutBody
<1> HIDE DEF new
<1>5. relBody'[job[j].tag] \in {new, relBody[job[j].tag]}  BY <1>1, <1>4
<1> QED  BY <1>3, <1>5

LEMMA UserPiece ==
  \A n, m : User(n)[1] = "user" /\ (User(n) = User(m) => n = m)
BY DEF User

LEMMA JobKeepsQuiet ==
  ASSUME TypeInv, BodyInv, QuietInv, NEW j \in Jobs, JobStep(j) \/ Fail(j)
  PROVE  QuietInv'
<1>1. relBody \in [Tags -> Seq(Pieces)] /\ job[j].tag \in Tags /\ quiet \subseteq Tags \X (0..MaxEdits)
  BY ActiveTag DEF TypeInv, TypeOK
<1>2. UNCHANGED <<quiet, edits>>  BY JobMoves
<1>3. ASSUME NEW t \in Tags, ~PutBody(j) \/ t # job[j].tag PROVE relBody'[t] = relBody[t]
  <2>1. CASE ~PutBody(j)  BY <2>1, JobMoves
  <2>2. CASE PutBody(j) /\ t # job[j].tag
    <3>1. PICK new \in Seq(Pieces) : relBody' = [relBody EXCEPT ![job[j].tag] =
                                                   IF new = job[j].got THEN @ ELSE new]
      BY <2>2, PutBodyWrites
    <3> QED  BY <1>1, <2>2, <3>1
  <2> QED  BY <1>3, <2>1, <2>2
<1>4. ASSUME NEW t \in Tags, NEW n \in Nat, n >= edits PROVE Never(relBody'[t], User(n))
  <2>1. Never(relBody[t], User(n)) /\ Never(job[j].got, User(n))  BY <1>4 DEF QuietInv
  <2>2. CASE ~PutBody(j) \/ t # job[j].tag  BY <1>3, <2>1, <2>2
  <2>3. CASE PutBody(j) /\ t = job[j].tag
    BY <2>1, <2>3, PutBodyKeeps, UserPiece
  <2> QED  BY <2>2, <2>3
<1>5. ASSUME NEW i \in Jobs, NEW n \in Nat, n >= edits PROVE Never(job'[i].got, User(n))
  <2>1. CASE i # j  BY <1>5, <2>1, JobMoves DEF QuietInv
  <2>2. CASE i = j
    <3>1. CASE job'[j].got = <<>>  BY <2>2, <3>1, NothingWritten
    <3>2. CASE job'[j].got = job[j].got  BY <1>5, <2>2, <3>2 DEF QuietInv
    <3>3. CASE job'[j].got = relBody[job[j].tag]  BY <1>1, <1>5, <2>2, <3>3 DEF QuietInv
    <3> QED  BY <3>1, <3>2, <3>3, JobMoves
  <2> QED  BY <2>1, <2>2
<1>6. ASSUME NEW e \in quiet PROVE Once(relBody'[e[1]], User(e[2]))
  <2>1. Once(relBody[e[1]], User(e[2])) /\ e[1] \in Tags  BY <1>1 DEF QuietInv
  <2>2. CASE ~PutBody(j) \/ e[1] # job[j].tag  BY <1>3, <2>1, <2>2
  <2>3. CASE PutBody(j) /\ e[1] = job[j].tag
    <3>1. Once(job[j].got, User(e[2]))  BY <2>3 DEF QuietInv, PutBody
    <3> QED  BY <2>1, <2>3, <3>1, PutBodyKeeps, UserPiece
  <2> QED  BY <2>2, <2>3
<1>7. ASSUME NEW e \in quiet, NEW i \in Jobs, job'[i].pc = "putBody", job'[i].tag = e[1]
      PROVE  Once(job'[i].got, User(e[2]))
  <2>1. CASE i # j  BY <1>7, <2>1, JobMoves DEF QuietInv
  <2>2. CASE i = j
    <3>1. GetBody(j)  BY <1>7, <2>2, ReadBeforeWrite
    <3>2. job'[j].got = relBody[job[j].tag]  BY <3>1, TypeFacts DEF GetBody
    <3>3. job'[j].tag = job[j].tag  BY JobMoves
    <3> QED  BY <1>7, <2>2, <3>2, <3>3 DEF QuietInv
  <2> QED  BY <2>1, <2>2
<1> QED  BY <1>2, <1>4, <1>5, <1>6, <1>7 DEF QuietInv

\* An edit adds a piece that is nowhere yet.
LEMMA EditKeepsQuiet ==
  ASSUME TypeInv, QuietInv, NEW t \in Tags, EditBody(t)
  PROVE  QuietInv'
<1> DEFINE one == <<User(edits)>>
<1>1. relBody \in [Tags -> Seq(Pieces)] /\ relBody[t] \in Seq(Pieces) /\ edits \in 0..MaxEdits
      /\ edits \in Nat
  BY ReleaseAssumption DEF TypeInv, TypeOK
<1>2. one \in Seq(Pieces)
  <2>1. User(edits) \in Pieces  BY <1>1 DEF Pieces
  <2> QED  BY <2>1
<1>3. Once(one, User(edits)) /\ \A n : n # edits => Never(one, User(n))
  <2>1. DOMAIN one = {1} /\ one[1] = User(edits)  OBVIOUS
  <2> HIDE DEF one
  <2>2. \A n : n # edits => User(edits) # User(n)  BY UserPiece
  <2> QED  BY <2>1, <2>2 DEF Once, Never
<1> HIDE DEF one
<1>4. PICK m \in {one \o relBody[t], relBody[t] \o one} :
        relBody' = [relBody EXCEPT ![t] = m] /\ job' = job
  BY DEF EditBody, one
<1>5. ASSUME NEW u
      PROVE  /\ Never(one, u) /\ Never(relBody[t], u) => Never(m, u)
             /\ Once(one, u) /\ Never(relBody[t], u) => Once(m, u)
             /\ Never(one, u) /\ Once(relBody[t], u) => Once(m, u)
  BY <1>1, <1>2, <1>4, ConcatCounts
<1>6. edits' = edits + 1 /\ quiet' \subseteq quiet \cup {<<t, edits>>}
      /\ (<<t, edits>> \in quiet' \ quiet =>
            \A j \in Jobs : ~(job[j].tag = t /\ job[j].pc = "putBody"))
  BY DEF EditBody
<1>7. \A s \in Tags : relBody'[s] = IF s = t THEN m ELSE relBody[s]  BY <1>1, <1>4
<1>8. \A n \in Nat : n >= edits' => n >= edits /\ n # edits  BY <1>1, <1>6
<1>9. \A s \in Tags, n \in Nat : n >= edits' => Never(relBody'[s], User(n))
  BY <1>3, <1>5, <1>7, <1>8 DEF QuietInv
<1>10. \A j \in Jobs, n \in Nat : n >= edits' => Never(job'[j].got, User(n))
  BY <1>4, <1>8 DEF QuietInv
<1>11. ASSUME NEW e \in quiet PROVE Once(relBody'[e[1]], User(e[2]))
  <2>1. Once(relBody[e[1]], User(e[2])) /\ e[1] \in Tags /\ e[2] \in Nat
    BY ReleaseAssumption DEF QuietInv, TypeInv, TypeOK
  <2>2. e[2] # edits
    <3>1. ~Never(relBody[e[1]], User(e[2]))  BY <2>1 DEF Once, Never
    <3>2. ~(e[2] >= edits)  BY <2>1, <3>1 DEF QuietInv
    <3> QED  BY <1>1, <3>2
  <2>3. Never(one, User(e[2]))  BY <1>3, <2>2
  <2> QED  BY <1>5, <1>7, <2>1, <2>3
<1>12. Once(m, User(edits))
  <2>1. Never(relBody[t], User(edits))  BY <1>1 DEF QuietInv
  <2> QED  BY <1>3, <1>5, <2>1
<1>13. \A e \in quiet' : Once(relBody'[e[1]], User(e[2]))
  <2> SUFFICES ASSUME NEW e \in quiet', e \notin quiet PROVE Once(relBody'[e[1]], User(e[2]))
    BY <1>11
  <2>1. e = <<t, edits>>  BY <1>6
  <2> QED  BY <1>7, <1>12, <2>1
<1>14. \A e \in quiet', j \in Jobs : job'[j].pc = "putBody" /\ job'[j].tag = e[1] =>
         Once(job'[j].got, User(e[2]))
  BY <1>4, <1>6, SMTT(30) DEF QuietInv
<1> QED  BY <1>9, <1>10, <1>13, <1>14 DEF QuietInv

LEMMA PeopleKeepQuiet ==
  ASSUME TypeInv, QuietInv, People
  PROVE  QuietInv'
<1>1. PICK t \in Tags : \/ Release(t) \/ EditBody(t) \/ MergePR(t) \/ ClosePR(t)
                        \/ \E j \in Jobs : EnqueueRelease(j, t)
  BY DEF People
<1>2. CASE Release(t) \/ MergePR(t) \/ ClosePR(t)
  BY <1>2 DEF Release, MergePR, ClosePR, QuietInv
<1>3. CASE EditBody(t)  BY <1>3, EditKeepsQuiet
<1>4. CASE \E j \in Jobs : EnqueueRelease(j, t)
  <2>1. PICK j \in Jobs : EnqueueRelease(j, t)  BY <1>4
  <2>2. UNCHANGED <<relBody, quiet, edits>> /\ job' = [job EXCEPT ![j] = Fresh(t, 0)]
    BY <2>1 DEF EnqueueRelease, hostVars
  <2>3. Fresh(t, 0).pc # "putBody" /\ Fresh(t, 0).got = <<>>  BY DEF Fresh
  <2>4. \A i \in Jobs : job'[i] = IF i = j THEN Fresh(t, 0) ELSE job[i]
    BY <2>2, TypeFacts
  <2> QED  BY <2>2, <2>3, <2>4, NothingWritten DEF QuietInv
<1> QED  BY <1>1, <1>2, <1>3, <1>4

\* What the operator wrote while no job stood between the read and the write
\* of that body stays in it for ever, and once, through every publication,
\* retry and later edit (releasebody.go, Publish).
THEOREM OperatorTextSurvives == Spec => []QuietEditsSurvive
<1>1. TypeInv /\ BodyInv /\ QuietInv /\ [Next]_releaseVars => QuietInv'
  <2> SUFFICES ASSUME TypeInv, BodyInv, QuietInv, [Next]_releaseVars PROVE QuietInv'
    OBVIOUS
  <2>1. CASE UNCHANGED releaseVars  BY <2>1 DEF releaseVars, hostVars, QuietInv
  <2> QED  BY <2>1, JobKeepsQuiet, PeopleKeepQuiet DEF Next
<1>2. QuietInv => QuietEditsSurvive
  <2> SUFFICES ASSUME QuietInv, NEW e \in quiet
      PROVE Cardinality({i \in DOMAIN relBody[e[1]] : relBody[e[1]][i] = User(e[2])}) = 1
    BY DEF QuietEditsSurvive
  <2>1. PICK i \in DOMAIN relBody[e[1]] :
          /\ relBody[e[1]][i] = User(e[2])
          /\ \A k \in DOMAIN relBody[e[1]] : relBody[e[1]][k] = User(e[2]) => k = i
    BY DEF QuietInv, Once
  <2>2. {k \in DOMAIN relBody[e[1]] : relBody[e[1]][k] = User(e[2])} = {i}  BY <2>1
  <2> QED  BY <2>2, FS_Singleton
<1> QED  BY <1>1, <1>2, InitQuiet, TypeInvariant, BodyInvariant, PTL DEF Spec

-----------------------------------------------------------------------------
(* Publication.                                                            *)

Page(t, i) == <<t, Pages[i]>>

\* The release t is published, in these bodies, pull requests and files.
InPlace(t, bodies, prs, files) ==
  /\ Shows(bodies[t])
  /\ prs[t] # "none"
  /\ \A i \in 1..Len(Pages) : files[Page(t, i)] # <<>>

\* What a job r has published so far is in its places.
Progress(r, bodies, prs, files) ==
  r.pc # "unused" =>
    /\ Shows(r.got) => Shows(bodies[r.tag])
    /\ r.pc \in {"readLog", "ref", "head", "make", "sha", "put", "list", "create", "record"}
         => Shows(bodies[r.tag])
    /\ r.file # 0 => /\ prs[r.tag] # "none"
                     /\ \A i \in 1..r.file - 1 : files[Page(r.tag, i)] # <<>>
    /\ r.pc = "record" => r.file = Len(Pages) + 1
    /\ r.pc = "done" => InPlace(r.tag, bodies, prs, files)

ProgressInv ==
  /\ \A j \in Jobs : Progress(job[j], relBody, pr, content)
  /\ \A t \in recorded : InPlace(t, relBody, pr, content)

\* What has been published stays.
Stays ==
  \A t \in Tags :
    /\ Shows(relBody[t]) => Shows(relBody'[t])
    /\ pr[t] # "none" => pr'[t] # "none"
    /\ \A i \in 1..Len(Pages) : content[Page(t, i)] # <<>> => content'[Page(t, i)] # <<>>

LEMMA PublishedMeans ==
  ASSUME NEW t
  PROVE  InPlace(t, relBody, pr, content) => Published(t)
<1>1. DOMAIN Pages = 1..Len(Pages)  BY ReleaseAssumption
<1>2. PageSlots(t) = {Page(t, i) : i \in 1..Len(Pages)}
  BY <1>1 DEF PageSlots, Page, ToSet
<1> QED  BY <1>2 DEF InPlace, Published, Shows

LEMMA PublishedStays ==
  ASSUME NEW t \in Tags, InPlace(t, relBody, pr, content), Stays
  PROVE  InPlace(t, relBody', pr', content')
BY DEF InPlace, Stays

LEMMA ProgressStays ==
  ASSUME NEW r \in Locals, r.pc # "unused" => r.tag \in Tags,
         Progress(r, relBody, pr, content), Stays
  PROVE  Progress(r, relBody', pr', content')
<1> SUFFICES ASSUME r.pc # "unused" PROVE Progress(r, relBody', pr', content')
  BY DEF Progress
<1>1. r.tag \in Tags /\ Len(Pages) \in Nat /\ r.file \in 0..Len(Pages) + 1
  BY ReleaseAssumption DEF Locals
<1>2. \A i \in 1..r.file - 1 : i \in 1..Len(Pages)  BY <1>1
<1>3. r.pc = "done" => InPlace(r.tag, relBody', pr', content')
  BY <1>1, PublishedStays DEF Progress
<1> QED  BY <1>1, <1>2, <1>3 DEF Progress, Stays

LEMMA JobKeepsPublished ==
  ASSUME TypeInv, ProgressInv, NEW j \in Jobs, JobStep(j) \/ Fail(j)
  PROVE  Stays
<1> SUFFICES ASSUME NEW t \in Tags
             PROVE  /\ Shows(relBody[t]) => Shows(relBody'[t])
                    /\ pr[t] # "none" => pr'[t] # "none"
                    /\ \A i \in 1..Len(Pages) :
                         content[Page(t, i)] # <<>> => content'[Page(t, i)] # <<>>
  BY DEF Stays
<1>1. /\ relBody \in [Tags -> Seq(Pieces)] /\ content \in [Slots -> Seq(Sections)]
      /\ pr \in [Tags -> {"none", "open", "closed"}]
  BY DEF TypeInv, TypeOK
<1>2. Shows(relBody[t]) => Shows(relBody'[t])
  <2>1. CASE relBody' = relBody  BY <2>1
  <2>2. CASE PutBody(j)
    <3>1. PICK new \in Seq(Pieces) :
            /\ Shows(new)
            /\ relBody' = [relBody EXCEPT ![job[j].tag] = IF new = job[j].got THEN @ ELSE new]
      BY <2>2, PutBodyWrites
    <3> QED  BY <1>1, <3>1
  <2> QED  BY <2>1, <2>2, JobMoves
<1>3. pr[t] # "none" => pr'[t] # "none"  BY <1>1, JobMoves
<1>4. ASSUME NEW i \in 1..Len(Pages), content[Page(t, i)] # <<>>
      PROVE  content'[Page(t, i)] # <<>>
  <2>1. Page(t, i) \in Slots
    <3>1. Pages[i] \in ToSet(Pages)  BY ReleaseAssumption DEF ToSet
    <3> QED  BY <3>1 DEF Slots, PageSlots, Page
  <2>2. CASE content' = content  BY <1>4, <2>2
  <2>3. CASE /\ CreateRef(j) /\ job[j].file = 0
             /\ content' = [content EXCEPT ![Slot(j)] = job[j].sha]
    <3>1. Slot(j) = LogSlot(job[j].tag)  BY <2>3 DEF Slot
    <3>2. Page(t, i) # LogSlot(job[j].tag)
      <4>1. Pages[i] # "log"  BY ReleaseAssumption
      <4> QED  BY <4>1 DEF Page, LogSlot
    <3> QED  BY <1>1, <1>4, <2>1, <2>3, <3>1, <3>2
  <2>4. CASE PutFile(j) /\ content' = [content EXCEPT ![Slot(j)] = Data(j)]
    <3>1. job[j].log \in Seq(Sections) /\ Section(job[j].tag, job[j].wording) \in Sections
      BY <2>4, DataType DEF PutFile
    <3>2. Data(j) # <<>>
      <4>1. <<Section(job[j].tag, job[j].wording)>> \in Seq(Sections)  BY <3>1
      <4>2. <<Section(job[j].tag, job[j].wording)>> # <<>>  OBVIOUS
      <4>3. <<Section(job[j].tag, job[j].wording)>> \o job[j].log # <<>>
        BY <3>1, <4>1, <4>2, ConcatEqualIffEmpty
      <4> QED  BY <4>2, <4>3 DEF Data
    <3> QED  BY <1>1, <1>4, <2>1, <2>4, <3>2
  <2> QED  BY <2>2, <2>3, <2>4, JobMoves
<1> QED  BY <1>2, <1>3, <1>4

LEMMA PeopleKeepPublished ==
  ASSUME TypeInv, People
  PROVE  Stays
<1> SUFFICES ASSUME NEW t \in Tags
             PROVE  /\ pr[t] # "none" => pr'[t] # "none"
                    /\ \A i \in 1..Len(Pages) :
                         content[Page(t, i)] # <<>> => content'[Page(t, i)] # <<>>
  BY PeopleAndBodies DEF Stays
<1>1. content \in [Slots -> Seq(Sections)] /\ pr \in [Tags -> {"none", "open", "closed"}]
  BY DEF TypeInv, TypeOK
<1>2. PICK u \in Tags : \/ Release(u) \/ EditBody(u) \/ MergePR(u) \/ ClosePR(u)
                        \/ \E j \in Jobs : EnqueueRelease(j, u)
  BY DEF People
<1>3. \/ content' = content
      \/ content' = [content EXCEPT ![LogSlot(u)] = <<>>]
  BY <1>2 DEF Release, EditBody, MergePR, ClosePR, EnqueueRelease, hostVars
<1>4. pr' = pr \/ pr' = [pr EXCEPT ![u] = "closed"]
  BY <1>2 DEF Release, EditBody, MergePR, ClosePR, EnqueueRelease, hostVars
<1>5. ASSUME NEW i \in 1..Len(Pages) PROVE Page(t, i) # LogSlot(u) /\ Page(t, i) \in Slots
  <2>1. Pages[i] # "log" /\ Pages[i] \in ToSet(Pages)  BY ReleaseAssumption DEF ToSet
  <2> QED  BY <2>1 DEF Page, LogSlot, Slots, PageSlots
<1> QED  BY <1>1, <1>3, <1>4, <1>5

\* A job that starts again, or does nothing, has published nothing that counts.
LEMMA IdleProgress ==
  ASSUME NEW r, r.got = <<>>, r.file = 0, r.pc \in {"available", "skipped", "discarded"},
         NEW bodies, NEW prs, NEW files
  PROVE  Progress(r, bodies, prs, files)
BY EmptyBody DEF Progress

\* A step that moves a job on among the calls of a publisher.
LEMMA SameProgress ==
  ASSUME NEW r \in Locals, NEW n, NEW bodies, NEW prs, NEW files,
         Progress(r, bodies, prs, files), r.pc # "unused",
         n.tag = r.tag, n.file = r.file, n.got \in {r.got, <<>>},
         n.pc \in {"getBody", "putBody"}
           \/ /\ n.pc \in {"ref", "head", "make", "sha", "put", "list", "create"}
              /\ r.pc \in {"readLog", "ref", "head", "make", "sha", "put", "list"}
  PROVE  Progress(n, bodies, prs, files)
BY EmptyBody DEF Progress

\* A job goes to its next page.
LEMMA NextPageProgress ==
  ASSUME NEW r, NEW n, NEW bodies, NEW prs, NEW files, NEW i \in 0..Len(Pages),
         Len(Pages) \in Nat,
         n.tag = r.tag, n.file = i + 1, n.pc = NextPage(i), ~ Shows(n.got) \/ Shows(bodies[r.tag]),
         Shows(bodies[r.tag]), prs[r.tag] # "none",
         \A k \in 1..i : files[Page(r.tag, k)] # <<>>
  PROVE  Progress(n, bodies, prs, files)
<1>1. n.pc \in {"ref", "record"} /\ (n.pc = "record" => i = Len(Pages))
  BY DEF NextPage
<1>2. n.file - 1 = i  OBVIOUS
<1> QED  BY <1>1, <1>2 DEF Progress

LEMMA JobProgress ==
  ASSUME TypeInv, ProgressInv, NEW j \in Jobs, JobStep(j) \/ Fail(j)
  PROVE  Progress(job'[j], relBody', pr', content')
<1> DEFINE r == job[j]
           new == job'[j]
           Goal == Progress(new, relBody', pr', content')
<1>1. /\ r \in Locals /\ Sound(r, released) /\ job \in [Jobs -> Locals]
      /\ Len(Pages) \in Nat
  BY TypeFacts
<1>2. r.tag \in Tags /\ new.tag = r.tag  BY ActiveTag, JobMoves
<1>3. Stays  BY JobKeepsPublished
<1>4. Progress(r, relBody', pr', content')
  BY <1>1, <1>2, <1>3, ProgressStays DEF ProgressInv
<1>5. Error(j) => Goal  BY ErrorMoves, IdleProgress
<1>6. CASE Generate(j)
  <2>1. new.pc = "getBody" /\ new.file = r.file /\ new.got = r.got /\ r.pc = "available"
    BY <1>1, <1>6 DEF Generate, Locals
  <2> QED  BY <1>1, <1>2, <1>4, <2>1, SameProgress
<1>7. CASE GetBody(j)
  <2>1. /\ new.pc = "putBody" /\ new.file = r.file /\ new.got = relBody[r.tag]
        /\ r.pc = "getBody" /\ relBody' = relBody
    BY <1>1, <1>7 DEF GetBody, Locals, hostVars
  <2>2. r.file = 0  BY <1>1, <2>1 DEF Sound
  <2> QED  BY <1>2, <2>1, <2>2 DEF Progress
<1>8. CASE PutBody(j)
  <2>1. new.pc = "readLog" /\ new.file = r.file /\ new.got = <<>> /\ r.pc = "putBody"
    BY <1>1, <1>8 DEF PutBody, Locals
  <2>2. r.file = 0  BY <1>1, <2>1 DEF Sound
  <2>3. PICK body \in Seq(Pieces) :
          /\ Shows(body)
          /\ relBody' = [relBody EXCEPT ![r.tag] = IF body = r.got THEN @ ELSE body]
    BY <1>8, PutBodyWrites
  <2>4. relBody \in [Tags -> Seq(Pieces)]  BY DEF TypeInv, TypeOK
  <2>5. CASE body = r.got
    <3>1. Shows(relBody'[r.tag])  BY <1>4, <2>1, <2>3, <2>5 DEF Progress
    <3> QED  BY <1>2, <2>1, <2>2, <3>1, EmptyBody DEF Progress
  <2>6. CASE body # r.got
    <3>1. Shows(relBody'[r.tag])  BY <1>2, <2>3, <2>4, <2>6
    <3> QED  BY <1>2, <2>1, <2>2, <3>1, EmptyBody DEF Progress
  <2> QED  BY <2>5, <2>6
<1>9. CASE ReadLog(j)
  <2>1. new.pc = "ref" /\ new.file = r.file /\ new.got = r.got /\ r.pc = "readLog"
    BY <1>1, <1>9 DEF ReadLog, Goto, Locals
  <2> QED  BY <1>1, <1>2, <1>4, <2>1, SameProgress
<1>10. CASE GetRef(j)
  <2>1. new.pc \in {"sha", "head"} /\ new.file = r.file /\ new.got = r.got /\ r.pc = "ref"
    BY <1>1, <1>10 DEF GetRef, Goto, Locals
  <2> QED  BY <1>1, <1>2, <1>4, <2>1, SameProgress
<1>11. CASE CreateRef(j)
  <2>1. CASE job' = [job EXCEPT ![j].pc = "sha", ![j].sha = <<>>]
    <3>1. new.pc = "sha" /\ new.file = r.file /\ new.got = r.got /\ r.pc = "make"
      BY <1>1, <1>11, <2>1 DEF CreateRef, Locals
    <3> QED  BY <1>1, <1>2, <1>4, <3>1, SameProgress
  <2> QED  BY <1>5, <1>11, <2>1 DEF CreateRef
<1>12. CASE GetContents(j)
  <2>1. new.pc = "put" /\ new.file = r.file /\ new.got = r.got /\ r.pc = "sha"
    BY <1>1, <1>12 DEF GetContents, Goto, Locals
  <2> QED  BY <1>1, <1>2, <1>4, <2>1, SameProgress
<1>13. CASE PutFile(j)
  <2>1. r.pc = "put"  BY <1>13 DEF PutFile
  <2>2. CASE ~ (Branch(j) \in branches /\ content[Slot(j)] = job[j].sha)
    BY <1>5, <1>13, <2>2 DEF PutFile
  <2>3. CASE /\ Branch(j) \in branches /\ content[Slot(j)] = job[j].sha
             /\ job[j].file = 0
    <3>1. job' = [job EXCEPT ![j].pc = "list", ![j].log = <<>>, ![j].sha = <<>>]
      BY <1>13, <2>3 DEF PutFile
    <3>2. new.pc = "list" /\ new.file = r.file /\ new.got = r.got
      BY <1>1, <3>1 DEF Locals
    <3> QED  BY <1>1, <1>2, <1>4, <2>1, <3>2, SameProgress
  <2>4. CASE /\ Branch(j) \in branches /\ content[Slot(j)] = job[j].sha
             /\ job[j].file # 0
    <3>1. /\ job' = [job EXCEPT ![j].pc = NextPage(job[j].file), ![j].file = @ + 1,
                                ![j].sha = <<>>]
          /\ content' = [content EXCEPT ![Slot(j)] = <<Section(r.tag, r.wording)>>]
      BY <1>13, <2>4 DEF PutFile, Data
    <3>2. /\ r.file \in 1..Len(Pages) /\ Slot(j) = Page(r.tag, r.file) /\ Slot(j) \in Slots
      BY <2>1, <2>4, SlotIsSlot DEF Page
    <3>3. new.pc = NextPage(r.file) /\ new.file = r.file + 1 /\ new.got = r.got
      BY <1>1, <3>1 DEF Locals
    <3>4. content'[Page(r.tag, r.file)] # <<>>
      BY <3>1, <3>2 DEF TypeInv, TypeOK
    <3>5. /\ Shows(relBody'[r.tag]) /\ pr'[r.tag] # "none"
          /\ \A i \in 1..r.file - 1 : content'[Page(r.tag, i)] # <<>>
      BY <1>4, <2>1, <2>4 DEF Progress
    <3>6. \A i \in 1..r.file : content'[Page(r.tag, i)] # <<>>
      BY <3>2, <3>4, <3>5
    <3>7. r.file \in 0..Len(Pages)  BY <1>1, <3>2
    <3> QED  BY <1>1, <1>2, <3>3, <3>5, <3>6, <3>7, NextPageProgress
  <2> QED  BY <2>2, <2>3, <2>4
<1>14. ASSUME r.pc \in {"list", "create"}, job' = [job EXCEPT ![j] = ToPages(r)],
              pr'[r.tag] # "none"
       PROVE  Goal
  <2>1. new.pc = NextPage(0) /\ new.file = 0 + 1 /\ new.got = r.got
    BY <1>1, <1>14 DEF ToPages, Locals
  <2>2. Shows(relBody'[r.tag])  BY <1>4, <1>14 DEF Progress
  <2>3. 0 \in 0..Len(Pages) /\ \A k \in 1..0 : content'[Page(r.tag, k)] # <<>>
    BY <1>1
  <2> QED  BY <1>1, <1>2, <1>14, <2>1, <2>2, <2>3, NextPageProgress
<1>15. CASE ListPRs(j)
  <2>1. CASE pr[r.tag] = "open"
    <3>1. job' = [job EXCEPT ![j] = ToPages(r)] /\ r.pc = "list" /\ pr' = pr
      BY <1>1, <1>15, <2>1 DEF ListPRs, ToPages, hostVars
    <3> QED  BY <1>14, <2>1, <3>1
  <2>2. CASE pr[r.tag] # "open"
    <3>1. new.pc = "create" /\ new.file = r.file /\ new.got = r.got /\ r.pc = "list"
      BY <1>1, <1>15, <2>2 DEF ListPRs, Locals
    <3> QED  BY <1>1, <1>2, <1>4, <3>1, SameProgress
  <2> QED  BY <2>1, <2>2
<1>16. CASE CreatePR(j)
  <2>1. CASE pr[r.tag] # "open" /\ r.tag \in branches \cap ahead
    <3>1. job' = [job EXCEPT ![j] = ToPages(r)] /\ r.pc = "create"
      BY <1>1, <1>16, <2>1 DEF CreatePR, ToPages
    <3>2. pr'[r.tag] = "open"
      BY <1>2, <1>16, <2>1 DEF CreatePR, TypeInv, TypeOK
    <3> QED  BY <1>14, <3>1, <3>2
  <2> QED  BY <1>5, <1>16, <2>1 DEF CreatePR
<1>17. CASE Record(j)
  <2>1. new = [Fresh(r.tag, 0) EXCEPT !.pc = "done"] /\ r.pc = "record"
    BY <1>1, <1>17 DEF Record
  <2>2. new.pc = "done" /\ new.file = 0 /\ new.got = <<>>
    BY <2>1 DEF Fresh
  <2>3. /\ Shows(relBody'[r.tag]) /\ r.file = Len(Pages) + 1
        /\ pr'[r.tag] # "none"
        /\ \A i \in 1..r.file - 1 : content'[Page(r.tag, i)] # <<>>
    BY <1>1, <1>4, <2>1 DEF Progress
  <2>4. InPlace(r.tag, relBody', pr', content')
    BY <1>1, <2>3 DEF InPlace
  <2> QED  BY <1>2, <2>2, <2>4, EmptyBody DEF Progress
<1>18. CASE Fail(j)
  BY <1>5, <1>18 DEF Fail
<1>19. CASE Skip(j)
  <2>1. new = [Fresh(r.tag, 0) EXCEPT !.pc = "skipped"]
    BY <1>1, <1>19 DEF Skip
  <2>2. new.pc = "skipped" /\ new.file = 0 /\ new.got = <<>>
    BY <2>1 DEF Fresh
  <2> QED  BY <2>2, IdleProgress
<1>20. CASE GetHead(j)
  <2>1. new.pc = "make" /\ new.file = r.file /\ new.got = r.got /\ r.pc = "head"
    BY <1>1, <1>20 DEF GetHead, Locals
  <2> QED  BY <1>1, <1>2, <1>4, <2>1, SameProgress
<1> QED
  BY <1>6, <1>7, <1>8, <1>9, <1>10, <1>11, <1>12, <1>13, <1>15, <1>16, <1>17, <1>18,
     <1>19, <1>20 DEF JobStep

LEMMA InitProgress == Init => ProgressInv
<1> SUFFICES ASSUME Init PROVE ProgressInv
  OBVIOUS
<1>1. \A j \in Jobs : job[j].pc = "unused"  BY DEF Init, Fresh
<1> QED  BY <1>1 DEF Init, ProgressInv, Progress

LEMMA ProgressInvariant == Spec => []ProgressInv
<1>1. ASSUME TypeInv, ProgressInv, Stays, NEW i \in Jobs, job'[i] = job[i]
      PROVE  Progress(job'[i], relBody', pr', content')
  <2>1. job[i] \in Locals /\ (job[i].pc # "unused" => job[i].tag \in Tags)
    BY <1>1, TypeFacts DEF Sound, TypeInv, TypeOK
  <2> QED  BY <1>1, <2>1, ProgressStays DEF ProgressInv
<1>2. ASSUME TypeInv, ProgressInv, Stays, NEW t \in recorded
      PROVE  InPlace(t, relBody', pr', content')
  BY <1>2, PublishedStays DEF ProgressInv, TypeInv, TypeOK
<1>3. ASSUME TypeInv, ProgressInv, NEW j \in Jobs, JobStep(j) \/ Fail(j)
      PROVE  ProgressInv'
  <2>1. Stays  BY <1>3, JobKeepsPublished
  <2>2. ASSUME NEW i \in Jobs PROVE Progress(job'[i], relBody', pr', content')
    <3>1. CASE i = j  BY <1>3, <3>1, JobProgress
    <3>2. CASE i # j
      <4>1. job'[i] = job[i]  BY <1>3, <3>2, JobMoves
      <4> QED  BY <1>1, <1>3, <2>1, <4>1
    <3> QED  BY <3>1, <3>2
  <2>3. ASSUME NEW t \in recorded' PROVE InPlace(t, relBody', pr', content')
    <3>1. CASE t \in recorded  BY <1>2, <1>3, <2>1, <3>1
    <3>2. CASE t \notin recorded
      <4>1. Record(j)  BY <1>3, <3>2, JobMoves
      <4>2. t = job[j].tag /\ job[j].pc = "record"  BY <3>2, <4>1 DEF Record
      <4>3. job'[j].pc = "done" /\ job'[j].tag = t
        <5>1. job'[j] = [Fresh(job[j].tag, 0) EXCEPT !.pc = "done"]
          BY <4>1, <1>3, TypeFacts DEF Record
        <5> QED  BY <4>2, <5>1 DEF Fresh
      <4> QED  BY <2>2, <4>3 DEF Progress
    <3> QED  BY <3>1, <3>2
  <2> QED  BY <2>2, <2>3 DEF ProgressInv
<1>4. ASSUME TypeInv, ProgressInv, People
      PROVE  ProgressInv'
  <2>1. Stays  BY <1>4, PeopleKeepPublished
  <2>2. ASSUME NEW i \in Jobs PROVE Progress(job'[i], relBody', pr', content')
    <3>1. CASE job'[i] = job[i]  BY <1>1, <1>4, <2>1, <3>1
    <3>2. CASE job'[i].pc = "available" /\ job'[i].got = <<>> /\ job'[i].file = 0
      BY <3>2, IdleProgress
    <3> QED  BY <1>4, <3>1, <3>2, PeopleAndBodies
  <2>3. recorded' = recorded
    BY <1>4 DEF People, Release, EditBody, MergePR, ClosePR, EnqueueRelease
  <2> QED  BY <1>2, <1>4, <2>1, <2>2, <2>3 DEF ProgressInv
<1>5. TypeInv /\ ProgressInv /\ [Next]_releaseVars => ProgressInv'
  <2> SUFFICES ASSUME TypeInv, ProgressInv, [Next]_releaseVars PROVE ProgressInv'
    OBVIOUS
  <2>1. CASE UNCHANGED releaseVars
    BY <2>1 DEF releaseVars, hostVars, ProgressInv
  <2> QED  BY <1>3, <1>4, <2>1 DEF Next
<1> QED  BY <1>5, InitProgress, TypeInvariant, PTL DEF Spec

\* A job that had its configuration and ends, or a row in release_docs_state,
\* means that every publisher has done its work, whatever was retried, merged,
\* closed or edited meanwhile (dispatcher.go, Run).
THEOREM DoneIsPublished == Spec => []FinishedIsPublished
<1>1. ProgressInv /\ TypeInv => FinishedIsPublished
  <2> SUFFICES ASSUME ProgressInv, TypeInv PROVE FinishedIsPublished
    OBVIOUS
  <2>1. \A j \in Jobs : job[j].pc = "done" => InPlace(job[j].tag, relBody, pr, content)
    BY DEF ProgressInv, Progress
  <2> QED  BY <2>1, PublishedMeans DEF ProgressInv, FinishedIsPublished
<1> QED  BY <1>1, ProgressInvariant, TypeInvariant, PTL

-----------------------------------------------------------------------------
(* Retries.                                                                *)

\* The attempts of a job that ended in an error.
Errors(r) ==
  IF r.pc \in {"available", "discarded"} THEN r.attempt ELSE r.attempt - 1

\* An attempt that has yet to see to the pull request of its changelog.
Early(r) ==
  /\ r.file = 0
  /\ r.pc \in {"available", "getBody", "putBody", "readLog", "ref", "head", "make", "sha",
               "put", "list", "create"}

\* The branch it has found, made or written was merged since, and perhaps
\* deleted.
Lost(r, brs, ahd) ==
  /\ r.file = 0
  /\ \/ r.pc \in {"sha", "put", "list", "create"} /\ r.tag \notin brs
     \/ r.pc \in {"list", "create"} /\ r.tag \notin ahd

\* What the calls read is not so: the branch is said to be missing, or its file,
\* because the call that asked has failed.
Misled(r, brs, files) ==
  \/ r.pc \in {"head", "make"} /\ (IF r.file = 0 THEN r.tag ELSE PagesBranch) \in brs
  \/ r.pc = "put" /\ r.file = 0 /\ r.tag \in brs /\ files[LogSlot(r.tag)] # r.sha
  \/ r.pc = "put" /\ r.file # 0 /\ files[<<r.tag, Pages[r.file]>>] # r.sha

\* The job of a repository with no other, by its record r and what is on the
\* host.  A call is refused only when one before it has failed unnoticed, or
\* when a merge has come under it; the pull request that was merged is from an
\* earlier attempt, which failed after it had opened it.  So of the attempts
\* that ended in an error, at most every second one was refused, and while one
\* may yet be, there is a failure that no refusal has been counted for.
Alone(r, prs, brs, ahd, files, fails) ==
  /\ r.pc = "unused" => \A t \in Tags : prs[t] # "open"
  /\ r.pc \notin {"unused", "done", "skipped"} =>
       /\ Errors(r) <= 2 * fails
       /\ Early(r) /\ (prs[r.tag] = "open" \/ Lost(r, brs, ahd)) => Errors(r) + 1 <= 2 * fails
       /\ Lost(r, brs, ahd) \/ r.pc = "create" => prs[r.tag] # "open"
       /\ Misled(r, brs, files) => Errors(r) + 2 <= 2 * fails
       /\ r.file # 0 /\ r.pc \in {"sha", "put"} => PagesBranch \in brs
       /\ r.pc = "discarded" => r.attempt = MaxAttempts

AloneNow(j) == Alone(job[j], pr, branches, ahead, content, failures)

LEMMA ErrorCounts ==
  ASSUME TypeInv, NEW j \in Jobs, Error(j), Running(j)
  PROVE  /\ job'[j].tag = job[j].tag /\ job'[j].file = 0
         /\ job'[j].attempt = job[j].attempt
         /\ job'[j].pc \in {"available", "discarded"}
         /\ job'[j].pc = "discarded" => job[j].attempt = MaxAttempts
         /\ Errors(job'[j]) = Errors(job[j]) + 1
<1>1. job' = [job EXCEPT ![j] = Failed(job[j])]
  BY TypeFacts DEF Error, Failed
<1>2. Failed(job[j]) =
        [tag |-> job[j].tag,
         pc |-> IF job[j].attempt < MaxAttempts THEN "available" ELSE "discarded",
         attempt |-> job[j].attempt, wording |-> NoWording,
         file |-> 0, got |-> <<>>, log |-> <<>>, sha |-> <<>>]
  BY DEF Failed, Fresh
<1>3. job[j].attempt \in 0..MaxAttempts /\ MaxAttempts \in Nat
  BY TypeFacts, ReleaseAssumption DEF Locals
<1>4. job'[j] = Failed(job[j])  BY <1>1, TypeFacts
<1>5. /\ job'[j].tag = job[j].tag /\ job'[j].file = 0 /\ job'[j].attempt = job[j].attempt
      /\ job'[j].pc = IF job[j].attempt < MaxAttempts THEN "available" ELSE "discarded"
  BY <1>2, <1>4
<1>6. Errors(job'[j]) = job[j].attempt /\ Errors(job[j]) = job[j].attempt - 1
  BY <1>5 DEF Errors, Running
<1> QED  BY <1>3, <1>5, <1>6

LEMMA CountTypes ==
  ASSUME TypeInv, NEW j \in Jobs
  PROVE  /\ job[j].attempt \in Nat /\ failures \in Nat /\ failures <= MaxFailures
         /\ Errors(job[j]) \in Int
<1>1. job[j].attempt \in Nat /\ failures \in Nat /\ failures <= MaxFailures
  BY TypeFacts, ReleaseAssumption DEF Locals, TypeInv, TypeOK
<1> QED  BY <1>1 DEF Errors

\* An error that is not a failure: a merge has come under the attempt, or an
\* earlier call of it has failed.
LEMMA RefusedKeeps ==
  ASSUME TypeInv, NEW j \in Jobs, AloneNow(j), Error(j), Running(j),
         \/ Early(job[j]) /\ Lost(job[j], branches, ahead)
         \/ Misled(job[j], branches, content),
         UNCHANGED <<pr, branches, ahead, content, failures>>
  PROVE  AloneNow(j)'
<1>1. /\ Errors(job[j]) + 1 <= 2 * failures
      /\ pr[job[j].tag] # "open" \/ Errors(job[j]) + 2 <= 2 * failures
  BY CountTypes DEF AloneNow, Alone, Running
<1>2. /\ job'[j].tag = job[j].tag /\ job'[j].file = 0
      /\ job'[j].pc \in {"available", "discarded"}
      /\ job'[j].pc = "discarded" => job'[j].attempt = MaxAttempts
      /\ Errors(job'[j]) = Errors(job[j]) + 1
  BY ErrorCounts
<1>3. ~Lost(job'[j], branches', ahead') /\ ~Misled(job'[j], branches', content')
  BY <1>2 DEF Lost, Misled
<1> QED  BY <1>1, <1>2, <1>3, CountTypes DEF AloneNow, Alone

\* A failure.
LEMMA FailKeeps ==
  ASSUME TypeInv, NEW j \in Jobs, AloneNow(j), Fail(j)
  PROVE  AloneNow(j)'
<1>1. Errors(job[j]) <= 2 * failures  BY DEF AloneNow, Alone, Running, Fail
<1>2. /\ failures' = failures + 1 /\ Error(j) /\ Running(j)
      /\ UNCHANGED <<pr, branches, ahead, content>>
  BY DEF Fail, hostVars
<1>3. failures \in Nat /\ Errors(job[j]) \in Int  BY CountTypes
<1>4. Errors(job'[j]) + 1 <= 2 * failures' /\ Errors(job'[j]) <= 2 * failures'
  BY <1>1, <1>2, <1>3, ErrorCounts
<1>5. /\ job'[j].tag = job[j].tag /\ job'[j].file = 0
      /\ job'[j].pc \in {"available", "discarded"}
      /\ job'[j].pc = "discarded" => job'[j].attempt = MaxAttempts
  BY <1>2, ErrorCounts
<1>6. ~Lost(job'[j], branches', ahead') /\ ~Misled(job'[j], branches', content')
  BY <1>5 DEF Lost, Misled
<1> QED  BY <1>4, <1>5, <1>6 DEF AloneNow, Alone

\* Up to the changelog: the attempt goes on, and counts as before.
LEMMA FirstStepsKeep ==
  ASSUME TypeInv, NEW j \in Jobs, AloneNow(j),
         Generate(j) \/ GetBody(j) \/ PutBody(j) \/ ReadLog(j)
  PROVE  AloneNow(j)'
<1> USE TypeFacts
<1>1. /\ job'[j].tag = job[j].tag /\ job'[j].file = job[j].file
      /\ job[j].pc \in {"available", "getBody", "putBody", "readLog"}
      /\ job'[j].pc \in {"getBody", "putBody", "readLog", "ref"}
      /\ job'[j].attempt = IF job[j].pc = "available" THEN job[j].attempt + 1
                           ELSE job[j].attempt
      /\ failures' \in {failures, failures + 1}
      /\ UNCHANGED <<pr, branches, ahead, content>>
  <2>1. CASE Generate(j)
    <3>1. PICK w \in Wordings :
            job' = [job EXCEPT ![j] = [@ EXCEPT !.pc = "getBody", !.wording = w,
                                                !.attempt = job[j].attempt + 1]]
      BY <2>1 DEF Generate
    <3>2. /\ job'[j].tag = job[j].tag /\ job'[j].file = job[j].file
          /\ job'[j].attempt = job[j].attempt + 1 /\ job'[j].pc = "getBody"
      BY <3>1 DEF Locals
    <3> QED  BY <2>1, <3>2 DEF Generate, hostVars
  <2>2. CASE GetBody(j)  BY <2>2 DEF GetBody, hostVars
  <2>3. CASE PutBody(j)  BY <2>3 DEF PutBody
  <2>4. CASE ReadLog(j)
    <3>1. \/ job' = [job EXCEPT ![j].pc = "ref", ![j].log = treeLog[job[j].tag]]
          \/ job' = [job EXCEPT ![j].pc = "ref"]
      BY <2>4 DEF ReadLog, Goto
    <3>2. /\ job'[j].tag = job[j].tag /\ job'[j].file = job[j].file
          /\ job'[j].attempt = job[j].attempt /\ job'[j].pc = "ref"
      <4>1. CASE job' = [job EXCEPT ![j].pc = "ref", ![j].log = treeLog[job[j].tag]]  BY <4>1
      <4>2. CASE job' = [job EXCEPT ![j].pc = "ref"]  BY <4>2
      <4> QED  BY <3>1, <4>1, <4>2
    <3> QED  BY <2>4, <3>2 DEF ReadLog, hostVars
  <2> QED  BY <2>1, <2>2, <2>3, <2>4
<1>2. Errors(job'[j]) = Errors(job[j]) /\ job[j].file = 0
  BY <1>1, CountTypes DEF Errors, Sound
<1>3. failures \in Nat /\ Errors(job[j]) \in Int  BY CountTypes
<1>4. Errors(job'[j]) <= 2 * failures'  BY <1>1, <1>2, <1>3 DEF AloneNow, Alone
<1>5. pr[job[j].tag] = "open" => Errors(job'[j]) + 1 <= 2 * failures'
  BY <1>1, <1>2, <1>3 DEF AloneNow, Alone, Early
<1>6. ~Lost(job'[j], branches', ahead') /\ ~Misled(job'[j], branches', content')
  BY <1>1 DEF Lost, Misled
<1> QED  BY <1>1, <1>2, <1>4, <1>5, <1>6 DEF AloneNow, Alone, Early

\* The branch of the file is found or made.
LEMMA BranchKeeps ==
  ASSUME TypeInv, NEW j \in Jobs, AloneNow(j), GetRef(j) \/ GetHead(j) \/ CreateRef(j)
  PROVE  AloneNow(j)'
<1> USE TypeFacts
<1>1. Errors(job[j]) \in Int /\ failures \in Nat  BY CountTypes
<1>2. Branch(j) = IF job[j].file = 0 THEN job[j].tag ELSE PagesBranch  BY DEF Branch
<1>3. CASE GetRef(j)
  <2>1. /\ job[j].pc = "ref" /\ UNCHANGED <<pr, branches, ahead, content>>
        /\ \/ Goto(j, IF Branch(j) \in branches THEN "sha" ELSE "head") /\ failures' = failures
           \/ Goto(j, "head") /\ failures' = failures + 1
    BY <1>3 DEF GetRef, hostVars
  <2>2. /\ job'[j].tag = job[j].tag /\ job'[j].file = job[j].file
        /\ job'[j].attempt = job[j].attempt /\ job'[j].pc \in {"sha", "head"}
        /\ job'[j].pc = "sha" => Branch(j) \in branches
        /\ job'[j].pc = "head" => Branch(j) \notin branches \/ failures' = failures + 1
        /\ failures' \in {failures, failures + 1}
    BY <2>1, GotoMoves
  <2>3. Errors(job'[j]) = Errors(job[j])  BY <2>1, <2>2 DEF Errors
  <2>4. Errors(job'[j]) <= 2 * failures'  BY <1>1, <2>1, <2>2, <2>3 DEF AloneNow, Alone
  <2>5. ~Lost(job'[j], branches', ahead')  BY <1>2, <2>1, <2>2 DEF Lost
  <2>6. Misled(job'[j], branches', content') => Errors(job'[j]) + 2 <= 2 * failures'
    BY <1>1, <1>2, <2>1, <2>2, <2>3 DEF Misled, AloneNow, Alone
  <2>7. Early(job'[j]) /\ pr'[job[j].tag] = "open" => Errors(job'[j]) + 1 <= 2 * failures'
    BY <1>1, <2>1, <2>2, <2>3 DEF AloneNow, Alone, Early
  <2> QED  BY <1>2, <2>1, <2>2, <2>4, <2>5, <2>6, <2>7 DEF AloneNow, Alone
<1>4. CASE GetHead(j)
  <2>1. /\ job[j].pc = "head" /\ job'[j].pc = "make"
        /\ job'[j].tag = job[j].tag /\ job'[j].file = job[j].file
        /\ job'[j].attempt = job[j].attempt
        /\ UNCHANGED <<pr, branches, ahead, content, failures>>
    BY <1>4 DEF GetHead, hostVars
  <2>2. Errors(job'[j]) = Errors(job[j])  BY <2>1 DEF Errors
  <2> QED  BY <2>1, <2>2 DEF AloneNow, Alone, Early, Lost, Misled
<1>5. CASE CreateRef(j) /\ Branch(j) \in branches
  <2>1. /\ job[j].pc = "make" /\ Error(j)
        /\ UNCHANGED <<pr, branches, ahead, content, failures>>
    BY <1>5 DEF CreateRef
  <2>2. Running(j) /\ Misled(job[j], branches, content)
    BY <1>2, <1>5, <2>1 DEF Running, Misled
  <2> QED  BY <2>1, <2>2, RefusedKeeps
<1>6. CASE CreateRef(j) /\ Branch(j) \notin branches
  <2>1. /\ job[j].pc = "make" /\ job' = [job EXCEPT ![j].pc = "sha", ![j].sha = <<>>]
        /\ branches' = branches \cup {Branch(j)}
        /\ UNCHANGED <<pr, failures>>
    BY <1>6 DEF CreateRef
  <2>2. /\ job'[j].tag = job[j].tag /\ job'[j].file = job[j].file
        /\ job'[j].attempt = job[j].attempt /\ job'[j].pc = "sha"
    BY <2>1
  <2>3. Errors(job'[j]) = Errors(job[j])  BY <2>1, <2>2 DEF Errors
  <2>4. ~Lost(job'[j], branches', ahead') /\ ~Misled(job'[j], branches', content')
    BY <1>2, <2>1, <2>2 DEF Lost, Misled
  <2> QED  BY <1>2, <2>1, <2>2, <2>3, <2>4 DEF AloneNow, Alone, Early
<1> QED  BY <1>3, <1>4, <1>5, <1>6

\* The file is read, and written.
LEMMA FileKeeps ==
  ASSUME TypeInv, NEW j \in Jobs, AloneNow(j), GetContents(j) \/ PutFile(j)
  PROVE  AloneNow(j)'
<1> USE TypeFacts
<1>1. Errors(job[j]) \in Int /\ failures \in Nat /\ job[j].file \in 0..Len(Pages)
  BY CountTypes DEF Sound, GetContents, PutFile
<1>2. /\ Branch(j) = IF job[j].file = 0 THEN job[j].tag ELSE PagesBranch
      /\ Slot(j) = IF job[j].file = 0 THEN LogSlot(job[j].tag)
                                      ELSE <<job[j].tag, Pages[job[j].file]>>
  BY DEF Branch, Slot
<1>3. CASE GetContents(j)
  <2>1. /\ job[j].pc = "sha" /\ UNCHANGED <<pr, branches, ahead, content>>
        /\ \/ /\ job' = [job EXCEPT ![j].pc = "put", ![j].sha = content[Slot(j)]]
              /\ failures' = failures
           \/ Goto(j, "put") /\ failures' = failures + 1
    BY <1>3 DEF GetContents, hostVars
  <2>2. /\ job'[j].tag = job[j].tag /\ job'[j].file = job[j].file
        /\ job'[j].attempt = job[j].attempt /\ job'[j].pc = "put"
        /\ job'[j].sha = content[Slot(j)] \/ failures' = failures + 1
        /\ failures' \in {failures, failures + 1}
    <3>1. CASE /\ job' = [job EXCEPT ![j].pc = "put", ![j].sha = content[Slot(j)]]
               /\ failures' = failures
      BY <3>1 DEF Locals
    <3>2. CASE Goto(j, "put") /\ failures' = failures + 1  BY <3>2, GotoMoves
    <3> QED  BY <2>1, <3>1, <3>2
  <2>3. Errors(job'[j]) = Errors(job[j])  BY <2>1, <2>2 DEF Errors
  <2>4. Errors(job'[j]) <= 2 * failures'  BY <1>1, <2>1, <2>2, <2>3 DEF AloneNow, Alone
  <2>5. Lost(job'[j], branches', ahead') <=> Lost(job[j], branches, ahead)
    BY <2>1, <2>2 DEF Lost
  <2>6. Misled(job'[j], branches', content') => Errors(job'[j]) + 2 <= 2 * failures'
    BY <1>1, <1>2, <2>1, <2>2, <2>3 DEF Misled, AloneNow, Alone
  <2>7. Early(job'[j]) /\ (pr'[job[j].tag] = "open" \/ Lost(job'[j], branches', ahead'))
          => Errors(job'[j]) + 1 <= 2 * failures'
    BY <1>1, <2>1, <2>2, <2>3, <2>5 DEF AloneNow, Alone, Early
  <2> QED  BY <2>1, <2>2, <2>4, <2>5, <2>6, <2>7 DEF AloneNow, Alone
<1>4. CASE PutFile(j) /\ ~(Branch(j) \in branches /\ content[Slot(j)] = job[j].sha)
  <2>1. /\ job[j].pc = "put" /\ Error(j)
        /\ UNCHANGED <<pr, branches, ahead, content, failures>>
    BY <1>4 DEF PutFile
  <2>2. \/ Early(job[j]) /\ Lost(job[j], branches, ahead)
        \/ Misled(job[j], branches, content)
    BY <1>2, <1>4, <2>1 DEF AloneNow, Alone, Early, Lost, Misled
  <2>3. Running(j)  BY <2>1 DEF Running
  <2> QED  BY <2>1, <2>2, <2>3, RefusedKeeps
<1>5. CASE PutFile(j) /\ Branch(j) \in branches /\ content[Slot(j)] = job[j].sha
  <2>1. job[j].pc = "put" /\ UNCHANGED <<pr, branches, failures>>  BY <1>5 DEF PutFile
  <2>2. CASE job[j].file = 0
    <3>1. /\ job' = [job EXCEPT ![j].pc = "list", ![j].log = <<>>, ![j].sha = <<>>]
          /\ job[j].tag \in branches' /\ job[j].tag \in ahead'
      BY <1>2, <1>5, <2>1, <2>2 DEF PutFile
    <3>2. /\ job'[j].tag = job[j].tag /\ job'[j].file = job[j].file
          /\ job'[j].attempt = job[j].attempt /\ job'[j].pc = "list"
      BY <3>1
    <3>3. Errors(job'[j]) = Errors(job[j])  BY <2>1, <3>2 DEF Errors
    <3>4. ~Lost(job'[j], branches', ahead') /\ ~Misled(job'[j], branches', content')
      BY <3>1, <3>2 DEF Lost, Misled
    <3> QED  BY <2>1, <2>2, <3>2, <3>3, <3>4 DEF AloneNow, Alone, Early
  <2>3. CASE job[j].file # 0
    <3>1. job' = [job EXCEPT ![j].pc = NextPage(job[j].file), ![j].file = @ + 1,
                             ![j].sha = <<>>]
      BY <1>5, <2>3 DEF PutFile
    <3>2. /\ job'[j].tag = job[j].tag /\ job'[j].file = job[j].file + 1
          /\ job'[j].attempt = job[j].attempt /\ job'[j].pc = NextPage(job[j].file)
      BY <3>1
    <3>3. job'[j].pc \in {"ref", "record"}  BY <3>2 DEF NextPage
    <3>4. Errors(job'[j]) = Errors(job[j]) /\ job'[j].file # 0
      BY <1>1, <2>1, <3>2, <3>3 DEF Errors
    <3>5. ~Lost(job'[j], branches', ahead') /\ ~Misled(job'[j], branches', content')
          /\ ~Early(job'[j])
      BY <3>3, <3>4 DEF Lost, Misled, Early
    <3> QED  BY <2>1, <3>3, <3>4, <3>5 DEF AloneNow, Alone
  <2> QED  BY <2>2, <2>3
<1> QED  BY <1>3, <1>4, <1>5

\* The pull request is found or opened, and the pages follow.
LEMMA PullRequestKeeps ==
  ASSUME TypeInv, NEW j \in Jobs, AloneNow(j), ListPRs(j) \/ CreatePR(j)
  PROVE  AloneNow(j)'
<1> USE TypeFacts
<1>1. Errors(job[j]) \in Int /\ failures \in Nat /\ job[j].file = 0
  BY CountTypes DEF Sound, ListPRs, CreatePR
<1>2. ASSUME job' = [job EXCEPT ![j].pc = NextPage(0), ![j].file = 1],
             job[j].pc \in {"list", "create"},
             UNCHANGED <<branches, ahead, content, failures>>
      PROVE  AloneNow(j)'
  <2>1. /\ job'[j].tag = job[j].tag /\ job'[j].file = 1 /\ job'[j].attempt = job[j].attempt
        /\ job'[j].pc = NextPage(0)
    BY <1>2
  <2>2. job'[j].pc \in {"ref", "record"}  BY <2>1 DEF NextPage
  <2>3. Errors(job'[j]) = Errors(job[j])  BY <1>2, <2>1, <2>2 DEF Errors
  <2>4. /\ ~Early(job'[j]) /\ ~Lost(job'[j], branches', ahead')
        /\ ~Misled(job'[j], branches', content')
    BY <2>1, <2>2 DEF Early, Lost, Misled
  <2> QED  BY <1>2, <2>1, <2>2, <2>3, <2>4 DEF AloneNow, Alone
<1>3. CASE ListPRs(j)
  <2>1. job[j].pc = "list" /\ UNCHANGED <<pr, branches, ahead, content, failures>>
    BY <1>3 DEF ListPRs, hostVars
  <2>2. CASE pr[job[j].tag] = "open"  BY <1>2, <1>3, <2>1, <2>2 DEF ListPRs
  <2>3. CASE pr[job[j].tag] # "open"
    <3>1. /\ job'[j].tag = job[j].tag /\ job'[j].file = job[j].file
          /\ job'[j].attempt = job[j].attempt /\ job'[j].pc = "create"
      BY <1>3, <2>3 DEF ListPRs
    <3>2. Errors(job'[j]) = Errors(job[j])  BY <2>1, <3>1 DEF Errors
    <3> QED  BY <1>1, <2>1, <2>3, <3>1, <3>2 DEF AloneNow, Alone, Early, Lost, Misled
  <2> QED  BY <2>2, <2>3
<1>4. CASE CreatePR(j) /\ job[j].tag \in branches \cap ahead
  <2>1. job[j].pc = "create" /\ UNCHANGED <<branches, ahead, content, failures>>
    BY <1>4 DEF CreatePR
  <2>2. pr[job[j].tag] # "open"  BY <2>1 DEF AloneNow, Alone
  <2> QED  BY <1>2, <1>4, <2>1, <2>2 DEF CreatePR
<1>5. CASE CreatePR(j) /\ job[j].tag \notin branches \cap ahead
  <2>1. /\ job[j].pc = "create" /\ Error(j)
        /\ UNCHANGED <<pr, branches, ahead, content, failures>>
    BY <1>5 DEF CreatePR
  <2>2. Running(j) /\ Early(job[j]) /\ Lost(job[j], branches, ahead)
    BY <1>1, <1>5, <2>1 DEF Running, Early, Lost
  <2> QED  BY <2>1, <2>2, RefusedKeeps
<1> QED  BY <1>3, <1>4, <1>5

\* What people do: a merge may take the branch away, but closes the pull
\* request for which the failure was counted.
LEMMA PeopleKeepAlone ==
  ASSUME TypeInv, People, NEW j \in Jobs, AloneNow(j)
  PROVE  AloneNow(j)' \/ \E i \in Jobs \ {j} : job'[i].pc # "unused"
<1> USE TypeFacts
<1>1. PICK t \in Tags : \/ Release(t) \/ EditBody(t) \/ MergePR(t) \/ ClosePR(t)
                        \/ \E i \in Jobs : EnqueueRelease(i, t)
  BY DEF People
<1>2. CASE Release(t) \/ EditBody(t)
  BY <1>2 DEF Release, EditBody, AloneNow, Alone
<1>3. pr \in [Tags -> {"none", "open", "closed"}] /\ content \in [Slots -> Seq(Sections)]
      /\ (job[j].pc # "unused" => job[j].tag \in Tags)
  BY DEF TypeInv, TypeOK, Sound
<1>4. CASE ClosePR(t)
  <2>1. pr' = [pr EXCEPT ![t] = "closed"] /\ UNCHANGED <<job, branches, ahead, content, failures>>
    BY <1>4 DEF ClosePR
  <2>2. \A s \in Tags : pr'[s] = "open" => pr[s] = "open"  BY <1>3, <2>1
  <2> QED  BY <1>3, <2>1, <2>2 DEF AloneNow, Alone
<1>5. CASE MergePR(t)
  <2>1. /\ pr[t] = "open" /\ pr' = [pr EXCEPT ![t] = "closed"] /\ UNCHANGED <<job, failures>>
        /\ ahead' = ahead \ {t}
        /\ \/ UNCHANGED <<branches, content>>
           \/ /\ branches' = branches \ {t}
              /\ content' = [content EXCEPT ![LogSlot(t)] = <<>>]
    BY <1>5 DEF MergePR
  <2>2. \A s \in Tags : pr'[s] = IF s = t THEN "closed" ELSE pr[s]  BY <1>3, <2>1
  <2>3. CASE job[j].pc \in {"unused", "done", "skipped"}
    BY <2>1, <2>2, <2>3 DEF AloneNow, Alone
  <2>4. CASE job[j].pc \notin {"unused", "done", "skipped"}
    <3> DEFINE r == job[j]
    <3>1. r.tag \in Tags /\ branches' \subseteq branches
          /\ (PagesBranch \in branches => PagesBranch \in branches')
      BY <1>3, <2>1, <2>4, ReleaseAssumption
    <3>2. Lost(r, branches', ahead') /\ ~Lost(r, branches, ahead) => r.tag = t /\ Early(r)
      BY <2>1, <3>1 DEF Lost, Early
    <3>3. Early(r) /\ (pr'[r.tag] = "open" \/ Lost(r, branches', ahead'))
            => Errors(r) + 1 <= 2 * failures
      BY <2>1, <2>2, <2>4, <3>1, <3>2 DEF AloneNow, Alone
    <3>4. Lost(r, branches', ahead') \/ r.pc = "create" => pr'[r.tag] # "open"
      BY <2>1, <2>2, <2>4, <3>1, <3>2 DEF AloneNow, Alone
    <3>5. r.file = 0 /\ r.tag \in branches' => content'[LogSlot(r.tag)] = content[LogSlot(r.tag)]
      <4>1. CASE /\ branches' = branches \ {t}
                 /\ content' = [content EXCEPT ![LogSlot(t)] = <<>>]
        <5>1. r.tag \in branches' => LogSlot(r.tag) # LogSlot(t)  BY <4>1 DEF LogSlot
        <5> QED  BY <1>3, <4>1, <5>1
      <4> QED  BY <2>1, <4>1
    <3>6. r.file # 0 /\ r.pc = "put"
            => content'[<<r.tag, Pages[r.file]>>] = content[<<r.tag, Pages[r.file]>>]
      <4> SUFFICES ASSUME r.file # 0, r.pc = "put"
                   PROVE  content'[<<r.tag, Pages[r.file]>>] = content[<<r.tag, Pages[r.file]>>]
        OBVIOUS
      <4>1. r.file \in 1..Len(Pages)  BY DEF Sound
      <4>2. <<r.tag, Pages[r.file]>> # LogSlot(t)
        <5>1. Pages[r.file] # "log"  BY <4>1, ReleaseAssumption
        <5> QED  BY <5>1 DEF LogSlot
      <4>3. <<r.tag, Pages[r.file]>> \in Slots
        <5>1. Pages[r.file] \in ToSet(Pages)  BY <4>1 DEF ToSet
        <5> QED  BY <3>1, <5>1 DEF Slots, PageSlots
      <4> QED  BY <1>3, <2>1, <4>2, <4>3
    <3>7. Misled(r, branches', content') => Misled(r, branches, content)
      BY <3>1, <3>5, <3>6 DEF Misled
    <3>8. Misled(r, branches', content') => Errors(r) + 2 <= 2 * failures
      BY <2>4, <3>7 DEF AloneNow, Alone
    <3> QED  BY <2>1, <2>4, <3>1, <3>3, <3>4, <3>8 DEF AloneNow, Alone
  <2> QED  BY <2>3, <2>4
<1>6. CASE \E i \in Jobs : EnqueueRelease(i, t)
  <2>1. PICK i \in Jobs : EnqueueRelease(i, t)  BY <1>6
  <2>2. /\ job[i].pc = "unused" /\ job' = [job EXCEPT ![i] = Fresh(t, 0)]
        /\ UNCHANGED <<pr, branches, ahead, content, failures>>
    BY <2>1 DEF EnqueueRelease, hostVars
  <2>3. /\ job'[i] = Fresh(t, 0) /\ Fresh(t, 0).pc = "available" /\ Fresh(t, 0).attempt = 0
        /\ Fresh(t, 0).file = 0 /\ Fresh(t, 0).tag = t
    BY <2>2 DEF Fresh
  <2>4. CASE i # j  BY <2>3, <2>4
  <2>5. CASE i = j
    <3>1. \A s \in Tags : pr[s] # "open"  BY <2>2, <2>5 DEF AloneNow, Alone
    <3>2. Errors(job'[j]) = 0 /\ failures \in Nat  BY <2>3, <2>5, CountTypes DEF Errors
    <3>3. /\ job'[j].pc = "available" /\ job'[j].file = 0
          /\ pr' = pr /\ failures' = failures /\ job'[j].tag = t
      BY <2>2, <2>3, <2>5
    <3> QED  BY <3>1, <3>2, <3>3 DEF AloneNow, Alone, Lost, Misled
  <2> QED  BY <2>4, <2>5
<1> QED  BY <1>1, <1>2, <1>4, <1>5, <1>6

AloneInv == \A j \in Jobs : AloneNow(j) \/ \E i \in Jobs \ {j} : job[i].pc # "unused"

LEMMA InitAlone == Init => AloneInv
<1> SUFFICES ASSUME Init, NEW j \in Jobs PROVE AloneNow(j)
  BY DEF AloneInv
<1>1. job[j].pc = "unused"
  <2>1. job[j] = [Fresh(NoTag, 0) EXCEPT !.pc = "unused"]  BY DEF Init
  <2> QED  BY <2>1 DEF Fresh
<1>2. \A t \in Tags : pr[t] # "open"  BY DEF Init
<1> QED  BY <1>1, <1>2 DEF AloneNow, Alone

\* A job that is there remains one.
LEMMA StaysUsed ==
  ASSUME TypeInv, NEW j \in Jobs, JobStep(j) \/ Fail(j)
  PROVE  job[j].pc # "unused" /\ job'[j].pc # "unused"
<1> USE TypeFacts
<1>0. Error(j) /\ Running(j) => job[j].pc # "unused" /\ job'[j].pc # "unused"
  BY ErrorCounts DEF Running
<1>1. CASE Generate(j) \/ GetBody(j) \/ PutBody(j)
  BY <1>1, ZenonT(40) DEF Generate, GetBody, PutBody, Locals
<1>2. CASE ReadLog(j)
  <2>1. \/ job' = [job EXCEPT ![j].pc = "ref", ![j].log = treeLog[job[j].tag]]
        \/ job' = [job EXCEPT ![j].pc = "ref"]
    BY <1>2 DEF ReadLog, Goto
  <2>2. job'[j].pc = "ref"
    <3>1. CASE job' = [job EXCEPT ![j].pc = "ref", ![j].log = treeLog[job[j].tag]]  BY <3>1
    <3>2. CASE job' = [job EXCEPT ![j].pc = "ref"]  BY <3>2
    <3> QED  BY <2>1, <3>1, <3>2
  <2> QED  BY <1>2, <2>2 DEF ReadLog
<1>3. CASE GetRef(j) \/ GetContents(j)
  <2>1. CASE GetRef(j)
    <3>1. job'[j].pc \in {"sha", "head"}  BY <2>1, GotoMoves DEF GetRef
    <3> QED  BY <2>1, <3>1 DEF GetRef
  <2>2. CASE GetContents(j)
    <3>1. \/ job' = [job EXCEPT ![j].pc = "put", ![j].sha = content[Slot(j)]]
          \/ job' = [job EXCEPT ![j].pc = "put"]
      BY <2>2 DEF GetContents, Goto
    <3>2. job'[j].pc = "put"
      <4>1. CASE job' = [job EXCEPT ![j].pc = "put", ![j].sha = content[Slot(j)]]  BY <4>1
      <4>2. CASE job' = [job EXCEPT ![j].pc = "put"]  BY <4>2
      <4> QED  BY <3>1, <4>1, <4>2
    <3> QED  BY <2>2, <3>2 DEF GetContents
  <2> QED  BY <1>3, <2>1, <2>2
<1>4. CASE CreateRef(j)
  <2>1. /\ job[j].pc = "make"
        /\ Error(j) \/ job' = [job EXCEPT ![j].pc = "sha", ![j].sha = <<>>]
    BY <1>4 DEF CreateRef
  <2>2. CASE Error(j)  BY <1>0, <2>1, <2>2 DEF Running
  <2>3. CASE job' = [job EXCEPT ![j].pc = "sha", ![j].sha = <<>>]  BY <2>1, <2>3
  <2> QED  BY <2>1, <2>2, <2>3
<1>5. CASE PutFile(j)
  <2>1. job[j].pc = "put"  BY <1>5 DEF PutFile
  <2>2. CASE Error(j)  BY <1>0, <2>1, <2>2 DEF Running
  <2>3. CASE job' = [job EXCEPT ![j].pc = "list", ![j].log = <<>>, ![j].sha = <<>>]
    BY <2>1, <2>3
  <2>4. CASE job' = [job EXCEPT ![j].pc = NextPage(job[j].file), ![j].file = @ + 1,
                                ![j].sha = <<>>]
    <3>1. job'[j].pc = NextPage(job[j].file)  BY <2>4
    <3> QED  BY <2>1, <3>1 DEF NextPage
  <2> QED  BY <1>5, <2>2, <2>3, <2>4 DEF PutFile
<1>6. CASE ListPRs(j) \/ CreatePR(j)
  <2>1. job[j].pc \in {"list", "create"}  BY <1>6 DEF ListPRs, CreatePR
  <2>2. CASE Error(j)  BY <1>0, <2>1, <2>2 DEF Running
  <2>3. CASE job' = [job EXCEPT ![j].pc = NextPage(0), ![j].file = 1]
    <3>1. job'[j].pc = NextPage(0)  BY <2>3
    <3> QED  BY <2>1, <3>1 DEF NextPage
  <2>4. CASE job' = [job EXCEPT ![j].pc = "create"]  BY <2>1, <2>4
  <2> QED  BY <1>6, <2>2, <2>3, <2>4 DEF ListPRs, CreatePR
<1>7. CASE Record(j)  BY <1>7 DEF Record, Fresh
<1>8. CASE Fail(j)  BY <1>0, <1>8 DEF Fail
<1>9. CASE Skip(j)  BY <1>9 DEF Skip, Fresh
<1>10. CASE GetHead(j)  BY <1>10 DEF GetHead
<1> QED  BY <1>1, <1>2, <1>3, <1>4, <1>5, <1>6, <1>7, <1>8, <1>9, <1>10 DEF JobStep

\* The steps of the job itself.
LEMMA OwnStepKeeps ==
  ASSUME TypeInv, NEW j \in Jobs, AloneNow(j), JobStep(j) \/ Fail(j)
  PROVE  AloneNow(j)'
<1>1. CASE Record(j)
  <2>1. job'[j].pc = "done"  BY <1>1, TypeFacts DEF Record, Fresh
  <2> QED  BY <2>1 DEF AloneNow, Alone
<1>2. CASE Skip(j)
  <2>1. job'[j].pc = "skipped"  BY <1>2, TypeFacts DEF Skip, Fresh
  <2> QED  BY <2>1 DEF AloneNow, Alone
<1> QED  BY <1>1, <1>2, FirstStepsKeep, BranchKeeps, FileKeeps, PullRequestKeeps, FailKeeps DEF JobStep

LEMMA StepKeepsAlone ==
  ASSUME TypeInv, AloneInv, [Next]_releaseVars PROVE AloneInv'
<1> SUFFICES ASSUME NEW j \in Jobs
             PROVE  AloneNow(j)' \/ \E i \in Jobs \ {j} : job'[i].pc # "unused"
  BY DEF AloneInv
<1>1. AloneNow(j) \/ \E i \in Jobs \ {j} : job[i].pc # "unused"  BY DEF AloneInv
<1>2. ASSUME NEW i \in Jobs, JobStep(i) \/ Fail(i)
      PROVE  AloneNow(j)' \/ \E k \in Jobs \ {j} : job'[k].pc # "unused"
  <2>1. \A k \in Jobs : job[k].pc # "unused" => job'[k].pc # "unused"
    BY <1>2, StaysUsed, JobMoves
  <2>2. CASE i # j  BY <1>2, <2>2, StaysUsed
  <2>3. CASE i = j  BY <1>1, <1>2, <2>1, <2>3, OwnStepKeeps
  <2> QED  BY <2>2, <2>3
<1>3. CASE People
  <2>1. ASSUME NEW k \in Jobs, job[k].pc # "unused" PROVE job'[k].pc # "unused"
    BY <1>3, <2>1, PeopleAndBodies
  <2> QED  BY <1>1, <1>3, <2>1, PeopleKeepAlone
<1>4. CASE UNCHANGED releaseVars
  BY <1>1, <1>4 DEF releaseVars, hostVars, AloneNow, Alone
<1> QED  BY <1>2, <1>3, <1>4 DEF Next

\* A publication that stops half-way is finished by a retry, unless another job
\* writes too (riverq; publish.go, Upsert...).  A failure costs at most two
\* attempts: the one that failed, and, when the pull request it had opened is
\* merged and its branch deleted under the next attempt, that one.  River's
\* attempts are enough when they outnumber twice the failures.
THEOREM RetriesSuffice ==
  ASSUME 2 * MaxFailures < MaxAttempts PROVE Spec => []RetryCompletes
<1>1. AloneInv /\ TypeInv => RetryCompletes
  <2> SUFFICES ASSUME AloneInv, TypeInv, NEW j \in Jobs, job[j].pc = "discarded",
                      \A i \in Jobs \ {j} : job[i].pc = "unused"
               PROVE  FALSE
    BY DEF RetryCompletes
  <2>1. Errors(job[j]) <= 2 * failures /\ job[j].attempt = MaxAttempts
    BY DEF AloneInv, AloneNow, Alone
  <2>2. Errors(job[j]) = MaxAttempts  BY <2>1 DEF Errors
  <2> QED  BY <2>1, <2>2, CountTypes, ReleaseAssumption
<1>2. TypeInv /\ AloneInv /\ [Next]_releaseVars => AloneInv'  BY StepKeepsAlone
<1> QED  BY <1>1, <1>2, InitAlone, TypeInvariant, PTL DEF Spec

-----------------------------------------------------------------------------
(* What a pull request that is open shows.                                 *)

\* A branch has commits that the default branch lacks only once a job has
\* committed the section of its release there; a pull request is open only for
\* such a branch.
Shown(t) ==
  /\ t \in ahead => t \in branches /\ t \in Lists(content[LogSlot(t)])
  /\ pr[t] = "open" => t \in ahead

PRInv == \A t \in Tags : Shown(t)

LEMMA PrependLists ==
  ASSUME NEW l \in Seq(Sections), NEW t, NEW w, Section(t, w) \in Sections
  PROVE  t \in Lists(<<Section(t, w)>> \o l)
<1> DEFINE m == <<Section(t, w)>> \o l
<1>1. <<Section(t, w)>> \in Seq(Sections)
  OBVIOUS
<1>2. /\ m \in Seq(Sections) /\ Len(m) = 1 + Len(l) /\ Len(l) \in Nat
      /\ \A i \in 1..1 + Len(l) : m[i] = IF i = 1 THEN Section(t, w) ELSE l[i - 1]
  BY <1>1, ConcatProperties
<1> HIDE DEF m
<1>3. 1 \in DOMAIN m /\ m[1][1] = t
  BY <1>2 DEF Section
<1> QED
  BY <1>3 DEF Lists, m

LEMMA InitPR == Init => PRInv
BY DEF Init, PRInv, Shown

\* A branch is made only where there is none.
LEMMA CreateRefKeepsPR ==
  ASSUME TypeInv, PRInv, NEW j \in Jobs, CreateRef(j)
  PROVE  PRInv'
<1> SUFFICES ASSUME NEW t \in Tags PROVE Shown(t)'
  BY DEF PRInv
<1>1. Shown(t) /\ UNCHANGED <<ahead, pr>>  BY DEF PRInv, CreateRef
<1>2. CASE t \notin ahead  BY <1>1, <1>2 DEF Shown
<1>3. CASE t \in ahead
  <2>1. t \in branches /\ branches \subseteq branches'  BY <1>1, <1>3 DEF Shown, CreateRef
  <2>2. content'[LogSlot(t)] = content[LogSlot(t)]
    <3>1. CASE content' = content  BY <3>1
    <3>2. CASE /\ Branch(j) \notin branches /\ job[j].file = 0
               /\ content' = [content EXCEPT ![Slot(j)] = job[j].sha]
      <4>1. job[j].tag # t /\ Slot(j) = LogSlot(job[j].tag)
        BY <2>1, <3>2 DEF Branch, Slot
      <4>2. Slot(j) # LogSlot(t)  BY <4>1 DEF LogSlot
      <4>3. LogSlot(t) \in Slots /\ content \in [Slots -> Seq(Sections)]
        BY DEF Slots, TypeInv, TypeOK
      <4> QED  BY <3>2, <4>2, <4>3
    <3> QED  BY <3>1, <3>2 DEF CreateRef
  <2> QED  BY <1>1, <2>1, <2>2 DEF Shown
<1> QED  BY <1>2, <1>3

\* The write of the changelog puts the section there, pages are other files.
LEMMA PutFileKeepsPR ==
  ASSUME TypeInv, PRInv, NEW j \in Jobs, PutFile(j)
  PROVE  PRInv'
<1> SUFFICES ASSUME NEW t \in Tags PROVE Shown(t)'
  BY DEF PRInv
<1>1. /\ Shown(t) /\ UNCHANGED <<branches, pr>> /\ job[j].pc = "put"
      /\ LogSlot(t) \in Slots /\ content \in [Slots -> Seq(Sections)]
  BY DEF PRInv, PutFile, Slots, TypeInv, TypeOK
<1>2. CASE ~(Branch(j) \in branches /\ content[Slot(j)] = job[j].sha)
  <2>1. UNCHANGED <<content, ahead>>  BY <1>2 DEF PutFile
  <2> QED  BY <1>1, <2>1 DEF Shown
<1>3. CASE Branch(j) \in branches /\ content[Slot(j)] = job[j].sha
  <2>1. content' = [content EXCEPT ![Slot(j)] = Data(j)]  BY <1>3 DEF PutFile
  <2>2. CASE job[j].file # 0
    <3>1. ahead' = ahead  BY <1>3, <2>2 DEF PutFile
    <3>2. Slot(j) # LogSlot(t)  BY <1>1, <2>2, PageIsNotLog
    <3> QED  BY <1>1, <2>1, <3>1, <3>2 DEF Shown
  <2>3. CASE job[j].file = 0
    <3>1. /\ ahead' = ahead \cup {job[j].tag} /\ job[j].tag \in branches
          /\ Slot(j) = LogSlot(job[j].tag)
      BY <1>3, <2>3 DEF PutFile, Branch, Slot
    <3>2. CASE job[j].tag = t
      <4>1. t \in Lists(Data(j))
        BY <1>1, <2>3, <3>2, DataType, PrependLists DEF Data
      <4> QED  BY <1>1, <2>1, <3>1, <3>2, <4>1 DEF Shown
    <3>3. CASE job[j].tag # t
      <4>1. Slot(j) # LogSlot(t)  BY <3>1, <3>3 DEF LogSlot
      <4> QED  BY <1>1, <2>1, <3>1, <3>3, <4>1 DEF Shown
    <3> QED  BY <3>2, <3>3
  <2> QED  BY <2>2, <2>3
<1> QED  BY <1>2, <1>3

LEMMA JobKeepsPR ==
  ASSUME TypeInv, PRInv, NEW j \in Jobs, JobStep(j) \/ Fail(j)
  PROVE  PRInv'
<1>1. CASE CreatePR(j)
  <2> SUFFICES ASSUME NEW t \in Tags PROVE Shown(t)'
    BY DEF PRInv
  <2>1. /\ Shown(t) /\ UNCHANGED <<branches, ahead, content>>
        /\ pr'[t] = pr[t] \/ t \in ahead
    BY <1>1 DEF PRInv, CreatePR, TypeInv, TypeOK
  <2> QED  BY <2>1 DEF Shown
<1>2. CASE ~CreatePR(j) /\ ~CreateRef(j) /\ ~PutFile(j)
  <2>1. UNCHANGED <<branches, ahead, content, pr>>
    BY <1>2 DEF JobStep, Skip, Generate, GetBody, PutBody, ReadLog, GetRef, GetHead,
                GetContents, ListPRs, Record, Fail, hostVars
  <2> QED  BY <2>1 DEF PRInv, Shown
<1> QED  BY <1>1, <1>2, CreateRefKeepsPR, PutFileKeepsPR

\* A branch is deleted with the merge of its pull request, never under an open
\* one.
LEMMA PeopleKeepPR ==
  ASSUME TypeInv, PRInv, People
  PROVE  PRInv'
<1>1. PICK u \in Tags : \/ Release(u) \/ EditBody(u) \/ MergePR(u) \/ ClosePR(u)
                        \/ \E j \in Jobs : EnqueueRelease(j, u)
  BY DEF People
<1> SUFFICES ASSUME NEW t \in Tags PROVE Shown(t)'
  BY DEF PRInv
<1>2. /\ Shown(t) /\ pr \in [Tags -> {"none", "open", "closed"}]
      /\ LogSlot(t) \in Slots /\ content \in [Slots -> Seq(Sections)]
  BY DEF PRInv, Slots, TypeInv, TypeOK
<1>3. CASE Release(u) \/ EditBody(u) \/ \E j \in Jobs : EnqueueRelease(j, u)
  <2>1. UNCHANGED <<branches, ahead, content, pr>>
    BY <1>3 DEF Release, EditBody, EnqueueRelease, hostVars
  <2> QED  BY <1>2, <2>1 DEF Shown
<1>4. CASE ClosePR(u)
  <2>1. UNCHANGED <<branches, ahead, content>> /\ pr' = [pr EXCEPT ![u] = "closed"]
    BY <1>4 DEF ClosePR
  <2> QED  BY <1>2, <2>1 DEF Shown
<1>5. CASE MergePR(u)
  <2>1. /\ pr' = [pr EXCEPT ![u] = "closed"] /\ ahead' = ahead \ {u}
        /\ \/ UNCHANGED <<branches, content>>
           \/ /\ branches' = branches \ {u}
              /\ content' = [content EXCEPT ![LogSlot(u)] = <<>>]
    BY <1>5 DEF MergePR
  <2>2. CASE t = u  BY <1>2, <2>1, <2>2 DEF Shown
  <2>3. CASE t # u
    <3>1. LogSlot(t) # LogSlot(u)  BY <2>3 DEF LogSlot
    <3> QED  BY <1>2, <2>1, <2>3, <3>1 DEF Shown
  <2> QED  BY <2>2, <2>3
<1> QED  BY <1>1, <1>3, <1>4, <1>5

LEMMA PRInvariant == Spec => []PRInv
<1>1. TypeInv /\ PRInv /\ [Next]_releaseVars => PRInv'
  <2> SUFFICES ASSUME TypeInv, PRInv, [Next]_releaseVars PROVE PRInv'
    OBVIOUS
  <2>1. CASE UNCHANGED releaseVars
    BY <2>1 DEF releaseVars, hostVars, PRInv, Shown
  <2> QED  BY <2>1, JobKeepsPR, PeopleKeepPR DEF Next
<1> QED  BY <1>1, InitPR, TypeInvariant, PTL DEF Spec

\* A pull request that waits for a review shows the section of its release,
\* for any number of releases, jobs, retries and merges, and however old the
\* head its branch was made from (release.go, UpsertFile and OpenOrUpdatePR):
\* the hosting service refuses one without a commit, and the commits are the
\* sections.
THEOREM WaitingPRHasSection == Spec => []OpenPRHasSection
<1>1. PRInv => OpenPRHasSection
  BY DEF PRInv, Shown, OpenPRHasSection, Lists
<1> QED  BY <1>1, PRInvariant, PTL

=============================================================================
